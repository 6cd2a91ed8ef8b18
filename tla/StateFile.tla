----------------------------- MODULE StateFile -----------------------------
(***************************************************************************)
(* The relay's state file (FileStateStore, src/relay/src/persist.ts) and    *)
(* how the server drives it: loading it at start-up, debounced background  *)
(* writes, the synchronous flush when the process is told to stop, and the  *)
(* process dying at any point.                                              *)
(*                                                                         *)
(* What the store holds is a version, the number of the change that made    *)
(* it, and whether any session is left in it.  A file is readable only with *)
(* the key it was written with; none at all is one of the keys.             *)
(***************************************************************************)
EXTENDS Naturals

CONSTANTS
  Keys,         \* what RELAY_STATE_KEY may be at a start, "unset" included
  Damaged,      \* written by no key: not JSON, a foreign version, tampered with
  Absent,       \* no file, and no write in progress
  MaxChanges,   \* bound: changes to the store
  MaxStarts     \* bound: relay processes

ASSUME DamagedIsNoKey == Damaged \notin Keys
ASSUME AbsentIsNoRecord ==
  /\ Absent \notin [key : Keys \cup {Damaged}, v : Nat, empty : BOOLEAN]
  /\ Absent \notin [v : Nat, empty : BOOLEAN, overtaken : BOOLEAN]
ASSUME BoundsAreNatural == {MaxChanges, MaxStarts} \subseteq Nat

VARIABLES
  phase,       \* "down", "up", "stopping" (flushed, not closed), "closed"
  starts,      \* processes so far
  key,         \* stateKey() of this process
  store,       \* what store.snapshot() would return
  changes,     \* changes so far, by all processes
  pending,     \* a snapshot is queued
  timer,       \* the debounce timer is armed
  writing,     \* the background write in progress: its snapshot, and whether
               \* flush() or close() has bumped the generation since
  unreadable,  \* load() found a file it could not use
  file,        \* the file, whole: a write is renamed into place
  aside,       \* files moved aside
  queued,      \* history: version of the store when schedule() last ran
  atSignal,    \* history: version of the store when the process was told to stop
  lost,        \* history: the last write failed
  covered      \* history: a set-aside failed and the file was written over

process == <<key, store, pending, timer, writing, unreadable>>
disk    == <<file, aside>>
vars    == <<phase, starts, changes, process, disk, queued, atSignal, lost, covered>>

Contents == [v : Nat, empty : BOOLEAN]
Files    == [key : Keys \cup {Damaged}, v : Nat, empty : BOOLEAN]

TypeOK ==
  /\ phase \in {"down", "up", "stopping", "closed"}
  /\ starts \in Nat
  /\ key \in Keys
  /\ store \in Contents
  /\ changes \in Nat
  /\ {pending, timer, unreadable, lost, covered} \subseteq BOOLEAN
  /\ writing \in [v : Nat, empty : BOOLEAN, overtaken : BOOLEAN] \cup {Absent}
  /\ file \in Files \cup {Absent}
  /\ aside \subseteq Files
  /\ {queued, atSignal} \subseteq Nat
  /\ timer => pending /\ writing = Absent
  /\ pending => phase \in {"up", "stopping"} /\ (timer \/ writing # Absent)

NothingYet == [v |-> 0, empty |-> TRUE]

Init ==
  /\ phase = "down"
  /\ starts = 0
  /\ key \in Keys
  /\ store = NothingYet
  /\ changes = 1
  /\ pending = FALSE
  /\ timer = FALSE
  /\ writing = Absent
  /\ unreadable = FALSE
  /\ file \in {Absent} \cup [key : Keys \cup {Damaged}, v : {1}, empty : {FALSE}]
  /\ aside = {}
  /\ queued = 0
  /\ atSignal = 0
  /\ lost = FALSE
  /\ covered = FALSE

---------------------------------------------------------------------------
(* Start-up *)

Usable(f, k) == f # Absent /\ f.key = k

\* startServer: load() and restore(); nothing listens for changes before.
Start ==
  /\ phase = "down"
  /\ starts < MaxStarts
  /\ starts' = starts + 1
  /\ phase' = "up"
  /\ \E k \in Keys :
       /\ key' = k
       /\ store' = IF Usable(file, k) THEN [v |-> file.v, empty |-> file.empty] ELSE NothingYet
       /\ unreadable' = (file # Absent /\ ~Usable(file, k))
  /\ queued' = 0
  /\ atSignal' = 0
  /\ lost' = FALSE
  /\ UNCHANGED <<changes, pending, timer, writing, disk, covered>>

---------------------------------------------------------------------------
(* Changes and their background writes *)

Serving == phase \in {"up", "stopping"}

Armed == timer \/ writing = Absent

\* A session or a claim comes, goes or changes: changed(), schedule().
Change ==
  /\ Serving
  /\ changes < MaxChanges
  /\ changes' = changes + 1
  /\ \E empty \in BOOLEAN : store' = [v |-> changes + 1, empty |-> empty]
  /\ pending' = TRUE
  /\ timer' = Armed
  /\ queued' = changes + 1
  /\ UNCHANGED <<phase, starts, key, writing, unreadable, disk, atSignal, lost, covered>>

\* A session is used within a minute of the last change (noteActivity): only
\* its timestamps move, and nothing is queued.
Activity ==
  /\ Serving
  /\ ~store.empty
  /\ changes < MaxChanges
  /\ changes' = changes + 1
  /\ store' = [store EXCEPT !.v = changes + 1]
  /\ UNCHANGED <<phase, starts, key, pending, timer, writing, unreadable, disk, queued, atSignal,
                 lost, covered>>

\* startWrite: the snapshot is taken as the write starts.
TimerFires ==
  /\ timer
  /\ timer' = FALSE
  /\ pending' = FALSE
  /\ writing' = [v |-> store.v, empty |-> store.empty, overtaken |-> FALSE]
  /\ UNCHANGED <<phase, starts, key, store, changes, unreadable, disk, queued, atSignal, lost, covered>>

\* setAsideUnreadable, then the rename into place of the snapshot s.  The write
\* may fail before it gets here or at the rename, and so may the set-aside.
Renamed(s) ==
  \/ /\ lost' = TRUE
     /\ UNCHANGED <<unreadable, disk, covered>>
  \/ \E moved \in BOOLEAN, landed \in BOOLEAN :
       /\ unreadable' = FALSE
       /\ aside' = IF unreadable /\ moved THEN aside \cup {file} ELSE aside
       /\ covered' = (covered \/ (unreadable /\ ~moved))
       /\ lost' = ~landed
       /\ file' = CASE landed -> [key |-> key, v |-> s.v, empty |-> s.empty]
                    [] ~landed /\ unreadable /\ moved -> Absent
                    [] OTHER -> file

\* Mutant: a change queued during a write waits for the next one.
NotRearmed == FALSE

Rearmed == pending

\* Mutant: a background write is renamed into place whatever happened meanwhile.
NeverOvertaken(w) == FALSE

Overtaken(w) == w.overtaken

\* The write's last step, and its finally: what was queued meanwhile arms the
\* timer.
BackgroundEnds ==
  /\ writing # Absent
  /\ IF Overtaken(writing)
     THEN UNCHANGED <<unreadable, disk, lost, covered>>
     ELSE Renamed(writing)
  /\ writing' = Absent
  /\ timer' = Rearmed
  /\ UNCHANGED <<phase, starts, key, store, changes, pending, queued, atSignal>>

---------------------------------------------------------------------------
(* Stopping *)

\* Mutant: only what is queued already is written.
QueuesNothing == FALSE

\* persistNow queues a snapshot unless the store is empty.
QueuesSnapshot == ~store.empty

\* persistNow: flush() writes the queued snapshot, or redoes the write in
\* progress, with the store as it is now.
PersistNow ==
  /\ pending' = FALSE
  /\ timer' = FALSE
  /\ IF pending \/ writing # Absent \/ QueuesSnapshot
     THEN Renamed(store)
     ELSE UNCHANGED <<unreadable, disk, lost, covered>>

\* The generation moves on: a write in progress will land nothing.
Overtake == writing' = IF writing = Absent THEN Absent ELSE [writing EXCEPT !.overtaken = TRUE]

\* SIGTERM: shutdown() runs flushState first.
Signal ==
  /\ phase = "up"
  /\ phase' = "stopping"
  /\ atSignal' = store.v
  /\ PersistNow
  /\ Overtake
  /\ UNCHANGED <<starts, key, store, changes, queued>>

\* The server's 'close', when the last connection is gone: persistNow, close().
Close ==
  /\ phase = "stopping"
  /\ phase' = "closed"
  /\ PersistNow
  /\ Overtake
  /\ UNCHANGED <<starts, key, store, changes, queued, atSignal>>

Died ==
  /\ phase' = "down"
  /\ store' = NothingYet
  /\ pending' = FALSE
  /\ timer' = FALSE
  /\ writing' = Absent
  /\ unreadable' = FALSE
  /\ UNCHANGED <<starts, key, changes, queued, atSignal, lost, covered>>

\* process.exit, at the deadline or after 'close', and a crash or SIGKILL.
Exit ==
  /\ phase # "down"
  /\ Died
  /\ UNCHANGED disk

\* A crash between the two renames of a write.
CrashSettingAside ==
  /\ unreadable
  /\ writing # Absent /\ ~Overtaken(writing)
  /\ file' = Absent
  /\ aside' = aside \cup {file}
  /\ Died

---------------------------------------------------------------------------
Next ==
  \/ Start
  \/ Change
  \/ Activity
  \/ TimerFires
  \/ BackgroundEnds
  \/ Signal
  \/ Close
  \/ Exit
  \/ CrashSettingAside

Spec == Init /\ [][Next]_vars

\* Timers fire and the disk answers, well or badly, while the process lives.
FairSpec == Spec /\ WF_vars(TimerFires) /\ WF_vars(BackgroundEnds)

---------------------------------------------------------------------------
(* Properties *)

FileVersion == IF file = Absent THEN 0 ELSE file.v

(* A file this process could not read is never written over, also by a write *)
(* that fails or dies half-way: it is set aside first (load, setAside-        *)
(* Unreadable), unless the set-aside itself failed.                           *)
UnreadableIsKept ==
  [][file # Absent /\ file' # file /\ ~Usable(file, key) => file \in aside' \/ covered']_vars

(* A relay that started without sessions and has not had any since leaves the *)
(* file where it is, so that a restart with the right key restores it.        *)
QuietStartLeavesTheFile ==
  [][phase # "down" /\ store.v = 0 => file' = file]_vars

(* An older snapshot never lands over a newer one, whatever write was under   *)
(* way when another one flushed.                                              *)
NewerSnapshotStays ==
  [][file # Absent /\ file' # Absent => FileVersion' >= FileVersion]_vars

(* Once told to stop, the process leaves in the file at least what the store  *)
(* held at the signal, timestamps included, however it dies.                  *)
SignalledStateIsSaved ==
  phase \in {"stopping", "closed"} /\ ~lost => FileVersion >= atSignal

(* The file this process leaves is well formed and has what it was told to   *)
(* save.                                                                      *)
FileIsSound == TypeOK /\ SignalledStateIsSaved

(* Nothing the file holds gives way to something worse: not a state that this *)
(* process could not read, not one it was never given, not a newer snapshot.  *)
BetterStateStays == UnreadableIsKept /\ QuietStartLeavesTheFile /\ NewerSnapshotStays

(* A change reaches the file while the process serves and its writes succeed. *)
ChangesReachTheFile ==
  \A v \in 1..MaxChanges :
    (phase = "up" /\ queued = v) ~> (FileVersion >= v \/ lost \/ phase # "up")

=============================================================================
