-------------------------- MODULE JsonFileStorage ---------------------------
(***************************************************************************)
(* storage/jsonFileStorage.ts: processes that keep the whole state in      *)
(* memory and write all of it to one file on every change, under a lock    *)
(* file, through a temporary file and a rename.                            *)
(*                                                                         *)
(* A document is the set of updates it holds.  One action per system call  *)
(* that others can see; a process may die between any two.  The names of   *)
(* the temporary file and of the lock are the same for every process, and  *)
(* a descriptor stays with its file when the file is renamed.              *)
(***************************************************************************)
EXTENDS Naturals

CONSTANTS
    Writers,        \* processes that use the file
    Updates,        \* changes that processes make to their state
    MaxCrashes,     \* bound on the number of processes that die
    Absent, Torn, None

Documents == SUBSET Updates

ASSUME StorageAssumption ==
    /\ MaxCrashes \in Nat
    /\ \A document \in Documents : document \notin { Absent, Torn }
    /\ Absent # Torn
    /\ None \notin Writers \union { "temporary", "live", "unlinked" }

VARIABLES
    memory,         \* the state each process holds
    contents,       \* the document each process is writing
    pc,             \* where each process is in persist
    descriptor,     \* the name of the file each process has open for writing
    lock,           \* the lock file: its creator and whether that one died
    temporary, live, backup,
    issued,         \* history: updates made so far
    saved,          \* history: updates whose persist returned
    started,        \* history: processes that have run
    recovered,      \* history: a lock was removed as stale
    crashes

files == << temporary, live, backup >>

history == << issued, saved, started, recovered >>

vars == << memory, contents, pc, descriptor, lock, files, history, crashes >>

NoLock == [ creator |-> None, orphan |-> FALSE ]

Init ==
    /\ memory = [ p \in Writers |-> {} ]
    /\ contents = [ p \in Writers |-> {} ]
    /\ pc = [ p \in Writers |-> "down" ]
    /\ descriptor = [ p \in Writers |-> None ]
    /\ lock = NoLock
    /\ temporary = Absent /\ live = Absent /\ backup = Absent
    /\ issued = {} /\ saved = {} /\ started = {} /\ recovered = FALSE
    /\ crashes = 0

Goto(p, from, to) == pc[p] = from /\ pc' = [ pc EXCEPT ![p] = to ]

\* Mutant of Load: the process starts from an empty state.
LoadNothing(p) ==
    /\ Goto(p, "down", "idle")
    /\ memory' = [ memory EXCEPT ![p] = {} ]
    /\ started' = started \union {p}
    /\ UNCHANGED << contents, descriptor, lock, files, issued, saved, recovered, crashes >>

\* The constructor: a torn document cannot be parsed and the process does not
\* start.
Load(p) ==
    /\ Goto(p, "down", "idle")
    /\ live # Torn
    /\ memory' = [ memory EXCEPT ![p] = IF live = Absent THEN {} ELSE live ]
    /\ started' = started \union {p}
    /\ UNCHANGED << contents, descriptor, lock, files, issued, saved, recovered, crashes >>

\* insert, replace, replaceAll or remove: the change is made in memory and the
\* document is composed before the lock is asked for.
Change(p, u) ==
    /\ Goto(p, "idle", "lock")
    /\ u \notin issued
    /\ memory' = [ memory EXCEPT ![p] = @ \union {u} ]
    /\ contents' = [ contents EXCEPT ![p] = memory[p] \union {u} ]
    /\ issued' = issued \union {u}
    /\ UNCHANGED << descriptor, lock, files, saved, started, recovered, crashes >>

-----------------------------------------------------------------------------
\* acquireLock.

CreateLock(p) ==
    /\ Goto(p, "lock", "open")
    /\ lock = NoLock
    /\ lock' = [ creator |-> p, orphan |-> FALSE ]
    /\ UNCHANGED << memory, contents, descriptor, files, history, crashes >>

\* statSync finds a lock older than STALE_LOCK_MS.  Processes that live hold a
\* lock for less than that.
JudgeStale(p) ==
    /\ Goto(p, "lock", "unlink")
    /\ lock.orphan
    /\ UNCHANGED << memory, contents, descriptor, lock, files, history, crashes >>

\* Mutant of RemoveStale: the lock is judged and judged again, never removed.
RemoveNothing(p) ==
    /\ Goto(p, "unlink", "lock")
    /\ UNCHANGED << memory, contents, descriptor, lock, files, history, crashes >>

\* unlinkSync removes whatever lock is there by now.
RemoveStale(p) ==
    /\ Goto(p, "unlink", "lock")
    /\ lock' = NoLock
    /\ recovered' = TRUE
    /\ UNCHANGED << memory, contents, descriptor, files, issued, saved, started, crashes >>

\* Mutant of LockTimesOut: the lock is removed on the way out.
LockTimesOutUnlocking(p) ==
    /\ Goto(p, "lock", "idle")
    /\ lock # NoLock
    /\ lock' = NoLock
    /\ UNCHANGED << memory, contents, descriptor, files, history, crashes >>

\* LOCK_TIMEOUT_MS have passed: the caller gets an error, the change stays in
\* memory.
LockTimesOut(p) ==
    /\ Goto(p, "lock", "idle")
    /\ lock # NoLock
    /\ UNCHANGED << memory, contents, descriptor, lock, files, history, crashes >>

-----------------------------------------------------------------------------
\* The body of persist, under the lock.

\* Descriptors open on `name` point at `to` from now on.
Redirected(name, to) ==
    [ p \in Writers |-> IF descriptor[p] = name THEN to ELSE descriptor[p] ]

\* Mutant of OpenTemporary: the live file is written in place.
OpenLive(p) ==
    /\ Goto(p, "open", "write")
    /\ live' = Torn
    /\ descriptor' = [ descriptor EXCEPT ![p] = "live" ]
    /\ UNCHANGED << memory, contents, lock, temporary, backup, history, crashes >>

OpenTemporary(p) ==
    /\ Goto(p, "open", "write")
    /\ temporary' = Torn
    /\ descriptor' = [ descriptor EXCEPT ![p] = "temporary" ]
    /\ UNCHANGED << memory, contents, lock, live, backup, history, crashes >>

\* What a document written over `file` leaves: its own text, or that and the
\* end of a longer one that another process wrote.
Written(p, file) == { contents[p] } \union (IF file = Torn THEN {} ELSE { Torn })

\* Mutant of WriteTemporary: the descriptor is not closed.
WriteTemporaryLeaking(p) ==
    /\ Goto(p, "write", "copy")
    /\ temporary' \in Written(p, temporary)
    /\ UNCHANGED << memory, contents, descriptor, lock, live, backup, history, crashes >>

WriteTemporary(p) ==
    /\ Goto(p, "write", "copy")
    /\ \/ /\ descriptor[p] = "temporary"
          /\ temporary' \in Written(p, temporary)
          /\ UNCHANGED live
       \/ /\ descriptor[p] = "live"
          /\ live' \in Written(p, live)
          /\ UNCHANGED temporary
       \/ /\ descriptor[p] = "unlinked"
          /\ UNCHANGED << temporary, live >>
    /\ descriptor' = [ descriptor EXCEPT ![p] = None ]
    /\ UNCHANGED << memory, contents, lock, backup, history, crashes >>

\* writeFileSync throws, on a full disk: what was open is left cut short, and finally
\* removes the lock and not the temporary file, which does not count as written.
WriteFails(p) ==
    /\ Goto(p, "write", "idle")
    /\ temporary' = IF descriptor[p] = "temporary" THEN Torn ELSE temporary
    /\ live' = IF descriptor[p] = "live" THEN Torn ELSE live
    /\ descriptor' = [ descriptor EXCEPT ![p] = None ]
    /\ lock' = NoLock
    /\ UNCHANGED << memory, contents, backup, history, crashes >>

BeginBackup(p) ==
    /\ live # Absent
    /\ Goto(p, "copy", "copying")
    /\ backup' = Torn
    /\ UNCHANGED << memory, contents, descriptor, lock, temporary, live, history, crashes >>

EndBackup(p) ==
    /\ Goto(p, "copying", "rename")
    /\ backup' = live
    /\ UNCHANGED << memory, contents, descriptor, lock, temporary, live, history, crashes >>

\* copyFileSync throws halfway.
CopyFails(p) ==
    /\ Goto(p, "copying", "cleanup")
    /\ UNCHANGED << memory, contents, descriptor, lock, files, history, crashes >>

\* Mutant of NoBackup: the backup may be skipped.
BackupSkipped(p) ==
    /\ Goto(p, "copy", "rename")
    /\ UNCHANGED << memory, contents, descriptor, lock, files, history, crashes >>

NoBackup(p) ==
    /\ live = Absent
    /\ Goto(p, "copy", "rename")
    /\ UNCHANGED << memory, contents, descriptor, lock, files, history, crashes >>

Rename(p) ==
    /\ Goto(p, "rename", "release")
    /\ temporary # Absent
    /\ live' = temporary
    /\ temporary' = Absent
    /\ descriptor' = [ q \in Writers |->
            CASE descriptor[q] = "temporary" -> "live"
              [] descriptor[q] = "live"      -> "unlinked"
              [] OTHER                       -> descriptor[q] ]
    /\ UNCHANGED << memory, contents, lock, backup, history, crashes >>

\* Another process has renamed the temporary file already.
RenameFails(p) ==
    /\ Goto(p, "rename", "cleanup")
    /\ temporary = Absent
    /\ UNCHANGED << memory, contents, descriptor, lock, files, history, crashes >>

Unlock == lock' = NoLock

\* finally, after an error behind the write: the temporary file goes, whoever wrote
\* it, and the lock with it.  The two unlinkSync calls are one step: a step of another
\* process between them makes a difference only once a lock was removed as stale.
CleanUp(p) ==
    /\ Goto(p, "cleanup", "idle")
    /\ temporary' = Absent
    /\ descriptor' = Redirected("temporary", "unlinked")
    /\ Unlock
    /\ UNCHANGED << memory, contents, live, backup, history, crashes >>

\* finally, after success, and the return to the caller.
Release(p) ==
    /\ Goto(p, "release", "idle")
    /\ Unlock
    /\ saved' = saved \union contents[p]
    /\ UNCHANGED << memory, contents, descriptor, files, issued, started, recovered, crashes >>

-----------------------------------------------------------------------------
\* A process dies; its lock, if it holds one, stays behind.
Crash(p) ==
    /\ pc[p] # "down"
    /\ crashes < MaxCrashes
    /\ crashes' = crashes + 1
    /\ pc' = [ pc EXCEPT ![p] = "down" ]
    /\ memory' = [ memory EXCEPT ![p] = {} ]
    /\ contents' = [ contents EXCEPT ![p] = {} ]
    /\ descriptor' = [ descriptor EXCEPT ![p] = None ]
    /\ lock' = [ lock EXCEPT !.orphan = @ \/ lock.creator = p ]
    /\ UNCHANGED << files, history >>

Persist(p) ==
    \/ CreateLock(p) \/ JudgeStale(p) \/ RemoveStale(p) \/ LockTimesOut(p)
    \/ OpenTemporary(p) \/ WriteTemporary(p) \/ WriteFails(p)
    \/ BeginBackup(p) \/ EndBackup(p) \/ CopyFails(p) \/ NoBackup(p)
    \/ Rename(p) \/ RenameFails(p) \/ CleanUp(p) \/ Release(p)

Next ==
    \E p \in Writers :
        Load(p) \/ (\E u \in Updates : Change(p, u)) \/ Persist(p) \/ Crash(p)

\* persist is synchronous: once begun it goes on unless its process dies.
Spec == Init /\ [][Next]_vars /\ \A p \in Writers : WF_vars(Persist(p))

-----------------------------------------------------------------------------
\* Properties.

Writing == { p \in Writers : pc[p] \in
                { "open", "write", "copy", "copying", "rename", "cleanup", "release" } }

\* Documents are sets of updates, absent or torn; a lock has a creator or is
\* no lock; only processes that are writing have the temporary file open.
TypeOK ==
    /\ memory \in [ Writers -> Documents ]
    /\ contents \in [ Writers -> Documents ]
    /\ pc \in [ Writers -> { "down", "idle", "lock", "unlink", "open", "write", "copy",
                             "copying", "rename", "cleanup", "release" } ]
    /\ descriptor \in [ Writers -> { None, "temporary", "live", "unlinked" } ]
    /\ \A p \in Writers : descriptor[p] # None <=> pc[p] = "write"
    /\ lock \in [ creator : Writers \union {None}, orphan : BOOLEAN ]
    /\ { temporary, live, backup } \subseteq { Absent, Torn } \union Documents
    /\ saved \subseteq Updates /\ issued \subseteq Updates
    /\ started \subseteq Writers /\ recovered \in BOOLEAN /\ crashes \in 0..MaxCrashes

\* Two processes are never in the body of persist at once (README.md, "This
\* serializes writers").
OneWriter == \A p, q \in Writing : p = q

\* Until a lock is removed as stale, one process at most is in the body of
\* persist, the lock is there, and it is that process's own.
LockProtects ==
    recovered \/ /\ OneWriter
                 /\ \A p \in Writing : lock = [ creator |-> p, orphan |-> FALSE ]

\* The live file can always be loaded, whatever dies and when, unless a lock was
\* removed as stale.
LiveIsComplete == live = Torn => recovered

\* While the file has had one process, everything it was told is saved is in the
\* live document, through any number of its own restarts.
SavedSurvives ==
    (\A p, q \in started : p = q) =>
        live # Torn /\ (saved # {} => live # Absent /\ saved \subseteq live)

\* When the live document is replaced, the backup holds the one it replaces,
\* unless a lock was removed as stale.
BackupIsPrevious ==
    [][ (live' # live /\ live # Absent) => (backup = live \/ recovered) ]_vars

\* A call of persist returns or its process dies: no lock, orphaned or removed
\* under it, holds it for ever.
PersistEnds == \A p \in Writers : pc[p] = "lock" ~> pc[p] \in { "idle", "down" }
=============================================================================
