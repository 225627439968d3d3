----------------------- MODULE JsonFileStorageProofs ------------------------
(***************************************************************************)
(* Proofs about JsonFileStorage, for any number of processes and updates.  *)
(*                                                                         *)
(* A process in the body of persist is alone there in two situations: no   *)
(* lock was ever removed as stale, so that the lock is its own, or no      *)
(* other process has ever run.  In both, the temporary file is the one it  *)
(* opened, and what it renames is the document it composed.                *)
(***************************************************************************)
EXTENDS JsonFileStorage, TLAPS

Solo == \A p, q \in started : p = q

Exclusive == ~recovered \/ Solo

LockHeld == recovered \/ \A p \in Writing : lock = [ creator |-> p, orphan |-> FALSE ]

Started == \A p \in Writers : pc[p] # "down" => p \in started

\* What the files hold while process p is at each place of persist.
WriterConsistent(p) ==
    /\ pc[p] = "write" => descriptor[p] = "temporary" /\ temporary = Torn
    /\ pc[p] \in { "copy", "copying", "rename" } => temporary = contents[p]
    /\ pc[p] = "release" => live = contents[p]

FilesConsistent == Exclusive => live # Torn /\ \A p \in Writers : WriterConsistent(p)

OnDisk == IF live = Absent THEN {} ELSE live

\* What a process that has the file to itself knows of it.
MemoryConsistent(p) ==
    /\ pc[p] # "down" => OnDisk \subseteq memory[p]
    /\ pc[p] \notin { "down", "idle" } => contents[p] = memory[p]

SoloConsistent ==
    Solo => /\ saved \subseteq OnDisk
            /\ \A p \in Writers : MemoryConsistent(p)

IInv == TypeOK /\ Started /\ LockHeld /\ FilesConsistent /\ SoloConsistent

-----------------------------------------------------------------------------
LEMMA NotADocument == /\ Absent \notin Documents /\ Torn \notin Documents
                      /\ Absent # Torn
BY StorageAssumption

\* Whoever is in the body of persist is there alone.
LEMMA Alone ==
    ASSUME IInv, Exclusive, NEW p \in Writing, NEW q \in Writing
    PROVE  p = q
<1>1. CASE ~recovered
  BY <1>1 DEF IInv, LockHeld
<1>2. CASE Solo
  BY <1>2 DEF IInv, Solo, Started, Writing
<1> QED BY <1>1, <1>2 DEF Exclusive

LEMMA InitIInv == Init => IInv
<1> SUFFICES ASSUME Init PROVE IInv
  OBVIOUS
<1> USE StorageAssumption DEF Init, NoLock
<1>1. TypeOK
  <2>1. lock \in [ creator : Writers \union {None}, orphan : BOOLEAN ]
    BY Zenon
  <2>2. crashes \in 0..MaxCrashes
    BY SMT
  <2>3. recovered \in BOOLEAN
    BY Zenon
  <2> QED BY <2>1, <2>2, <2>3 DEF TypeOK, Documents
<1>2. Started
  BY DEF Started
<1>3. LockHeld
  BY DEF LockHeld, Writing
<1>4. FilesConsistent
  BY DEF FilesConsistent, WriterConsistent
<1>5. SoloConsistent
  BY DEF SoloConsistent, MemoryConsistent, OnDisk
<1> QED BY <1>1, <1>2, <1>3, <1>4, <1>5 DEF IInv

-----------------------------------------------------------------------------
\* The type invariant, one action at a time.
LEMMA TypeStep == TypeOK /\ Next => TypeOK'
<1> SUFFICES ASSUME TypeOK, NEW p \in Writers,
                    \/ Load(p) \/ (\E u \in Updates : Change(p, u)) \/ Persist(p) \/ Crash(p)
             PROVE  TypeOK'
  BY DEF Next
<1> USE StorageAssumption DEF Goto, files, history, Documents
<1>1. CASE Load(p)
  BY <1>1 DEF Load, TypeOK
<1>2. ASSUME NEW u \in Updates, Change(p, u) PROVE TypeOK'
  BY <1>2 DEF Change, TypeOK
<1>3. CASE CreateLock(p)
  BY <1>3 DEF CreateLock, TypeOK
<1>4. CASE JudgeStale(p)
  BY <1>4 DEF JudgeStale, TypeOK
<1>5. CASE RemoveStale(p)
  BY <1>5 DEF RemoveStale, TypeOK, NoLock
<1>6. CASE LockTimesOut(p)
  BY <1>6 DEF LockTimesOut, TypeOK
<1>7. CASE OpenTemporary(p)
  BY <1>7 DEF OpenTemporary, TypeOK
<1>8. CASE WriteTemporary(p)
  BY <1>8 DEF WriteTemporary, TypeOK, Written
<1>9. CASE BeginBackup(p)
  BY <1>9 DEF BeginBackup, TypeOK
<1>10. CASE EndBackup(p)
  BY <1>10 DEF EndBackup, TypeOK
<1>11. CASE NoBackup(p)
  BY <1>11 DEF NoBackup, TypeOK
<1>12. CASE Rename(p)
  BY <1>12 DEF Rename, TypeOK
<1>13. CASE RenameFails(p)
  BY <1>13 DEF RenameFails, TypeOK
<1>14. CASE CleanUp(p)
  BY <1>14 DEF CleanUp, TypeOK, Unlock, NoLock, Redirected
<1>15. CASE Release(p)
  BY <1>15 DEF Release, TypeOK, Unlock, NoLock
<1>16. CASE Crash(p)
  <2>1. lock' \in [ creator : Writers \union {None}, orphan : BOOLEAN ]
    <3>1. lock'.orphan \in BOOLEAN /\ lock' = [ lock EXCEPT !.orphan = lock'.orphan ]
      BY <1>16, Zenon DEF Crash, TypeOK
    <3> QED BY <3>1 DEF TypeOK
  <2>2. crashes' \in 0..MaxCrashes
    BY <1>16 DEF Crash, TypeOK
  <2> QED BY <1>16, <2>1, <2>2 DEF Crash, TypeOK
<1>17. CASE WriteFails(p)
  BY <1>17 DEF WriteFails, TypeOK, NoLock
<1>18. CASE CopyFails(p)
  BY <1>18 DEF CopyFails, TypeOK
<1> QED BY <1>1, <1>2, <1>3, <1>4, <1>5, <1>6, <1>7, <1>8, <1>9, <1>10, <1>11,
           <1>12, <1>13, <1>14, <1>15, <1>16, <1>17, <1>18 DEF Persist

-----------------------------------------------------------------------------
\* The rest of the invariant, one part at a time.

LEMMA StartedStep == TypeOK /\ Started /\ Next => Started'
<1> SUFFICES ASSUME TypeOK, Started, NEW p \in Writers,
                    \/ Load(p) \/ (\E u \in Updates : Change(p, u)) \/ Persist(p) \/ Crash(p)
             PROVE  Started'
  BY DEF Next
<1>1. /\ \A q \in Writers : q # p => pc'[q] = pc[q]
      /\ started \subseteq started'
      /\ pc[p] # "down" \/ p \in started'
  BY DEF TypeOK, Load, Change, Crash, Persist, CreateLock, JudgeStale, RemoveStale,
         LockTimesOut, OpenTemporary, WriteTemporary, WriteFails, BeginBackup, EndBackup,
         CopyFails, NoBackup,
         Rename, RenameFails, CleanUp, Release, Goto, history
<1> QED BY <1>1 DEF Started

LEMMA LockStep == TypeOK /\ LockHeld /\ Next => LockHeld'
<1> SUFFICES ASSUME TypeOK, LockHeld, NEW p \in Writers,
                    \/ Load(p) \/ (\E u \in Updates : Change(p, u)) \/ Persist(p) \/ Crash(p),
                    ~recovered'
             PROVE  (\A q \in Writing : lock = [ creator |-> q, orphan |-> FALSE ])'
  BY DEF Next, LockHeld
<1> USE StorageAssumption DEF Goto, history, files, Writing, LockHeld, TypeOK
<1>1. CASE Load(p)
  BY <1>1 DEF Load
<1>2. ASSUME NEW u \in Updates, Change(p, u)
      PROVE  (\A q \in Writing : lock = [ creator |-> q, orphan |-> FALSE ])'
  BY <1>2 DEF Change
<1>3. CASE CreateLock(p)
  <2>1. ASSUME NEW q \in Writing PROVE FALSE
    <3>1. lock = [ creator |-> q, orphan |-> FALSE ] /\ lock = [ creator |-> None, orphan |-> FALSE ]
      BY <1>3, <2>1 DEF CreateLock, NoLock
    <3>2. q = None
      BY <3>1
    <3> QED BY <3>2
  <2>2. ASSUME NEW q \in Writers, q # p PROVE q \notin Writing'
    BY <1>3, <2>1, <2>2 DEF CreateLock
  <2>3. lock' = [ creator |-> p, orphan |-> FALSE ]
    BY <1>3 DEF CreateLock
  <2> QED BY <2>2, <2>3
<1>4. CASE JudgeStale(p)
  BY <1>4 DEF JudgeStale
<1>5. CASE RemoveStale(p)
  BY <1>5 DEF RemoveStale
<1>6. CASE LockTimesOut(p)
  BY <1>6 DEF LockTimesOut
<1>7. CASE OpenTemporary(p) \/ WriteTemporary(p) \/ BeginBackup(p) \/ EndBackup(p)
             \/ CopyFails(p) \/ NoBackup(p) \/ Rename(p) \/ RenameFails(p)
  BY <1>7 DEF OpenTemporary, WriteTemporary, BeginBackup, EndBackup, CopyFails,
              NoBackup, Rename, RenameFails
<1>8. CASE WriteFails(p) \/ CleanUp(p) \/ Release(p)
  BY <1>8 DEF WriteFails, CleanUp, Release, Unlock, NoLock
<1>9. CASE Crash(p)
  <2> SUFFICES ASSUME NEW q \in Writers, q \in Writing'
               PROVE  lock' = [ creator |-> q, orphan |-> FALSE ]
    OBVIOUS
  <2>1. q # p /\ q \in Writing /\ ~recovered
    BY <1>9 DEF Crash
  <2>2. lock = [ creator |-> q, orphan |-> FALSE ]
    BY <2>1
  <2>3. lock.creator # p /\ lock.orphan = FALSE
    BY <2>1, <2>2
  <2>4. lock' = [ lock EXCEPT !.orphan = FALSE ]
    BY <1>9, <2>3, Zenon DEF Crash
  <2> QED BY <2>2, <2>4
<1> QED BY <1>1, <1>2, <1>3, <1>4, <1>5, <1>6, <1>7, <1>8, <1>9 DEF Persist

\* Nothing but its own steps takes a process to another place or another document.
LEMMA OthersStay ==
    ASSUME TypeOK, NEW p \in Writers,
           Load(p) \/ (\E u \in Updates : Change(p, u)) \/ Persist(p) \/ Crash(p),
           NEW q \in Writers, q # p
    PROVE  pc'[q] = pc[q] /\ contents'[q] = contents[q] /\ memory'[q] = memory[q]
BY DEF TypeOK, Load, Change, Crash, Persist, CreateLock, JudgeStale, RemoveStale,
       LockTimesOut, OpenTemporary, WriteTemporary, WriteFails, BeginBackup, EndBackup,
         CopyFails, NoBackup,
       Rename, RenameFails, CleanUp, Release, Goto

LEMMA ExclusiveBefore ==
    ASSUME Next, Exclusive'
    PROVE  Exclusive
<1>1. (recovered => recovered') /\ started \subseteq started'
  BY DEF Next, Load, Change, Crash, Persist, CreateLock, JudgeStale, RemoveStale,
         LockTimesOut, OpenTemporary, WriteTemporary, WriteFails, BeginBackup, EndBackup,
         CopyFails, NoBackup,
         Rename, RenameFails, CleanUp, Release, history
<1> QED BY <1>1 DEF Exclusive, Solo

LEMMA FilesStep == IInv /\ Next => FilesConsistent'
<1> SUFFICES ASSUME IInv, NEW p \in Writers,
                    Load(p) \/ (\E u \in Updates : Change(p, u)) \/ Persist(p) \/ Crash(p),
                    Next, Exclusive'
             PROVE  live' # Torn /\ \A q \in Writers : WriterConsistent(q)'
  BY DEF Next, FilesConsistent
<1>1. Exclusive
  BY ExclusiveBefore
<1>2. live # Torn /\ \A q \in Writers : WriterConsistent(q)
  BY <1>1 DEF IInv, FilesConsistent
<1>3. ASSUME p \in Writing, NEW q \in Writers, q # p
      PROVE  q \notin Writing /\ pc'[q] = pc[q] /\ WriterConsistent(q)'
  <2>1. q \notin Writing
    BY <1>1, <1>3, Alone
  <2>2. pc'[q] = pc[q]
    BY <1>3, OthersStay DEF IInv
  <2> QED BY <2>1, <2>2 DEF Writing, WriterConsistent
<1> USE DEF Goto, WriterConsistent
<1>4. CASE Load(p)
  BY <1>2, <1>4 DEF Load, files, IInv, TypeOK
<1>5. ASSUME NEW u \in Updates, Change(p, u)
      PROVE  live' # Torn /\ \A q \in Writers : WriterConsistent(q)'
  BY <1>2, <1>5 DEF Change, files, IInv, TypeOK
<1>6. CASE CreateLock(p) \/ JudgeStale(p) \/ RemoveStale(p) \/ LockTimesOut(p)
  BY <1>2, <1>6 DEF CreateLock, JudgeStale, RemoveStale, LockTimesOut, files, IInv, TypeOK
<1>7. CASE OpenTemporary(p)
  <2>1. live' # Torn /\ WriterConsistent(p)'
    BY <1>2, <1>7 DEF OpenTemporary, IInv, TypeOK
  <2> QED BY <1>3, <1>7, <2>1 DEF OpenTemporary, Writing
<1>8. CASE WriteTemporary(p)
  <2>1. descriptor[p] = "temporary" /\ temporary = Torn
    BY <1>2, <1>8 DEF WriteTemporary
  <2>2. temporary' = contents[p] /\ live' = live
    BY <1>8, <2>1 DEF WriteTemporary, Written
  <2>3. live' # Torn /\ WriterConsistent(p)'
    BY <1>2, <1>8, <2>2 DEF WriteTemporary, IInv, TypeOK
  <2> QED BY <1>3, <1>8, <2>3 DEF WriteTemporary, Writing
<1>9. CASE BeginBackup(p) \/ EndBackup(p) \/ CopyFails(p) \/ NoBackup(p)
  BY <1>2, <1>9 DEF BeginBackup, EndBackup, CopyFails, NoBackup, files, IInv, TypeOK
<1>10. CASE Rename(p)
  <2>1. temporary = contents[p] /\ contents[p] \in Documents
    BY <1>2, <1>10 DEF Rename, IInv, TypeOK
  <2>2. live' # Torn /\ WriterConsistent(p)'
    BY <1>10, <2>1, NotADocument DEF Rename, IInv, TypeOK
  <2> QED BY <1>3, <1>10, <2>2 DEF Rename, Writing
<1>11. CASE RenameFails(p)
  <2>1. temporary = contents[p] /\ contents[p] \in Documents
    BY <1>2, <1>11 DEF RenameFails, IInv, TypeOK
  <2> QED BY <1>11, <2>1, NotADocument DEF RenameFails
<1>12. CASE CleanUp(p)
  <2>1. live' # Torn /\ WriterConsistent(p)'
    BY <1>2, <1>12 DEF CleanUp, IInv, TypeOK
  <2> QED BY <1>3, <1>12, <2>1 DEF CleanUp, Writing
<1>13. CASE Release(p)
  BY <1>2, <1>13 DEF Release, files, IInv, TypeOK
<1>14. CASE Crash(p)
  BY <1>2, <1>14 DEF Crash, files, IInv, TypeOK
<1>15. CASE WriteFails(p)
  <2>1. descriptor[p] = "temporary"
    BY <1>2, <1>15 DEF WriteFails
  <2>2. live' # Torn /\ WriterConsistent(p)'
    BY <1>2, <1>15, <2>1 DEF WriteFails, IInv, TypeOK
  <2> QED BY <1>3, <1>15, <2>2 DEF WriteFails, Writing
<1> QED BY <1>4, <1>5, <1>6, <1>7, <1>8, <1>9, <1>10, <1>11, <1>12, <1>13, <1>14,
           <1>15 DEF Persist

LEMMA SoloStep == IInv /\ Next => SoloConsistent'
<1> SUFFICES ASSUME IInv, NEW p \in Writers,
                    Load(p) \/ (\E u \in Updates : Change(p, u)) \/ Persist(p) \/ Crash(p),
                    Solo'
             PROVE  saved' \subseteq OnDisk' /\ \A q \in Writers : MemoryConsistent(q)'
  BY DEF Next, SoloConsistent
<1>1. started \subseteq started' /\ p \in started'
  BY DEF IInv, Started, Load, Change, Crash, Persist, CreateLock, JudgeStale, RemoveStale,
         LockTimesOut, OpenTemporary, WriteTemporary, WriteFails, BeginBackup, EndBackup,
         CopyFails, NoBackup,
         Rename, RenameFails, CleanUp, Release, Goto, history
<1>2. Solo
  BY <1>1 DEF Solo
<1>3. saved \subseteq OnDisk /\ MemoryConsistent(p)
  BY <1>2 DEF IInv, SoloConsistent
<1>4. live # Torn /\ WriterConsistent(p)
  BY <1>2 DEF IInv, FilesConsistent, Exclusive
<1>5. ASSUME NEW q \in Writers, q # p PROVE MemoryConsistent(q)'
  <2>1. pc[q] = "down"
    BY <1>1, <1>5 DEF Solo, IInv, Started
  <2>2. pc'[q] = "down"
    BY <2>1, <1>5, OthersStay DEF IInv
  <2> QED BY <2>2 DEF MemoryConsistent
<1> SUFFICES saved' \subseteq OnDisk' /\ MemoryConsistent(p)'
  BY <1>5
<1> USE DEF Goto, MemoryConsistent, OnDisk, history, files
<1>6. CASE Load(p)
  BY <1>3, <1>4, <1>6 DEF Load, IInv, TypeOK
<1>7. ASSUME NEW u \in Updates, Change(p, u)
      PROVE  saved' \subseteq OnDisk' /\ MemoryConsistent(p)'
  BY <1>3, <1>7 DEF Change, IInv, TypeOK
<1>8. CASE CreateLock(p) \/ JudgeStale(p) \/ RemoveStale(p) \/ LockTimesOut(p)
  BY <1>3, <1>8 DEF CreateLock, JudgeStale, RemoveStale, LockTimesOut, IInv, TypeOK
<1>9. CASE OpenTemporary(p) \/ BeginBackup(p) \/ EndBackup(p) \/ NoBackup(p)
            \/ CopyFails(p) \/ RenameFails(p) \/ CleanUp(p)
  BY <1>3, <1>9 DEF OpenTemporary, BeginBackup, EndBackup, CopyFails, NoBackup,
                    RenameFails, CleanUp, IInv, TypeOK
<1>10. CASE WriteTemporary(p) \/ WriteFails(p)
  BY <1>3, <1>4, <1>10 DEF WriteTemporary, WriteFails, WriterConsistent, IInv, TypeOK
<1>11. CASE Rename(p)
  <2>1. live' = contents[p] /\ contents[p] = memory[p] /\ contents[p] \in Documents
    BY <1>3, <1>4, <1>11 DEF Rename, WriterConsistent, IInv, TypeOK
  <2>2. OnDisk' = memory[p]
    BY <2>1, NotADocument
  <2>3. memory' = memory /\ contents' = contents /\ saved' = saved /\ pc[p] = "rename"
    BY <1>11 DEF Rename
  <2> QED BY <1>3, <2>1, <2>2, <2>3
<1>12. CASE Release(p)
  <2>1. live = contents[p] /\ contents[p] \in Documents
    BY <1>4, <1>12 DEF Release, WriterConsistent, IInv, TypeOK
  <2>2. OnDisk = contents[p]
    BY <2>1, NotADocument
  <2> QED BY <1>3, <1>12, <2>2 DEF Release, IInv, TypeOK
<1>13. CASE Crash(p)
  BY <1>3, <1>13 DEF Crash, IInv, TypeOK
<1> QED BY <1>6, <1>7, <1>8, <1>9, <1>10, <1>11, <1>12, <1>13 DEF Persist

-----------------------------------------------------------------------------
LEMMA StutterIInv == IInv /\ UNCHANGED vars => IInv'
<1> SUFFICES ASSUME IInv, UNCHANGED vars PROVE IInv'
  OBVIOUS
<1> USE DEF IInv, vars, files, history
<1>1. TypeOK'
  BY DEF TypeOK
<1>2. Started' /\ LockHeld'
  BY DEF Started, LockHeld, Writing
<1>3. FilesConsistent'
  BY DEF FilesConsistent, WriterConsistent, Exclusive, Solo
<1>4. SoloConsistent'
  BY DEF SoloConsistent, MemoryConsistent, OnDisk, Solo
<1> QED BY <1>1, <1>2, <1>3, <1>4

LEMMA Invariance == Spec => []IInv
<1>1. IInv /\ [Next]_vars => IInv'
  <2>1. IInv /\ Next => IInv'
    BY TypeStep, StartedStep, LockStep, FilesStep, SoloStep DEF IInv
  <2> QED BY <2>1, StutterIInv
<1> QED BY InitIInv, <1>1, PTL DEF Spec

\* Every variable keeps its type, and a process has a file open exactly while it
\* writes: no error path of persist leaks a descriptor.
THEOREM TypeCorrect == Spec => []TypeOK
<1>1. IInv => TypeOK
  BY DEF IInv
<1> QED BY <1>1, Invariance, PTL

\* For any number of processes, the lock file excludes all but one of them from
\* the body of persist until one is removed as stale.
THEOREM LockExcludes == Spec => []LockProtects
<1>1. IInv => LockProtects
  <2> SUFFICES ASSUME IInv, ~recovered PROVE LockProtects
    BY DEF LockProtects
  <2>1. OneWriter
    BY Alone DEF OneWriter, Exclusive
  <2> QED BY <2>1 DEF LockProtects, IInv, LockHeld
<1> QED BY <1>1, Invariance, PTL

\* For any number of processes that die anywhere, persist leaves a document the
\* next constructor can load, until a lock is removed as stale.
THEOREM LiveStaysComplete == Spec => []LiveIsComplete
<1>1. IInv => LiveIsComplete
  BY DEF IInv, FilesConsistent, Exclusive, LiveIsComplete
<1> QED BY <1>1, Invariance, PTL

\* A process that has the file to itself loses nothing it was told is saved,
\* however often it dies and starts again, stale locks of its own included.
THEOREM SavedIsKept == Spec => []SavedSurvives
<1>1. IInv => SavedSurvives
  <2> SUFFICES ASSUME IInv, Solo
               PROVE  live # Torn /\ (saved # {} => live # Absent /\ saved \subseteq live)
    BY DEF SavedSurvives, Solo
  <2>1. live # Torn
    BY DEF IInv, FilesConsistent, Exclusive
  <2>2. saved \subseteq OnDisk
    BY DEF IInv, SoloConsistent
  <2> QED BY <2>1, <2>2 DEF OnDisk
<1> QED BY <1>1, Invariance, PTL

-----------------------------------------------------------------------------
\* The backup, between the copy and the rename.
Backed ==
    Exclusive => \A p \in Writers : (pc[p] = "rename" /\ live # Absent) => backup = live

LEMMA BackedStep == IInv /\ Backed /\ Next => Backed'
<1> SUFFICES ASSUME IInv, Backed, NEW p \in Writers,
                    Load(p) \/ (\E u \in Updates : Change(p, u)) \/ Persist(p) \/ Crash(p),
                    Next, Exclusive', NEW q \in Writers, (pc[q] = "rename")', live' # Absent
             PROVE  backup' = live'
  BY DEF Next, Backed
<1>1. Exclusive
  BY ExclusiveBefore
<1>2. live # Torn /\ WriterConsistent(p)
  BY <1>1 DEF IInv, FilesConsistent
<1>3. CASE q # p
  <2>1. pc[q] = "rename" /\ q \in Writing
    BY <1>3, OthersStay DEF IInv, Writing
  <2>2. p \notin Writing
    BY <1>1, <1>3, <2>1, Alone
  <2>3. backup' = backup /\ live' = live
    BY <2>2 DEF Writing, Persist, Load, Change, Crash, CreateLock, JudgeStale, RemoveStale,
       LockTimesOut, OpenTemporary, WriteTemporary, WriteFails, BeginBackup, EndBackup,
         CopyFails, NoBackup,
       Rename, RenameFails, CleanUp, Release, Goto, files
  <2> QED BY <1>1, <2>1, <2>3 DEF Backed
<1>4. CASE q = p
  <2>1. EndBackup(p) \/ NoBackup(p)
    BY <1>4 DEF Persist, Load, Change, Crash, CreateLock, JudgeStale, RemoveStale,
       LockTimesOut, OpenTemporary, WriteTemporary, WriteFails, BeginBackup, CopyFails,
       Rename, RenameFails, CleanUp, Release, Goto, IInv, TypeOK
  <2> QED BY <2>1 DEF EndBackup, NoBackup, files
<1> QED BY <1>3, <1>4

\* No step replaces the live document while the backup is another one, until a lock
\* is removed as stale: persist copies the live file before it renames over it.
THEOREM BackupPrecedesRename == Spec => BackupIsPrevious
<1>1. ASSUME IInv, Backed, Next, live' # live, live # Absent, ~recovered
      PROVE  backup = live
  <2>1. PICK p \in Writers :
            Load(p) \/ (\E u \in Updates : Change(p, u)) \/ Persist(p) \/ Crash(p)
    BY <1>1 DEF Next
  <2>2. Exclusive /\ WriterConsistent(p)
    BY <1>1 DEF IInv, FilesConsistent, Exclusive
  <2>3. Rename(p)
    BY <1>1, <2>1, <2>2 DEF WriterConsistent, Persist, Load, Change, Crash, CreateLock,
       JudgeStale, RemoveStale, LockTimesOut, OpenTemporary, WriteTemporary, WriteFails, BeginBackup,
       EndBackup, CopyFails, NoBackup, RenameFails, CleanUp, Release, Goto, files
  <2> QED BY <1>1, <2>2, <2>3 DEF Backed, Rename, Goto
<1>2. IInv /\ Backed /\ [Next]_vars =>
        [ (live' # live /\ live # Absent) => (backup = live \/ recovered) ]_vars
  BY <1>1 DEF vars, files
<1>3. Init => Backed
  BY DEF Init, Backed
<1>4. IInv /\ Backed /\ [Next]_vars => Backed'
  <2>1. IInv /\ Backed /\ UNCHANGED vars => Backed'
    BY DEF vars, files, history, Backed, Exclusive, Solo
  <2> QED BY <2>1, BackedStep
<1> QED BY <1>2, <1>3, <1>4, Invariance, PTL DEF Spec, BackupIsPrevious
=============================================================================
