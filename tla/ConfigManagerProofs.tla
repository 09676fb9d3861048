------------------------ MODULE ConfigManagerProofs -------------------------
(***************************************************************************)
(* Proofs about ConfigManager for every set of users and every number of   *)
(* modifications, with crashes at any step: the types, the readable copy,  *)
(* what the last save leaves on disk and what a load recovers.             *)
(***************************************************************************)
EXTENDS ConfigManager, TLAPS

Loading == pc \in {"load", "backup", "backupOpen", "heal", "healOpen", "loaded"}
Saving  == wpc \in {"open", "close", "unlock"} \/ pc = "saveOpen"

\* Who holds the lock: the one user that uses the settings, or whoever saves.
LockOK == /\ mtx \in User => using = {mtx}
          /\ mtx \notin User => using = {}
          /\ Saving => mtx = Saver
          /\ Loading => mtx = Nobody
          /\ pc = "off" /\ savesAtExit => mtx = Nobody

\* The worker lives from enableAutoSave() to the join.
WorkerOK == (wpc # "none") <=> (pc \in {"running", "join"})

\* The two files: which of them may be damaged, and when.
FilesOK == /\ file = Torn => \/ pc \in {"load", "heal", "healOpen", "saveOpen"}
                             \/ wpc = "close"
           /\ bak = Torn => pc \in {"load", "backup", "backupOpen"} /\ Readable(file)
           /\ file = Absent => bak = Absent /\ pc \in {"load", "heal"}

\* What they hold: the last version saved, and the one the session began with.
VersionsOK == /\ Readable(file) => file = lastSaved
              /\ Readable(bak) => bak = base
              /\ bak = Absent => base = Default
              /\ pc \in {"heal", "healOpen"} => conf = base
              /\ pc \in {"backup", "backupOpen"} => Readable(file) /\ conf = file

IInv == TypeOK /\ LockOK /\ WorkerOK /\ FilesOK /\ VersionsOK /\ ExitSavesAll

USE ConfigAssumption DEF ConfigAssumption
USE DEF Version, Default, Torn, Absent, Readable

-----------------------------------------------------------------------------
\* The first start, without any file, establishes the invariant (config.h member
\* initialisers).
LEMMA InitInv == Init => IInv
<1> SUFFICES ASSUME Init PROVE IInv
  OBVIOUS
<1>1. TypeOK
  <2>1. Default \in Version
    OBVIOUS
  <2>2. file \in Version \cup {Torn, Absent} /\ bak \in Version \cup {Torn, Absent}
    BY DEF Init
  <2>3. conf \in Version /\ issued \in Version /\ lastSaved \in Version /\ base \in Version
    BY <2>1 DEF Init
  <2>4. changed \in BOOLEAN /\ autoSaveEnabled \in BOOLEAN /\ savesAtExit \in BOOLEAN
    BY DEF Init
  <2>5. using \subseteq User /\ mtx \in User \cup {Nobody, Saver}
    BY DEF Init
  <2>6. QED
    BY <2>2, <2>3, <2>4, <2>5 DEF Init, TypeOK
<1>2. LockOK /\ WorkerOK
  BY DEF Init, LockOK, WorkerOK, Loading, Saving
<1>3. FilesOK /\ VersionsOK /\ ExitSavesAll
  BY DEF Init, FilesOK, VersionsOK, ExitSavesAll
<1>4. QED
  BY <1>1, <1>2, <1>3 DEF IInv

USE DEF disk, memory, history

\* load() preserves the invariant (config.cpp load).
LEMMA LoadInv == IInv /\ Load => IInv'
<1> SUFFICES ASSUME IInv, Load PROVE IInv'
  OBVIOUS
<1> USE DEF IInv
<1> USE DEF LoadFile, Heal, OpenBackup, CloseBackup, OpenHealed, CloseHealed
<1>1. TypeOK'
  <2>1. file' \in Version \cup {Torn, Absent} /\ bak' \in Version \cup {Torn, Absent}
    BY DEF TypeOK, Load
  <2>2. conf' \in Version /\ lastSaved' \in Version /\ base' \in Version
    BY DEF TypeOK, Load, VersionsOK
  <2>3. UNCHANGED <<changed, mtx, autoSaveEnabled, using, wpc, savesAtExit, issued>>
    BY DEF Load
  <2>4. pc' \in {"backup", "backupOpen", "heal", "healOpen", "loaded"}
    BY DEF Load
  <2>5. QED
    BY <2>1, <2>2, <2>3, <2>4 DEF TypeOK
<1>2. LockOK' /\ WorkerOK'
  BY DEF LockOK, WorkerOK, Loading, Saving, Load
<1>3. FilesOK'
  BY DEF FilesOK, VersionsOK, WorkerOK, Load, TypeOK
<1>4. VersionsOK'
  BY DEF FilesOK, VersionsOK, TypeOK, Load
<1>5. ExitSavesAll'
  BY DEF ExitSavesAll, Load
<1>6. QED
  BY <1>1, <1>2, <1>3, <1>4, <1>5

\* The auto-save worker preserves the invariant (config.cpp autoSaveWorker).
LEMMA AutoSaveInv == IInv /\ AutoSave => IInv'
<1> SUFFICES ASSUME IInv, AutoSave PROVE IInv'
  OBVIOUS
<1> USE DEF IInv
<1> USE DEF WorkerEnds, TryLater, TryLock, OpenFile, CloseFile, Unlock, WakeUp
<1>1. TypeOK'
  <2>1. file' \in Version \cup {Torn, Absent} /\ lastSaved' \in Version
    BY DEF TypeOK, AutoSave
  <2>2. changed' \in BOOLEAN
    BY DEF TypeOK, AutoSave
  <2>3. mtx' \in User \cup {Nobody, Saver}
    BY DEF TypeOK, AutoSave
  <2>4. wpc' \in {"loop", "open", "close", "unlock", "sleep", "ended"}
    BY DEF TypeOK, AutoSave
  <2>5. UNCHANGED <<bak, conf, autoSaveEnabled, using, pc, savesAtExit, issued, base>>
    BY DEF AutoSave
  <2>6. QED
    BY <2>1, <2>2, <2>3, <2>4, <2>5 DEF TypeOK
<1>2. LockOK' /\ WorkerOK'
  BY DEF LockOK, WorkerOK, Loading, Saving, AutoSave, TypeOK, Nobody, Saver
<1>3. FilesOK'
  BY DEF FilesOK, WorkerOK, AutoSave, TypeOK
<1>4. VersionsOK'
  BY DEF FilesOK, VersionsOK, WorkerOK, TypeOK, AutoSave
<1>5. ExitSavesAll'
  BY DEF ExitSavesAll, WorkerOK, AutoSave
<1>6. QED
  BY <1>1, <1>2, <1>3, <1>4, <1>5

\* Enabling and disabling the auto-save and the last save preserve the invariant
\* (config.cpp enableAutoSave, disableAutoSave, save).
LEMMA ExitInv == IInv /\ (EnableAutoSave \/ DisableAutoSave \/ Exit) => IInv'
<1> SUFFICES ASSUME IInv, EnableAutoSave \/ DisableAutoSave \/ Exit PROVE IInv'
  OBVIOUS
<1> USE DEF IInv
<1> USE DEF EnableAutoSave, DisableAutoSave, JoinWorker, OpenAtExit, CloseAtExit
<1>1. TypeOK'
  BY DEF TypeOK, Exit, Nobody, Saver
<1>2. LockOK' /\ WorkerOK'
  BY DEF LockOK, WorkerOK, Loading, Saving, Exit, Nobody, Saver
<1>3. FilesOK'
  BY DEF FilesOK, WorkerOK, Exit, TypeOK
<1>4. VersionsOK'
  BY DEF FilesOK, VersionsOK, WorkerOK, TypeOK, Exit
<1>5. ExitSavesAll'
  BY DEF ExitSavesAll, WorkerOK, Exit, TypeOK
<1>6. QED
  BY <1>1, <1>2, <1>3, <1>4, <1>5

\* Users of the settings preserve the invariant (config.cpp acquire, release).
LEMMA UserInv == ASSUME IInv, NEW u \in User, NEW modified \in BOOLEAN,
                        Acquire(u) \/ Release(u, modified)
                 PROVE  IInv'
<1> USE DEF IInv
<1>1. CASE Acquire(u)
  <2> USE <1>1 DEF Acquire
  <2>1. TypeOK'
    BY DEF TypeOK
  <2>2. LockOK' /\ WorkerOK'
    BY DEF LockOK, WorkerOK, Loading, Saving, Nobody, Saver
  <2>3. FilesOK' /\ VersionsOK' /\ ExitSavesAll'
    BY DEF FilesOK, VersionsOK, ExitSavesAll
  <2>4. QED
    BY <2>1, <2>2, <2>3
<1>2. CASE Release(u, modified)
  <2> USE <1>2 DEF Release
  <2>1. mtx = u /\ using = {u}
    BY DEF LockOK
  <2>2. ~Loading /\ ~Saving
    BY <2>1 DEF LockOK, Nobody, Saver
  <2>3. TypeOK'
    <3>1. conf' \in Version /\ issued' \in Version
      BY DEF TypeOK
    <3>2. changed' \in BOOLEAN
      BY DEF TypeOK
    <3>3. QED
      BY <3>1, <3>2 DEF TypeOK
  <2>4. LockOK' /\ WorkerOK'
    BY <2>1, <2>2 DEF LockOK, WorkerOK, Loading, Saving, Nobody
  <2>5. FilesOK' /\ VersionsOK'
    BY <2>2 DEF FilesOK, VersionsOK, Loading
  <2>6. ExitSavesAll'
    BY <2>1 DEF LockOK, ExitSavesAll, Nobody
  <2>7. QED
    BY <2>3, <2>4, <2>5, <2>6
<1>3. QED
  BY <1>1, <1>2
-----------------------------------------------------------------------------
\* A crash or a new start, at any moment, preserves the invariant: what is on disk
\* stays, what is in memory is initialised (config.h, config.cpp save).
LEMMA RestartInv == IInv /\ (Crash \/ Start) => IInv'
<1> SUFFICES ASSUME IInv, Crash \/ Start PROVE IInv'
  OBVIOUS
<1> USE DEF IInv
<1>0. Restarted
  BY DEF Crash, Start
<1> USE <1>0 DEF Restarted
<1>1. TypeOK'
  <2>1. conf' \in Version /\ mtx' \in User \cup {Nobody, Saver} /\ using' \subseteq User
    BY DEF TypeOK
  <2>2. changed' \in BOOLEAN /\ autoSaveEnabled' \in BOOLEAN
    OBVIOUS
  <2>3. UNCHANGED <<file, bak, savesAtExit, issued, lastSaved, base>>
    OBVIOUS
  <2>4. wpc' = "none" /\ pc' = "load"
    OBVIOUS
  <2>5. QED
    BY <2>1, <2>2, <2>3, <2>4 DEF TypeOK
<1>2. LockOK' /\ WorkerOK'
  BY DEF LockOK, WorkerOK, Loading, Saving
<1>3. FilesOK' /\ VersionsOK' /\ ExitSavesAll'
  BY DEF FilesOK, VersionsOK, ExitSavesAll
<1>4. QED
  BY <1>1, <1>2, <1>3

\* Every step preserves the invariant.
LEMMA NextInv == IInv /\ [Next]_vars => IInv'
<1> SUFFICES ASSUME IInv, [Next]_vars PROVE IInv'
  OBVIOUS
<1>1. CASE UNCHANGED vars
  BY <1>1 DEF vars, IInv, TypeOK, LockOK, Loading, Saving, WorkerOK, FilesOK, VersionsOK, ExitSavesAll
<1>2. CASE Next
  BY <1>2, LoadInv, AutoSaveInv, ExitInv, UserInv, RestartInv DEF Next
<1>3. QED
  BY <1>1, <1>2

\* A load that ends has found a version it knows: the last one saved or the one
\* the session before it began with (config.cpp load).
LEMMA LoadKnown == IInv /\ [Next]_vars => (pc # "loaded" /\ pc' = "loaded" => conf' \in {lastSaved, base})
<1> SUFFICES ASSUME IInv, [Next]_vars, pc # "loaded", pc' = "loaded"
             PROVE  conf' \in {lastSaved, base}
  OBVIOUS
<1>1. CloseBackup \/ CloseHealed
  BY DEF vars, Next, Load, LoadFile, Heal, OpenBackup, OpenHealed, EnableAutoSave, DisableAutoSave,
         Exit, JoinWorker, OpenAtExit, CloseAtExit, Acquire, Release, AutoSave, WorkerEnds, TryLater,
         TryLock, OpenFile, CloseFile, Unlock, WakeUp, Crash, Start, Restarted
<1>2. CASE CloseBackup
  BY <1>2 DEF CloseBackup, IInv, VersionsOK
<1>3. CASE CloseHealed
  BY <1>3 DEF CloseHealed, IInv, VersionsOK
<1>4. QED
  BY <1>1, <1>2, <1>3

-----------------------------------------------------------------------------
\* The inductive invariant holds in every reachable state, through any crashes.
THEOREM Invariance == Spec => []IInv
<1> HIDE DEF IInv
<1>1. QED
  BY InitInv, NextInv, PTL DEF Spec

\* The settings, the files and the lock keep their types (config.h members).
THEOREM Typing == Spec => []TypeOK
<1>1. IInv => TypeOK
  BY DEF IInv
<1>2. QED
  BY <1>1, Invariance, PTL

\* From the first backup on one of the two files can always be read, however often
\* and wherever the process dies (config.cpp load, save).
THEOREM Readability == Spec => []OneCopyReadable
<1>1. IInv => OneCopyReadable
  BY DEF IInv, OneCopyReadable, FilesOK, TypeOK
<1>2. QED
  BY <1>1, Invariance, PTL

\* An owner that saves after disableAutoSave() leaves its latest settings on disk
\* (config.cpp disableAutoSave, save).
THEOREM ExitSave == Spec => []ExitSavesAll
<1>1. IInv => ExitSavesAll
  BY DEF IInv
<1>2. QED
  BY <1>1, Invariance, PTL

\* A crash costs at most the changes of the session (config.cpp load, save,
\* autoSaveWorker).
THEOREM Recovery == Spec => RecoversKnownVersion
<1>1. IInv /\ [Next]_vars => [pc # "loaded" /\ pc' = "loaded" => conf' \in {lastSaved, base}]_vars
  BY LoadKnown
<1> HIDE DEF IInv
<1>2. QED
  BY <1>1, Invariance, PTL DEF Spec, RecoversKnownVersion

=============
