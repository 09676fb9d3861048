---------------------------- MODULE ConfigManager ----------------------------
(***************************************************************************)
(* ConfigManager: settings kept in memory under a mutex, saved by a worker *)
(* that polls a flag, and read back by load(), which heals a damaged file  *)
(* from its .bak copy.  save() and load() write a file in place: opening   *)
(* it truncates it, and a crash before it is closed leaves it unreadable.  *)
(*                                                                         *)
(* A setting is a version number.  Threads that use the settings acquire   *)
(* the mutex and release it, with a modification or without; the main      *)
(* thread loads, enables and disables the auto-save and, in the modules'   *)
(* _END_ but not in the core, saves once more.                             *)
(***************************************************************************)
EXTENDS Integers

CONSTANTS User,         \* threads that use the settings
          MaxVersion    \* bound: modifications made

Default == 0            \* the defaults given to load()
Torn    == -1           \* a file that was opened for writing and not closed
Absent  == -2
Nobody  == "nobody"     \* who holds mtx
Saver   == "saver"

ASSUME ConfigAssumption == MaxVersion \in Nat /\ Nobody \notin User /\ Saver \notin User

VARIABLES file, bak,            \* on disk: the settings at path and at path.bak
          conf, changed,        \* in memory, under mtx
          mtx,
          autoSaveEnabled,
          using, wpc, pc,       \* users that hold mtx, auto-save worker, main thread
          savesAtExit,          \* whether the owner calls save() after disableAutoSave()
          issued,               \* history: the latest version made
          lastSaved, base       \* history: last version saved, version the last load() ended with

disk    == <<file, bak>>
memory  == <<conf, changed>>
history == <<issued, lastSaved, base>>
vars    == <<disk, memory, mtx, autoSaveEnabled, using, wpc, pc, savesAtExit, history>>

Readable(f) == f \notin {Torn, Absent}

Init == /\ file = Absent /\ bak = Absent
        /\ conf = Default /\ changed = FALSE
        /\ mtx = Nobody /\ using = {}
        /\ autoSaveEnabled = FALSE /\ wpc = "none" /\ pc = "load"
        /\ savesAtExit \in BOOLEAN
        /\ issued = Default /\ lastSaved = Default /\ base = Default

-----------------------------------------------------------------------------
(* load(): the settings of the file, or of the backup, or the defaults.    *)

LoadFile == /\ pc = "load" /\ Readable(file)
            /\ conf' = file
            /\ pc' = "backup"
            /\ UNCHANGED <<disk, changed, mtx, autoSaveEnabled, using, wpc, savesAtExit, history>>

\* Mutant: a damaged file is replaced by the defaults at once.
HealWithDefaults == /\ pc = "load" /\ ~Readable(file)
                    /\ conf' = Default
                    /\ pc' = "heal"
                    /\ UNCHANGED <<disk, changed, mtx, autoSaveEnabled, using, wpc, savesAtExit, history>>

\* Mutant: a new backup is written before the damaged file.
HealBackupFirst == /\ pc = "load" /\ ~Readable(file)
                   /\ conf' = IF file = Torn /\ Readable(bak) THEN bak ELSE Default
                   /\ pc' = "backup"
                   /\ UNCHANGED <<disk, changed, mtx, autoSaveEnabled, using, wpc, savesAtExit, history>>

Heal == /\ pc = "load" /\ ~Readable(file)
        /\ conf' = IF file = Torn /\ Readable(bak) THEN bak ELSE Default
        /\ pc' = "heal"
        /\ UNCHANGED <<disk, changed, mtx, autoSaveEnabled, using, wpc, savesAtExit, history>>

OpenBackup == /\ pc = "backup"
              /\ bak' = Torn
              /\ pc' = "backupOpen"
              /\ UNCHANGED <<file, memory, mtx, autoSaveEnabled, using, wpc, savesAtExit, history>>

CloseBackup == /\ pc = "backupOpen"
               /\ bak' = conf
               /\ base' = conf
               /\ pc' = "loaded"
               /\ UNCHANGED <<file, memory, mtx, autoSaveEnabled, using, wpc, savesAtExit, issued, lastSaved>>

OpenHealed == /\ pc = "heal"
              /\ file' = Torn
              /\ pc' = "healOpen"
              /\ UNCHANGED <<bak, memory, mtx, autoSaveEnabled, using, wpc, savesAtExit, history>>

CloseHealed == /\ pc = "healOpen"
               /\ file' = conf
               /\ lastSaved' = conf /\ base' = conf
               /\ pc' = "loaded"
               /\ UNCHANGED <<bak, memory, mtx, autoSaveEnabled, using, wpc, savesAtExit, issued>>

Load == LoadFile \/ Heal \/ OpenBackup \/ CloseBackup \/ OpenHealed \/ CloseHealed

-----------------------------------------------------------------------------
(* enableAutoSave(), disableAutoSave(), the save() after it                *)

EnableAutoSave == /\ pc = "loaded"
                  /\ autoSaveEnabled' = TRUE
                  /\ wpc' = "loop"
                  /\ pc' = "running"
                  /\ UNCHANGED <<disk, memory, mtx, using, savesAtExit, history>>

DisableAutoSave == /\ pc = "running"
                   /\ autoSaveEnabled' = FALSE
                   /\ pc' = "join"
                   /\ UNCHANGED <<disk, memory, mtx, using, wpc, savesAtExit, history>>

JoinWorker == /\ pc = "join" /\ wpc = "ended"
              /\ wpc' = "none"
              /\ pc' = IF savesAtExit THEN "save" ELSE "off"
              /\ UNCHANGED <<disk, memory, mtx, autoSaveEnabled, using, savesAtExit, history>>

\* Mutant: the last save does not wait for the lock.
OpenUnlocked == /\ pc = "save"
                /\ file' = Torn
                /\ pc' = "saveOpen"
                /\ UNCHANGED <<bak, memory, mtx, autoSaveEnabled, using, wpc, savesAtExit, history>>

OpenAtExit == /\ pc = "save" /\ mtx = Nobody
              /\ mtx' = Saver
              /\ file' = Torn
              /\ pc' = "saveOpen"
              /\ UNCHANGED <<bak, memory, autoSaveEnabled, using, wpc, savesAtExit, history>>

CloseAtExit == /\ pc = "saveOpen"
               /\ file' = conf /\ lastSaved' = conf
               /\ mtx' = Nobody
               /\ pc' = "off"
               /\ UNCHANGED <<bak, memory, autoSaveEnabled, using, wpc, savesAtExit, issued, base>>

Exit == JoinWorker \/ OpenAtExit \/ CloseAtExit

-----------------------------------------------------------------------------
(* acquire() and release(modified)                                         *)

Acquire(u) == /\ pc \in {"running", "join", "save"} /\ mtx = Nobody
              /\ mtx' = u
              /\ using' = using \cup {u}
              /\ UNCHANGED <<disk, memory, autoSaveEnabled, wpc, pc, savesAtExit, history>>

Release(u, modified) ==
    /\ u \in using
    /\ IF modified THEN /\ issued < MaxVersion
                        /\ issued' = issued + 1 /\ conf' = issued + 1
                        /\ changed' = TRUE
                   ELSE UNCHANGED <<issued, memory>>
    /\ mtx' = Nobody
    /\ using' = using \ {u}
    /\ UNCHANGED <<disk, autoSaveEnabled, wpc, pc, savesAtExit, lastSaved, base>>

-----------------------------------------------------------------------------
(* autoSaveWorker()                                                        *)

WorkerEnds == /\ wpc = "loop" /\ ~autoSaveEnabled
              /\ wpc' = "ended"
              /\ UNCHANGED <<disk, memory, mtx, autoSaveEnabled, using, pc, savesAtExit, history>>

\* try_lock failed: sleep a second, then look again.
TryLater == /\ wpc = "loop" /\ autoSaveEnabled /\ mtx # Nobody
            /\ wpc' = "sleep"
            /\ UNCHANGED <<disk, memory, mtx, autoSaveEnabled, using, pc, savesAtExit, history>>

TryLock == /\ wpc = "loop" /\ autoSaveEnabled /\ mtx = Nobody
           /\ mtx' = Saver
           /\ changed' = FALSE
           /\ wpc' = IF changed THEN "open" ELSE "unlock"
           /\ UNCHANGED <<disk, conf, autoSaveEnabled, using, pc, savesAtExit, history>>

OpenFile == /\ wpc = "open"
            /\ file' = Torn
            /\ wpc' = "close"
            /\ UNCHANGED <<bak, memory, mtx, autoSaveEnabled, using, pc, savesAtExit, history>>

CloseFile == /\ wpc = "close"
             /\ file' = conf /\ lastSaved' = conf
             /\ wpc' = "unlock"
             /\ UNCHANGED <<bak, memory, mtx, autoSaveEnabled, using, pc, savesAtExit, issued, base>>

Unlock == /\ wpc = "unlock"
          /\ mtx' = Nobody
          /\ wpc' = "sleep"
          /\ UNCHANGED <<disk, memory, autoSaveEnabled, using, pc, savesAtExit, history>>

\* Mutant: the flag is cleared after the lock was given back.
ClearLate == /\ wpc = "sleep"
             /\ wpc' = "loop"
             /\ changed' = FALSE
             /\ UNCHANGED <<disk, conf, mtx, autoSaveEnabled, using, pc, savesAtExit, history>>

\* The second has passed, or termFlag was set.
WakeUp == /\ wpc = "sleep"
          /\ wpc' = "loop"
          /\ UNCHANGED <<disk, memory, mtx, autoSaveEnabled, using, pc, savesAtExit, history>>

AutoSave == WorkerEnds \/ TryLater \/ TryLock \/ OpenFile \/ CloseFile \/ Unlock \/ WakeUp

-----------------------------------------------------------------------------
(* The process dies, at any moment, or is started again after it ended.    *)

Restarted == /\ conf' = Default /\ changed' = FALSE
             /\ mtx' = Nobody /\ using' = {}
             /\ autoSaveEnabled' = FALSE /\ wpc' = "none" /\ pc' = "load"
             /\ UNCHANGED <<disk, savesAtExit, history>>

Crash == pc # "off" /\ Restarted
Start == pc = "off" /\ Restarted

Next == \/ Load \/ EnableAutoSave \/ DisableAutoSave \/ Exit
        \/ \E u \in User : Acquire(u) \/ (\E modified \in BOOLEAN : Release(u, modified))
        \/ AutoSave
        \/ Crash \/ Start

\* The threads run when they can, and a user that holds the lock releases it.
Fairness == /\ WF_vars(Load) /\ WF_vars(Exit) /\ WF_vars(AutoSave)
            /\ \A u \in User : WF_vars(Release(u, FALSE))

Spec == Init /\ [][Next]_vars /\ Fairness

-----------------------------------------------------------------------------
(* Properties.                                                             *)

Version == Default..MaxVersion
TypeOK ==
    /\ file \in Version \cup {Torn, Absent} /\ bak \in Version \cup {Torn, Absent}
    /\ conf \in Version /\ changed \in BOOLEAN
    /\ using \subseteq User /\ mtx \in User \cup {Nobody, Saver}
    /\ autoSaveEnabled \in BOOLEAN /\ savesAtExit \in BOOLEAN
    /\ wpc \in {"none", "loop", "open", "close", "unlock", "sleep", "ended"}
    /\ pc \in {"load", "backup", "backupOpen", "heal", "healOpen", "loaded", "running", "join", "save", "saveOpen", "off"}
    /\ issued \in Version /\ lastSaved \in Version /\ base \in Version

\* Once there is a backup, a crash at any moment, even during the healing or
\* again and again, leaves one of the two files readable (config.cpp load, save).
OneCopyReadable == bak # Absent => Readable(file) \/ Readable(bak)

\* After a crash load() ends either with the last version that was saved or with
\* the one the session started from: a crash costs at most the session's changes
\* (config.cpp load, save, autoSaveWorker).
RecoversKnownVersion ==
    [][pc # "loaded" /\ pc' = "loaded" => conf' \in {lastSaved, base}]_vars

\* What a user modified reaches the file while the program goes on, if the users
\* leave the lock alone in the end (the worker only tries it, and may find it
\* taken every time): no change is lost between the worker's clearing of the flag
\* and its save (config.cpp release, autoSaveWorker).
ChangesAreSaved == <>[](mtx \notin User) => \A n \in Version :
    (pc = "running" /\ conf = n) ~> (pc # "running" \/ lastSaved >= n \/ conf # n)

\* An owner that saves after disableAutoSave() leaves its latest settings on disk,
\* whatever a user was doing at that moment (config.cpp disableAutoSave, save).
ExitSavesAll == (pc = "off" /\ savesAtExit) => file = conf

=============================================================================
