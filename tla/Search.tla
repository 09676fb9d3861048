-------------------------------- MODULE Search --------------------------------
(***************************************************************************)
(* scanner2: the search for signals.  A worker thread searches, receives,  *)
(* lingers and starts and stops the recorder; the user interface and the   *)
(* workerInfo thread of a server, which follows the remote button, both    *)
(* call start() and stop(), without a common mutex.                        *)
(*                                                                         *)
(* Levels, frequencies and clocks are left out: whether a signal is found, *)
(* lost or back and whether a time has elapsed is a choice.  The recorder  *)
(* is what its interface shows (Recorder has the inside): a command of the *)
(* module interface is one step, since ModuleComManager serialises them.   *)
(***************************************************************************)
EXTENDS Integers

CONSTANT Caller         \* the threads that call start() and stop()

VARIABLES running, state, initial,      \* running, state, initial_find_level
          joinable,                     \* workerThread
          wpc, st, due,                 \* worker(): place, the state it loaded, interval over
          auto,                         \* status_auto_level
          recording, rec,               \* _recording; the recorder: off, or records as the
                                        \* scanner has asked, or on its own account
          cpc,                          \* the callers
          dead,                         \* std::terminate has been called
          raced                       \* history: see Missed, Flip and Overlaps

flags   == <<running, state, initial>>
thread  == <<joinable, dead>>
work    == <<wpc, st, due>>
records == <<recording, rec>>
vars    == <<flags, thread, work, auto, records, cpc, raced>>

Init == /\ running = FALSE /\ state = "STOPPED" /\ initial = TRUE
        /\ joinable = FALSE /\ dead = FALSE
        /\ wpc = "ended" /\ st = "STOPPED" /\ due = FALSE
        /\ auto \in BOOLEAN
        /\ recording = FALSE /\ rec \in {"off", "own"}
        /\ cpc = [c \in Caller |-> "idle"]
        /\ raced = FALSE

-----------------------------------------------------------------------------
(* worker()                                                                *)

\* One step; what a round has loaded is gone at its end.
Work(from, to) == /\ ~dead /\ wpc = from /\ wpc' = to
                  /\ IF to = "loop" THEN st' = "STOPPED" /\ due' = FALSE ELSE UNCHANGED <<st, due>>

CheckRunning == /\ Work("loop", IF running THEN "load" ELSE "ended")
                /\ UNCHANGED <<flags, thread, auto, records, cpc, raced>>

Relevel == auto /\ state \in {"SEARCHING", "TUNING"}

\* Automatic levelling asks for a new calibration while it searches or tunes: when
\* the interval is over, after a change of gain or too many skips.
LoadState == /\ ~dead /\ wpc = "load" /\ wpc' = "switch"
             /\ st' = state /\ due' \in BOOLEAN
             /\ \/ initial' = (initial \/ (Relevel /\ due'))
                \/ Relevel /\ initial' = TRUE
             /\ UNCHANGED <<running, state, thread, auto, records, cpc, raced>>

\* The handlers of the states that need no recorder; initial_find_level overrides.
Switch(from) == st = from /\ (initial => from = "LEVEL_CALIBRATION")

Override == /\ ~dead /\ wpc = "switch" /\ initial /\ st # "LEVEL_CALIBRATION"
            /\ state' = "LEVEL_CALIBRATION" /\ st' = "LEVEL_CALIBRATION"
            /\ UNCHANGED <<running, initial, thread, wpc, due, auto, records, cpc, raced>>

NotStarted == /\ Work("switch", "loop") /\ Switch("STOPPED")
              /\ running' = FALSE
              /\ UNCHANGED <<state, initial, thread, auto, records, cpc, raced>>

\* handleSearching is followed by a second look at the interval.
After(from) == IF from = "SEARCHING" THEN "recheck" ELSE "loop"

MoveTo(from, to) == /\ Work("switch", After(from)) /\ Switch(from)
                    /\ state' = to
                    /\ UNCHANGED <<running, initial, thread, auto, records, cpc, raced>>

Tune        == MoveTo("STARTING", "TUNING")
Tuned       == MoveTo("TUNING", "SEARCHING")
Recenter    == MoveTo("SEARCHING", "TUNING")
SignalLost  == MoveTo("RECEIVING", "LINGERING")
SignalBack  == MoveTo("LINGERING", "RECEIVING")
AkfConfirms == MoveTo("WAITING_FOR_AKF", "RECEIVING")

Calibrate == /\ Work("switch", "loop") /\ Switch("LEVEL_CALIBRATION") /\ ~recording
             /\ initial' = FALSE /\ state' = "SEARCHING"
             /\ UNCHANGED <<running, thread, auto, records, cpc, raced>>

\* Nothing to do in this round, or a calibration that waits for the recording.
Waits(s) == IF s = "LEVEL_CALIBRATION" THEN recording ELSE s \notin {"STOPPED", "STARTING"}

Stay == /\ Work("switch", After(st)) /\ Switch(st) /\ Waits(st)
        /\ UNCHANGED <<flags, thread, auto, records, cpc, raced>>

\* Mutant: the search resumes without stopping the recording.
GiveUpSilently(from) == /\ Work("switch", "resume") /\ Switch(from)
                        /\ UNCHANGED <<flags, thread, auto, records, cpc, raced>>

\* Dwell time, silence or the answer of the AKF: the recording ends.
GiveUp(from) == /\ Work("switch", "unrec") /\ Switch(from)
                /\ UNCHANGED <<flags, thread, auto, records, cpc, raced>>

DwellOver   == GiveUp("RECEIVING")
SilenceOver == GiveUp("LINGERING")
AkfOver     == GiveUp("WAITING_FOR_AKF")

\* handleSearching finds a signal: startRecording().
Found == /\ Work("switch", "lock") /\ Switch("SEARCHING")
         /\ UNCHANGED <<flags, thread, auto, records, cpc, raced>>

\* It returns at once if it is recording; a frequency to skip and a recording that
\* is switched off leave the recorder alone.
NoRecord == /\ Work("lock", "receive")
            /\ state' \in IF recording THEN {state} ELSE {state, "SEARCHING", "WAITING_FOR_AKF"}
            /\ UNCHANGED <<running, initial, thread, auto, records, cpc, raced>>

NewSignal == /\ Work("lock", "start") /\ ~recording
             /\ UNCHANGED <<flags, thread, auto, records, cpc, raced>>

\* CMD_START may fail, and finds nothing to do if the recorder records already: the
\* scanner is not told either.
CmdStart == /\ Work("start", "mark")
            /\ rec' \in IF rec = "own" THEN {"asked"} ELSE {rec, "asked"}
            /\ UNCHANGED <<flags, thread, auto, recording, cpc, raced>>

\* Mutant: _recording is not set.
Unmarked == /\ Work("mark", "receive")
            /\ state' \in {state, "WAITING_FOR_AKF"}
            /\ UNCHANGED <<running, initial, thread, auto, records, cpc, raced>>

Mark == /\ Work("mark", "receive")
        /\ recording' = TRUE
        /\ state' \in {state, "WAITING_FOR_AKF"}
        /\ UNCHANGED <<running, initial, thread, auto, rec, cpc, raced>>

Receive == /\ Work("receive", "recheck")
           /\ state' = IF state = "SEARCHING" THEN "RECEIVING" ELSE state
           /\ UNCHANGED <<running, initial, thread, auto, records, cpc, raced>>

\* The interval as it was found before, with the setting of now.
Recheck == /\ Work("recheck", "loop")
           /\ state' = IF auto /\ due THEN "LEVEL_CALIBRATION" ELSE state
           /\ UNCHANGED <<running, initial, thread, auto, records, cpc, raced>>

\* stopRecording(), then back to the search.
WorkerUnmark == /\ Work("unrec", IF recording THEN "cmdstop" ELSE "resume")
                /\ recording' = FALSE
                /\ UNCHANGED <<flags, thread, auto, rec, cpc, raced>>

WorkerCmdStop == /\ Work("cmdstop", "resume")
                 /\ rec' = "off"
                 /\ UNCHANGED <<flags, thread, auto, recording, cpc, raced>>

\* Mutant: the state is left as it is.
StayThere == /\ Work("resume", "loop")
             /\ UNCHANGED <<flags, thread, auto, records, cpc, raced>>

Resume == /\ Work("resume", "loop")
          /\ state' = "SEARCHING"
          /\ UNCHANGED <<running, initial, thread, auto, records, cpc, raced>>

Worker == \/ CheckRunning \/ LoadState \/ Override
          \/ NotStarted \/ Tune \/ Tuned \/ Recenter \/ SignalLost \/ SignalBack \/ AkfConfirms
          \/ Calibrate \/ Stay \/ DwellOver \/ SilenceOver \/ AkfOver
          \/ Found \/ NoRecord \/ NewSignal \/ CmdStart \/ Mark \/ Receive \/ Recheck
          \/ WorkerUnmark \/ WorkerCmdStop \/ Resume

-----------------------------------------------------------------------------
(* start()                                                                 *)

Goto(c, from, to) == ~dead /\ cpc[c] = from /\ cpc' = [cpc EXCEPT ![c] = to]

Overlaps(c) == \E d \in Caller \ {c} : cpc[d] \notin {"idle", "start", "stop"}
Raced(now) == raced' = (raced \/ now)

EnterStart(c) == /\ Goto(c, "start", IF running THEN "idle" ELSE IF joinable THEN "join" ELSE "prepare")
                 /\ Raced(Overlaps(c))
                 /\ UNCHANGED <<flags, thread, work, auto, records>>

\* Two threads may join the same worker: the second join throws.
Join(c) == /\ Goto(c, "join", "prepare") /\ wpc = "ended"
           /\ joinable' = FALSE /\ dead' = ~joinable
           /\ UNCHANGED <<flags, work, auto, records, raced>>

\* Without a running source start() gives up here.
Prepare(c) == /\ \E pc \in {"idle", "run"} : Goto(c, "prepare", pc)
              /\ initial' = TRUE
              /\ UNCHANGED <<running, state, thread, work, auto, records, raced>>

SetRunning(c) == /\ Goto(c, "run", "spawn")
                 /\ running' = TRUE
                 /\ UNCHANGED <<state, initial, thread, work, auto, records, raced>>

\* Assigning to a joinable std::thread terminates the program.
Spawn(c) == /\ Goto(c, "spawn", "idle")
            /\ state' = "STARTING"
            /\ joinable' = TRUE /\ dead' = joinable
            /\ wpc' = IF joinable THEN wpc ELSE "loop"
            /\ UNCHANGED <<running, initial, st, due, auto, records, raced>>

Start(c) == EnterStart(c) \/ Join(c) \/ Prepare(c) \/ SetRunning(c) \/ Spawn(c)

-----------------------------------------------------------------------------
(* stop(): it does not join the worker.                                    *)

EnterStop(c) == /\ Goto(c, "stop", IF running THEN "halt" ELSE "idle")
                /\ Raced(Overlaps(c))
                /\ UNCHANGED <<flags, thread, work, auto, records>>

Halt(c) == /\ Goto(c, "halt", "clean")
           /\ running' = FALSE
           /\ UNCHANGED <<state, initial, thread, work, auto, records, raced>>

SetStopped(c) == /\ Goto(c, "clean", "missed?")
                 /\ state' = "STOPPED"
                 /\ UNCHANGED <<running, initial, thread, work, auto, records, raced>>

\* The worker has still to come to a CMD_START.
InStart == wpc \in {"lock", "start", "mark"} \/ (wpc = "switch" /\ st = "SEARCHING")

\* Mutant: stop() leaves a recording alone.
LeaveRecording(c) == /\ Goto(c, "missed?", "idle")
                     /\ Raced(~recording /\ InStart)
                     /\ UNCHANGED <<flags, thread, work, auto, records>>

Missed(c) == /\ Goto(c, "missed?", IF recording THEN "unrec" ELSE "idle")
             /\ Raced(~recording /\ InStart)
             /\ UNCHANGED <<flags, thread, work, auto, records>>

Unmark(c) == /\ Goto(c, "unrec", IF recording THEN "cmdstop" ELSE "idle")
             /\ recording' = FALSE
             /\ UNCHANGED <<flags, thread, work, auto, rec, raced>>

CmdStop(c) == /\ Goto(c, "cmdstop", "idle")
              /\ rec' = "off"
              /\ UNCHANGED <<flags, thread, work, auto, recording, raced>>

Stop(c) == EnterStop(c) \/ Halt(c) \/ SetStopped(c) \/ Missed(c) \/ Unmark(c) \/ CmdStop(c)

-----------------------------------------------------------------------------
(* The menu and workerInfo, the setting, and what the recorder does itself. *)

\* The menu shows one button, workerInfo follows the remote one once the grace period
\* after the last command is over: start() if the search is off, else stop().
Ask(c) == /\ Goto(c, "idle", IF running THEN "stop" ELSE "start")
          /\ UNCHANGED <<flags, thread, work, auto, records, raced>>

\* Automatic levelling is switched in the menu; see Recheck.
Flip == /\ ~dead /\ auto' = ~auto
        /\ Raced(due /\ wpc \notin {"loop", "load", "ended"})
        /\ UNCHANGED <<flags, thread, work, records, cpc>>

\* The recorder stops at its maximum duration, by its menu or by a remote command, ...
RecorderEnds == /\ ~dead /\ rec # "off" /\ rec' = "off"
                /\ UNCHANGED <<flags, thread, work, auto, recording, cpc, raced>>

\* ... and by the same it starts: a restart due at the maximum duration is carried out
\* although a CMD_STOP has come in between.
RecorderStarts == /\ ~dead /\ rec = "off" /\ rec' = "own"
                  /\ UNCHANGED <<flags, thread, work, auto, recording, cpc, raced>>

Next == \/ Worker \/ Flip \/ RecorderEnds \/ RecorderStarts
        \/ \E c \in Caller : Ask(c) \/ Start(c) \/ Stop(c)

\* Tuning and the time for a frequency run from a fixed beginning.  A signal that comes
\* back begins the silence again, and the recorder may confirm before its time is over.
Fairness == /\ WF_vars(Worker)
            /\ \A c \in Caller : WF_vars(Start(c)) /\ WF_vars(Stop(c))
            /\ SF_vars(Tuned) /\ SF_vars(DwellOver)
            /\ SF_vars(SilenceOver \/ SignalBack) /\ SF_vars(AkfOver \/ AkfConfirms)

Spec == Init /\ [][Next]_vars /\ Fairness

-----------------------------------------------------------------------------
(* Properties                                                              *)

Quiet == ~running /\ wpc = "ended" /\ \A c \in Caller : cpc[c] = "idle"

\* A search that has been stopped leaves nothing behind that it has asked the recorder
\* for, unless stop() looked for a recording while the worker was about to start it.
NoOrphan == Quiet /\ (recording \/ rec = "asked") => raced

\* What the scanner has asked the recorder for, or has found it recording, the scanner
\* knows of, and will stop, but between the two halves of startRecording() and
\* stopRecording(); what the recorder begins after a stop, on its own account, it does not.
RecorderKnown == rec = "asked" => \/ recording
                                  \/ wpc \in {"mark", "cmdstop"}
                                  \/ \E c \in Caller : cpc[c] = "cmdstop"

Stuck == state = "LEVEL_CALIBRATION" /\ recording

\* A calibration waits for a recording, and the program terminates, only if a start
\* or stop has met another one or a recording about to start, or if automatic
\* levelling was switched on in the middle of a round.
StuckOnlyByRace == Stuck \/ dead => raced

\* A signal holds the search only for a while: a running search comes back to
\* SEARCHING whatever the signal and the recorder do, or is stopped, or is stuck.
SearchGoesOn == running ~> (~running \/ state = "SEARCHING" \/ Stuck \/ dead)

\* start() never assigns to a joinable thread, nor joins one twice: workerInfo calls
\* its way of starting and stopping the safe one for all modes.
NeverTerminates == ~dead
=============================================================================
