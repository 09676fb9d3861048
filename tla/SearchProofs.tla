----------------------------- MODULE SearchProofs -----------------------------
(***************************************************************************)
(* RecorderKnown holds for any set of threads that call start() and stop().*)
(* It needs to know that a worker that is not joinable has ended: only so  *)
(* can start() not replace a worker between CMD_START and its mark.  The   *)
(* invariant Unraced adds what holds as long as nothing has raced, and     *)
(* NoOrphan and StuckOnlyByRace follow from it.                            *)
(***************************************************************************)
EXTENDS Search, TLAPS

Places == {"idle", "start", "join", "prepare", "run", "spawn",
           "stop", "halt", "clean", "missed?", "unrec", "cmdstop"}

PlacesOK     == cpc \in [Caller -> Places]
WorkerOwned  == ~joinable => wpc = "ended"
Known        == PlacesOK /\ WorkerOwned /\ RecorderKnown

\* Initially nothing runs and nothing is recorded.
LEMMA KnownInit == Init => Known
  BY DEF Init, Known, PlacesOK, WorkerOwned, RecorderKnown, Places

\* A step of the worker: only its CMD_START begins to record, and it marks it next.
LEMMA KnownWorker == Known /\ Worker => Known'
<1> SUFFICES ASSUME Known, Worker PROVE Known'
  OBVIOUS
<1> USE DEF Known, PlacesOK, WorkerOwned, RecorderKnown, Work, flags, thread, records, work
<1>1. CASE CheckRunning \/ LoadState \/ Override \/ NotStarted
  BY <1>1 DEF CheckRunning, LoadState, Override, NotStarted
<1>2. CASE Tune \/ Tuned \/ Recenter \/ SignalLost \/ SignalBack \/ AkfConfirms
  BY <1>2 DEF Tune, Tuned, Recenter, SignalLost, SignalBack, AkfConfirms, MoveTo, After
<1>3. CASE Calibrate \/ Stay
  BY <1>3 DEF Calibrate, Stay, After
<1>4. CASE DwellOver \/ SilenceOver \/ AkfOver
  BY <1>4 DEF DwellOver, SilenceOver, AkfOver, GiveUp
<1>5. CASE Found \/ NoRecord \/ NewSignal
  BY <1>5 DEF Found, NoRecord, NewSignal
<1>6. CASE CmdStart
  BY <1>6 DEF CmdStart
<1>7. CASE Mark
  BY <1>7 DEF Mark
<1>8. CASE Receive \/ Recheck
  BY <1>8 DEF Receive, Recheck
<1>9. CASE WorkerUnmark \/ WorkerCmdStop \/ Resume
  BY <1>9 DEF WorkerUnmark, WorkerCmdStop, Resume
<1> QED
  BY <1>1, <1>2, <1>3, <1>4, <1>5, <1>6, <1>7, <1>8, <1>9 DEF Worker

\* A step of a caller: one that takes the mark away goes on to CMD_STOP.
LEMMA KnownCaller == ASSUME NEW c \in Caller, Known, Ask(c) \/ Start(c) \/ Stop(c)
                     PROVE  Known'
<1> USE DEF Known, PlacesOK, WorkerOwned, RecorderKnown, Places, Goto, Raced, flags, thread, records, work
<1>1. CASE Ask(c)
  BY <1>1 DEF Ask
<1>2. CASE EnterStart(c) \/ Prepare(c) \/ SetRunning(c)
  BY <1>2 DEF EnterStart, Prepare, SetRunning
<1>3. CASE Join(c)
  BY <1>3 DEF Join
<1>4. CASE Spawn(c)
  BY <1>4 DEF Spawn
<1>5. CASE EnterStop(c) \/ Halt(c) \/ SetStopped(c) \/ Missed(c)
  BY <1>5 DEF EnterStop, Halt, SetStopped, Missed
<1>6. CASE Unmark(c)
  BY <1>6 DEF Unmark
<1>7. CASE CmdStop(c)
  BY <1>7 DEF CmdStop
<1> QED
  BY <1>1, <1>2, <1>3, <1>4, <1>5, <1>6, <1>7 DEF Start, Stop

LEMMA KnownNext == Known /\ [Next]_vars => Known'
<1> SUFFICES ASSUME Known, [Next]_vars PROVE Known'
  OBVIOUS
<1>1. CASE Worker
  BY <1>1, KnownWorker
<1>2. CASE \E c \in Caller : Ask(c) \/ Start(c) \/ Stop(c)
  BY <1>2, KnownCaller
<1>3. CASE Flip \/ RecorderEnds \/ RecorderStarts
  BY <1>3 DEF Flip, RecorderEnds, RecorderStarts, Known, PlacesOK, WorkerOwned, RecorderKnown, flags, thread, work, records, Raced
<1>4. CASE UNCHANGED vars
  BY <1>4 DEF vars, Known, PlacesOK, WorkerOwned, RecorderKnown, flags, thread, work, records
<1> QED
  BY <1>1, <1>2, <1>3, <1>4 DEF Next

-----------------------------------------------------------------------------
(* As long as nothing has raced, one caller at a time is inside start() or *)
(* stop(), the worker that stop() leaves behind starts no recording, and a *)
(* worker that records neither searches nor waits for a calibration.       *)

Within == {"join", "prepare", "run", "spawn", "halt", "clean", "missed?", "unrec", "cmdstop"}

Alone  == \A c, d \in Caller : cpc[c] \in Within /\ cpc[d] \in Within => c = d
CallOK == \A c \in Caller :
    /\ cpc[c] \in {"join", "prepare", "run", "clean", "missed?", "unrec", "cmdstop"} => ~running
    /\ cpc[c] \in {"prepare", "run", "spawn"} => ~joinable
    /\ cpc[c] = "join" => joinable
    /\ cpc[c] = "spawn" => ~recording
Cleaned == ~running /\ \A c \in Caller : cpc[c] # "clean"
Looked  == Cleaned /\ \A c \in Caller : cpc[c] # "missed?"
Undone  == Looked /\ \A c \in Caller : cpc[c] # "unrec"
StopOK  == /\ Cleaned /\ wpc = "load" => state = "STOPPED"
           /\ Looked => ~InStart
           /\ Undone => ~recording
RunOK   == running /\ wpc # "ended" => state # "STOPPED" /\ (wpc = "switch" => st # "STOPPED")

Receiving == {"RECEIVING", "LINGERING", "WAITING_FOR_AKF", "STOPPED"}
RecOK  == recording => /\ ~initial /\ wpc \notin {"lock", "start", "mark", "cmdstop", "resume"}
                       /\ state \in Receiving \/ (wpc = "receive" /\ state = "SEARCHING")
                       /\ wpc = "switch" => st \in Receiving
FindOK == /\ wpc \in {"lock", "start", "mark"} => state \in {"SEARCHING", "STOPPED"} /\ ~initial
          /\ wpc = "switch" => state \in {st, "STOPPED"}
DueOK  == /\ wpc = "switch" /\ st \in {"SEARCHING", "TUNING"} /\ auto /\ due => initial
          /\ wpc \in {"lock", "start", "mark", "receive", "recheck"} => ~(auto /\ due)

Calls   == Alone /\ CallOK
Rounds  == StopOK /\ RunOK /\ RecOK /\ FindOK /\ DueOK
Unraced == Known /\ (~raced => ~dead /\ Calls /\ Rounds)

LEMMA UnracedInit == Init => Unraced
<1> SUFFICES ASSUME Init PROVE Unraced
  OBVIOUS
<1>1. Known
  BY KnownInit
<1>2. Alone /\ CallOK
  BY DEF Init, Alone, CallOK, Within
<1>3. Rounds
  BY DEF Init, Rounds, StopOK, Cleaned, Looked, Undone, RunOK, RecOK, FindOK, DueOK, InStart
<1> QED
  BY <1>1, <1>2, <1>3 DEF Init, Unraced, Calls

\* The worker changes what the callers rely on only when it finds itself stopped.
LEMMA CallsWorker == ASSUME ~dead, Calls, Rounds, WorkerOwned, Worker PROVE Calls' /\ dead' = dead
<1> USE DEF Work, flags, thread, work, records
<1>1. cpc' = cpc /\ joinable' = joinable /\ dead' = dead /\ (running' = running \/ NotStarted)
  BY DEF Worker, CheckRunning, LoadState, Override, NotStarted, Tune, Tuned, Recenter, SignalLost, SignalBack,
         AkfConfirms, MoveTo, Calibrate, Stay, DwellOver, SilenceOver, AkfOver, GiveUp, Found, NoRecord, NewSignal,
         CmdStart, Mark, Receive, Recheck, WorkerUnmark, WorkerCmdStop, Resume
<1>2. running' => running
  BY <1>1 DEF NotStarted
<1>3. recording' => recording \/ wpc = "mark"
  BY DEF Worker, CheckRunning, LoadState, Override, NotStarted, Tune, Tuned, Recenter, SignalLost, SignalBack,
         AkfConfirms, MoveTo, Calibrate, Stay, DwellOver, SilenceOver, AkfOver, GiveUp, Found, NoRecord, NewSignal,
         CmdStart, Mark, Receive, Recheck, WorkerUnmark, WorkerCmdStop, Resume
<1> QED
  BY <1>1, <1>2, <1>3 DEF Calls, Alone, CallOK, WorkerOwned

LEMMA RoundsWorker == ASSUME ~dead, Calls, Rounds, Worker PROVE Rounds'
<1> USE DEF Rounds, StopOK, Cleaned, Looked, Undone, RunOK, RecOK, Receiving, FindOK, DueOK, InStart,
            Work, After, flags, thread, work, records
<1>1. CASE CheckRunning
  BY <1>1 DEF CheckRunning
<1>2. CASE LoadState
  BY <1>2 DEF LoadState, Relevel
<1>3. CASE Override \/ NotStarted
  BY <1>3 DEF Override, NotStarted, Switch
<1>4. CASE Tune \/ Tuned \/ Recenter
  BY <1>4 DEF Tune, Tuned, Recenter, MoveTo, Switch
<1>5. CASE SignalLost \/ SignalBack \/ AkfConfirms
  BY <1>5 DEF SignalLost, SignalBack, AkfConfirms, MoveTo, Switch
<1>6. CASE Calibrate
  BY <1>6 DEF Calibrate, Switch
<1>7. CASE Stay
  BY <1>7 DEF Stay, Switch, Waits
<1>8. CASE DwellOver \/ SilenceOver \/ AkfOver
  BY <1>8 DEF DwellOver, SilenceOver, AkfOver, GiveUp, Switch
<1>9. CASE Found
  BY <1>9 DEF Found, Switch
<1>10. CASE NoRecord
  <2>1. wpc = "lock" /\ wpc' = "receive" /\ st' = st /\ due' = due /\ ~recording
    BY <1>10 DEF NoRecord
  <2>2. state' \in {state, "SEARCHING", "WAITING_FOR_AKF"}
    BY <1>10, <2>1 DEF NoRecord
  <2>3. RecOK' /\ FindOK' /\ DueOK'
    BY <1>10, <2>1, <2>2 DEF NoRecord
  <2>4. StopOK' /\ RunOK'
    BY <1>10, <2>1, <2>2 DEF NoRecord
  <2> QED
    BY <2>3, <2>4
<1>11. CASE NewSignal
  BY <1>11 DEF NewSignal
<1>15. CASE CmdStart
  BY <1>15 DEF CmdStart
<1>12. CASE Mark
  <2>1. wpc = "mark" /\ wpc' = "receive" /\ st' = st /\ due' = due /\ ~Looked
    BY <1>12 DEF Mark
  <2>2. state' \in {"SEARCHING", "STOPPED", "WAITING_FOR_AKF"} /\ (running => state' # "STOPPED")
    BY <1>12, <2>1 DEF Mark
  <2>3. RecOK' /\ FindOK' /\ DueOK'
    BY <1>12, <2>1, <2>2 DEF Mark
  <2>4. StopOK' /\ RunOK'
    BY <1>12, <2>1, <2>2 DEF Mark
  <2> QED
    BY <2>3, <2>4
<1>13. CASE Receive \/ Recheck
  BY <1>13 DEF Receive, Recheck
<1>14. CASE WorkerUnmark \/ WorkerCmdStop \/ Resume
  BY <1>14 DEF WorkerUnmark, WorkerCmdStop, Resume
<1> QED
  BY <1>1, <1>2, <1>3, <1>4, <1>5, <1>6, <1>7, <1>8, <1>9, <1>10, <1>11, <1>12, <1>13, <1>14, <1>15 DEF Worker

\* A caller that has not raced enters start() or stop() alone.
LEMMA CallsCaller == ASSUME NEW c \in Caller, PlacesOK, WorkerOwned, ~dead, Calls, Rounds, ~raced',
                            Ask(c) \/ Start(c) \/ Stop(c)
                     PROVE  Calls' /\ ~dead' /\ ~raced
<1> USE DEF PlacesOK, Places, WorkerOwned, Calls, Alone, CallOK, Within, Goto, Raced, flags, thread, work, records
<1>1. CASE Ask(c)
  BY <1>1 DEF Ask
<1>2. CASE EnterStart(c)
  <2>1. \A d \in Caller \ {c} : cpc[d] \notin Within
    BY <1>2 DEF EnterStart, Overlaps
  <2>2. Alone'
    BY <1>2, <2>1 DEF EnterStart
  <2>3. CallOK'
    BY <1>2, <2>1 DEF EnterStart
  <2> QED
    BY <1>2, <2>2, <2>3 DEF EnterStart
<1>3. CASE Join(c)
  BY <1>3 DEF Join
<1>4. CASE Prepare(c)
  BY <1>4 DEF Prepare
<1>5. CASE SetRunning(c)
  BY <1>5 DEF SetRunning, Rounds, StopOK, Cleaned, Looked, Undone
<1>6. CASE Spawn(c)
  BY <1>6 DEF Spawn
<1>7. CASE EnterStop(c)
  <2>1. \A d \in Caller \ {c} : cpc[d] \notin Within
    BY <1>7 DEF EnterStop, Overlaps
  <2>2. Alone'
    BY <1>7, <2>1 DEF EnterStop
  <2>3. CallOK'
    BY <1>7, <2>1 DEF EnterStop
  <2> QED
    BY <1>7, <2>2, <2>3 DEF EnterStop
<1>8. CASE Halt(c) \/ SetStopped(c)
  BY <1>8 DEF Halt, SetStopped
<1>9. CASE Missed(c) \/ Unmark(c) \/ CmdStop(c)
  <2>1. CASE Missed(c)
    BY <2>1 DEF Missed
  <2>2. CASE Unmark(c)
    BY <2>2 DEF Unmark
  <2>3. CASE CmdStop(c)
    BY <2>3 DEF CmdStop
  <2> QED
    BY <1>9, <2>1, <2>2, <2>3
<1> QED
  BY <1>1, <1>2, <1>3, <1>4, <1>5, <1>6, <1>7, <1>8, <1>9 DEF Start, Stop

LEMMA RoundsCaller == ASSUME NEW c \in Caller, PlacesOK, WorkerOwned, ~dead, Calls, Rounds, ~raced',
                             Ask(c) \/ Start(c) \/ Stop(c)
                      PROVE  Rounds'
<1> USE DEF PlacesOK, Places, WorkerOwned, Calls, Alone, CallOK, Within, Goto, Raced, flags, thread, work, records,
            Rounds, StopOK, Cleaned, Looked, Undone, RunOK, RecOK, Receiving, FindOK, DueOK, InStart
<1>1. CASE Ask(c)
  BY <1>1 DEF Ask
<1>2. CASE EnterStart(c) \/ Join(c)
  BY <1>2 DEF EnterStart, Join
<1>3. CASE Prepare(c)
  BY <1>3 DEF Prepare
<1>4. CASE SetRunning(c)
  BY <1>4 DEF SetRunning
<1>5. CASE Spawn(c)
  BY <1>5 DEF Spawn
<1>6. CASE EnterStop(c) \/ Halt(c)
  BY <1>6 DEF EnterStop, Halt
<1>7. CASE SetStopped(c)
  BY <1>7 DEF SetStopped
<1>8. CASE Missed(c)
  BY <1>8 DEF Missed
<1>9. CASE Unmark(c)
  BY <1>9 DEF Unmark
<1>10. CASE CmdStop(c)
  BY <1>10 DEF CmdStop
<1> QED
  BY <1>1, <1>2, <1>3, <1>4, <1>5, <1>6, <1>7, <1>8, <1>9, <1>10 DEF Start, Stop

LEMMA UnracedNext == Unraced /\ [Next]_vars => Unraced'
<1> SUFFICES ASSUME Unraced, [Next]_vars PROVE Unraced'
  OBVIOUS
<1>1. Known /\ Known' /\ PlacesOK /\ WorkerOwned
  BY KnownNext DEF Unraced, Known
<1>2. ASSUME ~raced' PROVE ~dead' /\ Calls' /\ Rounds'
  <2>1. CASE Worker
    <3>1. raced' = raced
      BY <2>1 DEF Worker, CheckRunning, LoadState, Override, NotStarted, Tune, Tuned, Recenter, SignalLost,
         SignalBack, AkfConfirms, MoveTo, Calibrate, Stay, DwellOver, SilenceOver, AkfOver, GiveUp, Found, NoRecord,
         NewSignal, CmdStart, Mark, Receive, Recheck, WorkerUnmark, WorkerCmdStop, Resume
    <3> QED
      BY <1>1, <1>2, <2>1, <3>1, CallsWorker, RoundsWorker DEF Unraced
  <2>2. ASSUME NEW c \in Caller, Ask(c) \/ Start(c) \/ Stop(c)
        PROVE  ~dead' /\ Calls' /\ Rounds'
    <3>1. ~raced
      BY <1>2, <2>2 DEF Ask, Start, Stop, EnterStart, Join, Prepare, SetRunning, Spawn, EnterStop, Halt, SetStopped,
         Missed, Unmark, CmdStop, Raced
    <3> QED
      BY <1>1, <1>2, <2>2, <3>1, CallsCaller, RoundsCaller DEF Unraced
  <2>3. CASE Flip
    <3>1. ~raced /\ (due => wpc \in {"loop", "load", "ended"})
      BY <1>2, <2>3 DEF Flip, Raced
    <3> QED
      BY <2>3, <3>1 DEF Flip, Unraced, Calls, Alone, CallOK, Rounds, StopOK, Cleaned, Looked, Undone, RunOK, RecOK,
         Receiving, FindOK, DueOK, InStart, flags, thread, work, records
  <2>4. CASE RecorderEnds \/ RecorderStarts \/ UNCHANGED vars
    BY <1>2, <2>4 DEF RecorderEnds, RecorderStarts, vars, Unraced, Calls, Alone, CallOK, Rounds, StopOK, Cleaned, Looked, Undone,
         RunOK, RecOK, Receiving, FindOK, DueOK, InStart, flags, thread, work, records
  <2> QED
    BY <2>1, <2>2, <2>3, <2>4 DEF Next
<1> QED
  BY <1>1, <1>2 DEF Unraced

-----------------------------------------------------------------------------
(* The theorems.                                                           *)

\* What the scanner has asked the recorder for it knows of, outside the two halves of
\* startRecording() and stopRecording(), for any number of callers, whatever the
\* recorder begins and ends on its own account.
THEOREM AlwaysKnown == Spec => []RecorderKnown
<1>1. Known => RecorderKnown
  BY DEF Known
<1> QED
  BY KnownInit, KnownNext, <1>1, PTL DEF Spec

\* A search that is stopped leaves nothing behind that it has asked the recorder for,
\* nor its mark, for any number of callers, unless a start or stop has met another one or a recording about to start.
THEOREM LeavesNothing == Spec => []NoOrphan
<1>1. Unraced => NoOrphan
  BY DEF Unraced, Known, RecorderKnown, Rounds, StopOK, Cleaned, Looked, Undone, NoOrphan, Quiet
<1> QED
  BY UnracedInit, UnracedNext, <1>1, PTL DEF Spec

\* Without such a meeting the search neither waits for a calibration that its own
\* recording holds up nor terminates the program.
THEOREM StuckNeedsRace == Spec => []StuckOnlyByRace
<1>1. Unraced => StuckOnlyByRace
  BY DEF Unraced, Rounds, RecOK, Receiving, StuckOnlyByRace, Stuck
<1> QED
  BY UnracedInit, UnracedNext, <1>1, PTL DEF Spec
=============================================================================
