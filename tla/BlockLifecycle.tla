--------------------------- MODULE BlockLifecycle ---------------------------
(***************************************************************************)
(* dsp::block with an input and an output stream (a dsp::Processor): one   *)
(* worker thread, started and stopped by any number of control threads.    *)
(* start() and stop() hold the recursive ctrlMtx; a setter of the block    *)
(* holds it around tempStop() ... tempStart() and may call other setters   *)
(* of the same block inside that bracket (PolyphaseResampler::setRatio     *)
(* calls reset()).  IQFrontEnd brackets calls of such setters with         *)
(* tempStop() ... tempStart() once more, and holds no mutex there.         *)
(*                                                                         *)
(* The two streams are the one-slot channels of StreamChannel: the         *)
(* neighbours fill the input and empty the output whenever they like, or   *)
(* never.                                                                  *)
(***************************************************************************)
EXTENDS Naturals

CONSTANTS Caller,       \* the control threads
          MaxNest,      \* how deep setters call setters
          Nobody        \* ctrlMtx is free

ASSUME LifecycleAssumption == Nobody \notin Caller /\ MaxNest \in Nat \ {0}

VARIABLES running, tempStopped, tempStopDepth,
          worker,       \* workerThread: "none" is not joinable, "ended" is to be joined
          readerStop, writerStop,
          inFull,       \* the input stream has a frame for the worker
          outFull,      \* the output stream's last frame has not been flushed
          owner,        \* who holds ctrlMtx
          nest,         \* brackets its setters have open
          open,         \* the threads in a bracket without the mutex
          pc,           \* where each control thread is
          terminated,   \* std::terminate was called
          crossed       \* history: a call has met another thread's bracket without the mutex

block   == <<running, tempStopped, tempStopDepth>>
stops   == <<readerStop, writerStop>>
streams == <<inFull, outFull>>
control == <<owner, nest, open, pc>>
vars    == <<block, worker, stops, streams, control, terminated, crossed>>

Alive == worker \in {"read", "process", "swap"}

Init == /\ running = FALSE /\ tempStopped = FALSE /\ tempStopDepth = 0
        /\ worker = "none"
        /\ readerStop = FALSE /\ writerStop = FALSE
        /\ inFull = FALSE /\ outFull = FALSE
        /\ owner = Nobody /\ nest = 0 /\ open = {}
        /\ pc = [c \in Caller |-> "idle"]
        /\ terminated = FALSE /\ crossed = FALSE

Goto(c, l) == pc' = [pc EXCEPT ![c] = l]
Acquire(c) == owner = Nobody /\ owner' = c
Return(c)  == owner' = Nobody /\ Goto(c, IF c \in open THEN "open" ELSE "idle")

\* A thread that begins finds another one in a call or a bracket: if it has the mutex,
\* the other one does without.
Meet(c) == crossed' = (crossed \/ \E d \in Caller \ {c} : pc[d] # "idle")

\* doStart() assigns a new std::thread to workerThread; assigning to a joinable
\* one calls std::terminate.
DoStart == IF worker = "none"
           THEN worker' = "read" /\ UNCHANGED terminated
           ELSE terminated' = TRUE /\ UNCHANGED worker

-----------------------------------------------------------------------------
(* The worker: while (run() >= 0).                                         *)

Read == /\ worker = "read"
        /\ \/ readerStop /\ worker' = "ended"
           \/ inFull /\ ~readerStop /\ worker' = "process"
        /\ UNCHANGED <<block, stops, streams, control, terminated, crossed>>

ProcessAndFlush == /\ worker = "process"
                   /\ worker' = "swap"
                   /\ inFull' = FALSE
                   /\ UNCHANGED <<block, stops, outFull, control, terminated, crossed>>

Swap == /\ worker = "swap"
        /\ \/ writerStop /\ worker' = "ended" /\ UNCHANGED outFull
           \/ ~outFull /\ ~writerStop /\ worker' = "read" /\ outFull' = TRUE
        /\ UNCHANGED <<block, stops, inFull, control, terminated, crossed>>

Work == Read \/ ProcessAndFlush \/ Swap

\* The blocks at the other ends of the two streams.
Neighbours == /\ \/ ~inFull /\ inFull' = TRUE /\ UNCHANGED outFull
                 \/ outFull /\ outFull' = FALSE /\ UNCHANGED inFull
              /\ UNCHANGED <<block, worker, stops, control, terminated, crossed>>

-----------------------------------------------------------------------------
(* Control.                                                                *)

\* Mutant: start() does not look whether the block runs already.
StartAgain(c) == /\ pc[c] = "idle" /\ Acquire(c) /\ Meet(c)
                 /\ running' = TRUE
                 /\ Goto(c, "launch")
                 /\ UNCHANGED <<tempStopped, tempStopDepth, worker, stops, streams, nest, open, terminated>>

\* start(): nothing to do when running.
Start(c) == /\ pc[c] = "idle" /\ Acquire(c) /\ Meet(c) /\ ~running
            /\ running' = TRUE
            /\ Goto(c, "launch")
            /\ UNCHANGED <<tempStopped, tempStopDepth, worker, stops, streams, nest, open, terminated>>

Launch(c) == /\ pc[c] = "launch"
             /\ DoStart
             /\ Return(c)
             /\ UNCHANGED <<block, stops, streams, nest, open, crossed>>

\* stop(): nothing to do when not running.
Stop(c) == /\ pc[c] = "idle" /\ Acquire(c) /\ Meet(c) /\ running
           /\ Goto(c, "stopInputs")
           /\ UNCHANGED <<block, worker, stops, streams, nest, open, terminated>>

\* tempStop(): only the outermost one stops a worker that runs.
TempStop(c, next) == /\ tempStopDepth' = tempStopDepth + 1
                     /\ Goto(c, IF tempStopDepth = 0 /\ running /\ ~tempStopped
                                THEN "stopInputs" ELSE next)
                     /\ UNCHANGED <<running, tempStopped, worker, stops, streams, terminated>>

\* A setter; it may be called inside a bracket without the mutex.
Enter(c) == /\ pc[c] \in {"idle", "open"} /\ Acquire(c) /\ Meet(c)
            /\ TempStop(c, "change")
            /\ nest' = 1 /\ UNCHANGED open

\* A setter called from inside a setter: ctrlMtx is recursive.
Nest(c) == /\ pc[c] = "change" /\ nest < MaxNest
           /\ TempStop(c, "change")
           /\ nest' = nest + 1 /\ UNCHANGED <<owner, open, crossed>>

\* tempStop() called from IQFrontEnd.
Open(c) == /\ pc[c] = "idle" /\ Meet(c)
           /\ TempStop(c, "open")
           /\ open' = open \cup {c} /\ UNCHANGED <<owner, nest>>

\* doStop(): stop the streams, join, clear the flags, and return to stop() or
\* to tempStop().
StopInputs(c) == /\ pc[c] = "stopInputs"
                 /\ readerStop' = TRUE
                 /\ Goto(c, "stopOutputs")
                 /\ UNCHANGED <<block, worker, writerStop, streams, owner, nest, open, terminated, crossed>>

\* Mutant: doStop() stops the inputs only.
StopOutputsNot(c) == /\ pc[c] = "stopOutputs"
                     /\ Goto(c, "join")
                     /\ UNCHANGED <<block, worker, stops, streams, owner, nest, open, terminated, crossed>>

StopOutputs(c) == /\ pc[c] = "stopOutputs"
                  /\ writerStop' = TRUE
                  /\ Goto(c, "join")
                  /\ UNCHANGED <<block, worker, readerStop, streams, owner, nest, open, terminated, crossed>>

Join(c) == /\ pc[c] = "join"
           /\ ~Alive
           /\ worker' = "none"
           /\ Goto(c, "clear")
           /\ UNCHANGED <<block, stops, streams, owner, nest, open, terminated, crossed>>

\* Where doStop() returns to.
Stopped(c) == \/ /\ owner = c /\ nest = 0
                 /\ running' = FALSE /\ Return(c) /\ UNCHANGED tempStopped
              \/ /\ owner = c /\ nest > 0
                 /\ tempStopped' = TRUE /\ Goto(c, "change") /\ UNCHANGED <<running, owner>>
              \/ /\ owner # c
                 /\ tempStopped' = TRUE /\ Goto(c, "open") /\ UNCHANGED <<running, owner>>

\* Mutant: doStop() leaves the stop flag of the output set.
ClearInputsOnly(c) == /\ pc[c] = "clear"
                      /\ readerStop' = FALSE
                      /\ Stopped(c)
                      /\ UNCHANGED <<tempStopDepth, worker, writerStop, streams, nest, open, terminated, crossed>>

Clear(c) == /\ pc[c] = "clear"
            /\ readerStop' = FALSE /\ writerStop' = FALSE
            /\ Stopped(c)
            /\ UNCHANGED <<tempStopDepth, worker, streams, nest, open, terminated, crossed>>

DoStop(c) == StopInputs(c) \/ StopOutputs(c) \/ Join(c) \/ Clear(c)

\* Mutant: tempStart() restarts the worker at the end of an inner bracket.
TempStartEager == /\ tempStopDepth' = IF tempStopDepth = 0 THEN 0 ELSE tempStopDepth - 1
                  /\ tempStopped' = FALSE
                  /\ IF tempStopped THEN DoStart ELSE UNCHANGED <<worker, terminated>>
                  /\ UNCHANGED <<running, stops, streams, crossed>>

\* tempStart(): only the outermost one restarts the worker that tempStop ended.
TempStart == /\ tempStopDepth' = IF tempStopDepth = 0 THEN 0 ELSE tempStopDepth - 1
             /\ IF tempStopDepth = 1 /\ tempStopped
                THEN DoStart /\ tempStopped' = FALSE
                ELSE UNCHANGED <<worker, terminated, tempStopped>>
             /\ UNCHANGED <<running, stops, streams, crossed>>

Leave(c) == /\ pc[c] = "change"
            /\ TempStart
            /\ nest' = nest - 1
            /\ IF nest = 1 THEN Return(c) ELSE UNCHANGED <<owner, pc>>
            /\ UNCHANGED open

\* tempStart() called from IQFrontEnd.
Shut(c) == /\ pc[c] = "open"
           /\ TempStart
           /\ open' = open \ {c} /\ Goto(c, "idle")
           /\ UNCHANGED <<owner, nest>>

Call(c) == Start(c) \/ Stop(c) \/ Enter(c) \/ Nest(c) \/ Open(c) \/ Shut(c)

Next == \/ Work \/ Neighbours
        \/ \E c \in Caller : Call(c) \/ Launch(c) \/ DoStop(c) \/ Leave(c)

\* The worker runs when it can, a call that holds the mutex goes on, and a
\* setter leaves each bracket after finitely many nested calls.  Nobody has to
\* call anything, and the neighbours need not move at all.
Fairness == /\ WF_vars(Work)
            /\ \A c \in Caller : /\ WF_vars(Launch(c) \/ DoStop(c))
                                 /\ \A d \in 1..MaxNest : SF_vars(Leave(c) /\ nest = d)

Spec == Init /\ [][Next]_vars /\ Fairness

-----------------------------------------------------------------------------
(* Properties.                                                             *)

TypeOK == /\ running \in BOOLEAN /\ tempStopped \in BOOLEAN
          /\ tempStopDepth \in Nat
          /\ worker \in {"none", "read", "process", "swap", "ended"}
          /\ readerStop \in BOOLEAN /\ writerStop \in BOOLEAN
          /\ inFull \in BOOLEAN /\ outFull \in BOOLEAN
          /\ owner \in Caller \cup {Nobody} /\ nest \in 0..MaxNest /\ open \subseteq Caller
          /\ pc \in [Caller -> {"idle", "launch", "stopInputs", "stopOutputs",
                                "join", "clear", "change", "open"}]
          /\ terminated \in BOOLEAN /\ crossed \in BOOLEAN

\* While a setter changes the block's parameters, or IQFrontEnd its own that the worker
\* uses, however deep the brackets are nested, no worker thread exists; unless two
\* threads have met in a bracket without the mutex (block.h tempStop, tempStart).
ReconfigExclusive == \A c \in Caller : pc[c] \in {"change", "open"} => worker = "none" \/ crossed

\* No worker thread is ever overwritten, with the same exception: std::thread's
\* assignment to a joinable thread would end the program (block.h doStart, doStop).
NeverTerminates == terminated => crossed

\* Between calls the flags and the thread agree, with the same exception: a started
\* block has a live worker, a stopped one has none, and no pause or stop flag is left
\* behind (block.h start, stop, tempStop, tempStart).
QuietMeansConsistent ==
    (\A c \in Caller : pc[c] = "idle") /\ ~crossed
        => /\ IF running THEN Alive ELSE worker = "none"
           /\ ~tempStopped /\ tempStopDepth = 0
           /\ ~readerStop /\ ~writerStop

\* A call returns, wherever the worker is blocked and however the neighbours behave:
\* stop(), every setter and every tempStop(), with the same exception (block.h doStop).
CallsReturn == \A c \in Caller : (pc[c] \notin {"idle", "open"}) ~> (pc[c] \in {"idle", "open"} \/ crossed)

=============================================================================
