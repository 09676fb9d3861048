------------------------------ MODULE FrontEnd ------------------------------
(***************************************************************************)
(* IQFrontEnd around its Splitter: one input, one branch for the FFT and   *)
(* one for every VFO.  The splitter's worker hands each frame to the bound *)
(* streams one after the other and blocks on the first that is not free;   *)
(* a control thread starts and stops the front end, adds and removes VFOs  *)
(* and changes the sample rate meanwhile.                                  *)
(*                                                                         *)
(* Streams are the one-slot channels of StreamChannel, which SampleStream  *)
(* implements; the bracket around the splitter is that of BlockLifecycle,  *)
(* with doStop taken apart into its steps.  Stopping a VFO or the reshaper *)
(* is one step here: the worker behind the branch finishes and takes no    *)
(* further frame.                                                          *)
(***************************************************************************)
EXTENDS Integers, Sequences, SequencesExt

CONSTANTS VFO,          \* the names a VFO can have, each with its input stream
          FFT,          \* the branch of the FFT, bound by init()
          Stalling,     \* the VFOs whose output may no longer be read by anyone
          LastFrame     \* bound: frames 1..LastFrame come in

ASSUME FrontEndAssumption == FFT \notin VFO /\ Stalling \subseteq VFO /\ LastFrame \in Nat

NoFrame == 0
Branch  == VFO \cup {FFT}

VARIABLES produced, incoming, feeding,  \* input buffer and pre-processing chain
          streams, outputs,             \* what run() serves, what doStop() stops
          slot,                         \* the frame in each branch's stream
          lastSent,                     \* history: last frame delivered to each branch
          alive,                        \* the streams that exist
          on, stalled,                  \* branches whose consumer runs, or is stuck
          paused,                       \* consumers that are tempStopped
          running, spc, todo,           \* splitter: running, its worker, streams left to serve
          readerStop, writerStop,
          cut,                          \* history: last frame that came in before the worker stopped
          op, at, arg                   \* the operation in progress, its next step, its VFO

source    == <<produced, incoming, feeding>>
splitter  == <<streams, outputs, running>>
worker    == <<spc, todo>>
branches  == <<slot, lastSent, alive, on, stalled, paused>>
stopFlags == <<readerStop, writerStop>>
control   == <<op, at, arg>>
frontVars == <<source, splitter, worker, branches, stopFlags, cut, control>>

FrontInit == /\ produced = 0 /\ incoming = NoFrame /\ feeding = FALSE
             /\ streams = <<FFT>> /\ outputs = {FFT}
             /\ slot = [b \in Branch |-> NoFrame] /\ lastSent = [b \in Branch |-> NoFrame]
             /\ alive = {FFT} /\ on = {} /\ stalled = {} /\ paused = {}
             /\ running = FALSE /\ spc = "none" /\ todo = <<>>
             /\ readerStop = FALSE /\ writerStop = {}
             /\ cut = NoFrame
             /\ op = "none" /\ at = "none" /\ arg = FFT

-----------------------------------------------------------------------------
(* The neighbours: what feeds the splitter, what consumes the branches.    *)

Produce == /\ feeding /\ incoming = NoFrame /\ produced < LastFrame
           /\ produced' = produced + 1
           /\ incoming' = produced + 1
           /\ UNCHANGED <<feeding, splitter, worker, branches, stopFlags, cut, control>>

Consume(b) == /\ b \in on \ stalled /\ slot[b] # NoFrame
              /\ slot' = [slot EXCEPT ![b] = NoFrame]
              /\ UNCHANGED <<source, splitter, worker, lastSent, alive, on, stalled, paused,
                             stopFlags, cut, control>>

\* Nobody reads the output of the VFO any more.
Stall(b) == /\ b \in on \ stalled
            /\ stalled' = stalled \cup {b}
            /\ UNCHANGED <<source, splitter, worker, slot, lastSent, alive, on, paused, stopFlags, cut, control>>

-----------------------------------------------------------------------------
(* Splitter::run()                                                         *)

ReadInput == /\ spc = "read"
             /\ \/ readerStop /\ spc' = "ended" /\ UNCHANGED todo
                \/ ~readerStop /\ incoming # NoFrame /\ spc' = "deliver" /\ todo' = streams
             /\ UNCHANGED <<source, splitter, branches, stopFlags, cut, control>>

\* Mutant: a branch that is not ready is passed over.
SkipBusy == /\ spc = "deliver" /\ todo # <<>>
            /\ Head(todo) \notin writerStop
            /\ IF slot[Head(todo)] = NoFrame
                 THEN /\ slot' = [slot EXCEPT ![Head(todo)] = incoming]
                      /\ lastSent' = [lastSent EXCEPT ![Head(todo)] = incoming]
                 ELSE UNCHANGED <<slot, lastSent>>
            /\ todo' = Tail(todo)
            /\ UNCHANGED <<source, splitter, spc, alive, on, stalled, paused, stopFlags, cut, control>>

Deliver == /\ spc = "deliver" /\ todo # <<>>
           /\ Head(todo) \notin writerStop /\ slot[Head(todo)] = NoFrame
           /\ slot' = [slot EXCEPT ![Head(todo)] = incoming]
           /\ lastSent' = [lastSent EXCEPT ![Head(todo)] = incoming]
           /\ todo' = Tail(todo)
           /\ UNCHANGED <<source, splitter, spc, alive, on, stalled, paused, stopFlags, cut, control>>

\* swap() returned false: the frame is flushed for all branches.
GiveUp == /\ spc = "deliver" /\ todo # <<>>
          /\ Head(todo) \in writerStop
          /\ incoming' = NoFrame
          /\ spc' = "ended" /\ todo' = <<>>
          /\ UNCHANGED <<produced, feeding, splitter, branches, stopFlags, cut, control>>

FlushInput == /\ spc = "deliver" /\ todo = <<>>
              /\ incoming' = NoFrame
              /\ spc' = "read"
              /\ UNCHANGED <<produced, feeding, todo, splitter, branches, stopFlags, cut, control>>

RunSplitter == ReadInput \/ Deliver \/ GiveUp \/ FlushInput

-----------------------------------------------------------------------------
(* The splitter's doStop(), and what each operation does inside or after   *)
(* it.  "edit" is the code between tempStop() and tempStart().             *)

Call(o, label, b) == op = "none" /\ op' = o /\ at' = label /\ arg' = b
Step(o, from, to) == op = o /\ at = from /\ op' = op /\ at' = to /\ arg' = arg
Return            == op' = "none" /\ at' = "none" /\ arg' = FFT

StopInput == /\ at = "halt"
             /\ IF running THEN readerStop' = TRUE /\ at' = "outputs"
                           ELSE UNCHANGED readerStop /\ at' = "edit"
             /\ UNCHANGED <<source, splitter, worker, branches, writerStop, cut, op, arg>>

\* Mutant: doStop only stops the input.
SkipOutputs == /\ at = "outputs"
               /\ at' = "join"
               /\ UNCHANGED <<source, splitter, worker, branches, stopFlags, cut, op, arg>>

StopOutputs == /\ at = "outputs"
               /\ \/ \E b \in outputs \ writerStop : writerStop' = writerStop \cup {b} /\ UNCHANGED at
                  \/ outputs \subseteq writerStop /\ at' = "join" /\ UNCHANGED writerStop
               /\ UNCHANGED <<source, splitter, worker, branches, readerStop, cut, op, arg>>

Join == /\ at = "join" /\ spc = "ended"
        /\ spc' = "none"
        /\ readerStop' = FALSE /\ writerStop' = {}
        /\ cut' = produced
        /\ at' = "edit"
        /\ UNCHANGED <<source, splitter, todo, branches, op, arg>>

\* tempStart() of the splitter.
Restart == spc' = IF running THEN "read" ELSE "none"

-----------------------------------------------------------------------------
(* start() and stop()                                                      *)

Start == /\ Call("start", "split", FFT)
         /\ feeding' = TRUE
         /\ UNCHANGED <<produced, incoming, splitter, worker, branches, stopFlags, cut>>

StartSplit == /\ Step("start", "split", "branches")
              /\ running' = TRUE
              /\ spc' = IF running THEN spc ELSE "read"
              /\ UNCHANGED <<source, streams, outputs, todo, branches, stopFlags, cut>>

StartBranches == /\ op = "start" /\ at = "branches" /\ Return
                 /\ on' = alive
                 /\ UNCHANGED <<source, splitter, worker, slot, lastSent, alive, stalled, paused, stopFlags, cut>>

Stop == /\ Call("stop", "halt", FFT)
        /\ feeding' = FALSE
        /\ UNCHANGED <<produced, incoming, splitter, worker, branches, stopFlags, cut>>

StopBranches == /\ op = "stop" /\ at = "edit" /\ Return
                /\ running' = FALSE
                /\ on' = {}
                /\ UNCHANGED <<source, streams, outputs, worker, slot, lastSent, alive, stalled, paused, stopFlags, cut>>

-----------------------------------------------------------------------------
(* addVFO() and removeVFO()                                                *)

AddVFO(b) == /\ b \notin alive
             /\ Call("add", "halt", b)
             /\ alive' = alive \cup {b}
             /\ UNCHANGED <<source, splitter, worker, slot, lastSent, on, stalled, paused, stopFlags, cut>>

BindStream == /\ Step("add", "edit", "startVFO")
              /\ outputs' = outputs \cup {arg}
              /\ streams' = Append(streams, arg)
              /\ Restart
              /\ UNCHANGED <<source, running, todo, branches, stopFlags, cut>>

\* Mutant: the new VFO is bound but not started.
LeaveVFO == /\ op = "add" /\ at = "startVFO" /\ Return
            /\ UNCHANGED <<source, splitter, worker, branches, stopFlags, cut>>

StartVFO == /\ op = "add" /\ at = "startVFO" /\ Return
            /\ on' = on \cup {arg}
            /\ UNCHANGED <<source, splitter, worker, slot, lastSent, alive, stalled, paused, stopFlags, cut>>

RemoveVFO(b) == /\ b \in alive \ {FFT}
                /\ Call("remove", "halt", b)
                /\ on' = on \ {b}
                /\ UNCHANGED <<source, splitter, worker, slot, lastSent, alive, stalled, paused, stopFlags, cut>>

\* Mutant: the stream stays registered as an output.
UnbindKeepsOutput == /\ Step("remove", "edit", "delete")
                     /\ streams' = RemoveFirst(streams, arg)
                     /\ Restart
                     /\ UNCHANGED <<source, outputs, running, todo, branches, stopFlags, cut>>

UnbindStream == /\ Step("remove", "edit", "delete")
                /\ streams' = RemoveFirst(streams, arg)
                /\ outputs' = outputs \ {arg}
                /\ Restart
                /\ UNCHANGED <<source, running, todo, branches, stopFlags, cut>>

DeleteVFO == /\ op = "remove" /\ at = "delete" /\ Return
             /\ alive' = alive \ {arg}
             /\ slot' = [slot EXCEPT ![arg] = NoFrame]
             /\ lastSent' = [lastSent EXCEPT ![arg] = NoFrame]
             /\ stalled' = stalled \ {arg}
             /\ UNCHANGED <<source, splitter, worker, on, paused, stopFlags, cut>>

-----------------------------------------------------------------------------
(* setSampleRate(): the splitter goes on while its consumers are stopped.  *)

SetSampleRate == /\ Call("rate", "resume", FFT)
                 /\ paused' = on /\ on' = {}
                 /\ UNCHANGED <<source, splitter, worker, slot, lastSent, alive, stalled, stopFlags, cut>>

ResumeBranches == /\ op = "rate" /\ at = "resume" /\ Return
                  /\ on' = paused /\ paused' = {}
                  /\ UNCHANGED <<source, splitter, worker, slot, lastSent, alive, stalled, stopFlags, cut>>

Continue == \/ StopInput \/ StopOutputs \/ Join
            \/ StartSplit \/ StartBranches \/ StopBranches
            \/ BindStream \/ StartVFO \/ UnbindStream \/ DeleteVFO \/ ResumeBranches

FrontNext == \/ Produce \/ (\E b \in Branch : Consume(b)) \/ (\E b \in Stalling : Stall(b))
             \/ RunSplitter
             \/ Start \/ Stop \/ SetSampleRate
             \/ \E b \in VFO : AddVFO(b) \/ RemoveVFO(b)
             \/ Continue

\* The worker and the consumers run when they can, and an operation that was
\* called goes on; nothing forces frames to come or operations to be called.
FrontFairness == /\ WF_frontVars(RunSplitter) /\ WF_frontVars(Continue)
                 /\ \A b \in Branch : WF_frontVars(Consume(b))

FrontSpec == FrontInit /\ [][FrontNext]_frontVars /\ FrontFairness

-----------------------------------------------------------------------------
(* Properties.                                                             *)

\* The worker only ever touches streams that exist, and only streams that doStop
\* would stop, although a VFO and its stream may be deleted while frames flow
\* (splitter.h run, bindStream, unbindStream; iq_frontend.cpp removeVFO).
OnlyLiveStreams == /\ ToSet(streams) \subseteq alive /\ ToSet(todo) \subseteq alive
                   /\ ToSet(streams) = outputs /\ ToSet(todo) \subseteq outputs

\* Between two interruptions the branches are in step: once one of them has been
\* given a frame that came in after the splitter was last stopped, all of them
\* have the same one whenever the worker waits for the next (splitter.h run).
InStep == spc = "read" => \A a, b \in ToSet(streams) : lastSent[a] > cut => lastSent[b] = lastSent[a]

\* Every operation of the front end returns, even while a branch is not being
\* consumed and the worker is blocked on it (block.h doStop, splitter.h,
\* iq_frontend.cpp start, stop, addVFO, removeVFO, setSampleRate).
OperationsReturn == (op # "none") ~> (op = "none")

\* A frame gets through all branches, unless the front end is stopped, an
\* operation intervenes or nobody reads one of the branches any more: a stopped
\* consumer is never left bound (iq_frontend.cpp start, addVFO, removeVFO).
FramesFlow == \A n \in 1..LastFrame :
    (incoming = n /\ running) ~> (incoming # n \/ ~running \/ op # "none" \/ stalled # {})

=============================================================================
