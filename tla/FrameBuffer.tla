----------------------------- MODULE FrameBuffer -----------------------------
(***************************************************************************)
(* dsp::buffer::SampleFrameBuffer: the input buffer of the IQ front end.   *)
(* The run() thread pushes the frames of the input stream on a ring, the   *)
(* worker() thread takes them off and swaps them to the output stream, a   *)
(* control thread stops and starts both, and the user interface may flush  *)
(* the ring or switch to bypass, which hands the frames directly to out.   *)
(*                                                                         *)
(* The worker's condition-variable wait is two steps, evaluating the       *)
(* predicate and falling asleep, both with bufMtx held: doStop sets        *)
(* stopWorker and notifies without that mutex.                             *)
(***************************************************************************)
EXTENDS Integers

CONSTANTS RingSize,     \* TEST_BUFFER_SIZE
          MaxFrame      \* bound: frames 1..MaxFrame arrive on the input

ASSUME FrameBufferAssumption == /\ RingSize \in Nat \ {0, 1} /\ MaxFrame \in Nat

None == 0

VARIABLES input,                \* the frame in the input stream, or None
          arrived,              \* frames that have arrived so far
          ring, writeCur, readCur,
          writeBuf,             \* what out.writeBuf holds
          out, sent,            \* the frame in the output stream, the last one swapped
          bypass, stopStreams, stopWorker,
          rpc, wpc, ctl,        \* run() thread, worker() thread, control thread
          toggled               \* history: bypass has been switched

stream == <<input, arrived>>
cursor == <<ring, writeCur, readCur>>
output == <<out, sent>>
stops  == <<stopStreams, stopWorker>>
vars   == <<stream, cursor, writeBuf, output, bypass, stops, rpc, wpc, ctl, toggled>>

Init == /\ input = None /\ arrived = 0
        /\ ring = [i \in 0..RingSize-1 |-> None] /\ writeCur = 0 /\ readCur = 0
        /\ writeBuf = None /\ out = None /\ sent = None
        /\ bypass \in BOOLEAN
        /\ stopStreams = FALSE /\ stopWorker = FALSE
        /\ rpc = "none" /\ wpc = "none" /\ ctl = "down"
        /\ toggled = FALSE

Wrap(i) == i % RingSize
Backlog == Wrap(writeCur - readCur + RingSize)
Locked  == wpc = "dozing"           \* the worker holds bufMtx between its two steps
Wake    == wpc' = IF wpc = "asleep" THEN "check" ELSE wpc

-----------------------------------------------------------------------------
(* The neighbours of the buffer.                                           *)

Arrive == /\ input = None /\ arrived < MaxFrame
          /\ arrived' = arrived + 1
          /\ input' = arrived + 1
          /\ UNCHANGED <<cursor, writeBuf, output, bypass, stops, rpc, wpc, ctl, toggled>>

Drain == /\ out # None
         /\ out' = None
         /\ UNCHANGED <<stream, cursor, writeBuf, sent, bypass, stops, rpc, wpc, ctl, toggled>>

-----------------------------------------------------------------------------
(* run()                                                                   *)

RunRead == /\ rpc = "read"
           /\ \/ stopStreams /\ rpc' = "ended"
              \/ /\ ~stopStreams /\ input # None
                 /\ rpc' = IF bypass THEN "bypass" ELSE "push"
           /\ UNCHANGED <<stream, cursor, writeBuf, output, bypass, stops, wpc, ctl, toggled>>


Push == /\ rpc = "push" /\ ~Locked
        /\ ring' = [ring EXCEPT ![writeCur] = input]
        /\ writeCur' = Wrap(writeCur + 1)
        /\ rpc' = "notify"
        /\ UNCHANGED <<stream, readCur, writeBuf, output, bypass, stops, wpc, ctl, toggled>>

\* Mutant: run() pushes without notifying the worker.
FlushOnly == /\ rpc = "notify"
             /\ input' = None
             /\ rpc' = "read"
             /\ UNCHANGED <<arrived, cursor, writeBuf, output, bypass, stops, wpc, ctl, toggled>>

NotifyAndFlush == /\ rpc = "notify"
                  /\ Wake
                  /\ input' = None
                  /\ rpc' = "read"
                  /\ UNCHANGED <<arrived, cursor, writeBuf, output, bypass, stops, ctl, toggled>>

BypassCopy == /\ rpc = "bypass"
              /\ writeBuf' = input
              /\ input' = None
              /\ rpc' = "swap"
              /\ UNCHANGED <<arrived, cursor, output, bypass, stops, wpc, ctl, toggled>>

\* out.swap(): false once the stream was stopped.
Swap(pc, resume) == \/ stopStreams /\ pc' = "ended" /\ UNCHANGED output
                    \/ /\ ~stopStreams /\ out = None
                       /\ out' = writeBuf /\ sent' = writeBuf
                       /\ pc' = resume

BypassSwap == /\ rpc = "swap"
              /\ Swap(rpc, "read")
              /\ UNCHANGED <<stream, cursor, writeBuf, bypass, stops, wpc, ctl, toggled>>

Run == RunRead \/ Push \/ NotifyAndFlush \/ BypassCopy \/ BypassSwap

-----------------------------------------------------------------------------
(* worker()                                                                *)

WorkerStops == /\ wpc = "check" /\ stopWorker
               /\ wpc' = "ended"
               /\ UNCHANGED <<stream, cursor, writeBuf, output, bypass, stops, rpc, ctl, toggled>>

\* Mutant: the reading cursor stays on the frame that was taken.
TakeStays == /\ wpc = "check" /\ ~stopWorker /\ Backlog > 0
             /\ writeBuf' = ring[readCur]
             /\ wpc' = "swap"
             /\ UNCHANGED <<stream, cursor, output, bypass, stops, rpc, ctl, toggled>>

Take == /\ wpc = "check" /\ ~stopWorker /\ Backlog > 0
        /\ writeBuf' = ring[readCur]
        /\ readCur' = Wrap(readCur + 1)
        /\ wpc' = "swap"
        /\ UNCHANGED <<stream, ring, writeCur, output, bypass, stops, rpc, ctl, toggled>>

Doze == /\ wpc = "check" /\ ~stopWorker /\ Backlog = 0
        /\ wpc' = "dozing"
        /\ UNCHANGED <<stream, cursor, writeBuf, output, bypass, stops, rpc, ctl, toggled>>

FallAsleep == /\ wpc = "dozing"
              /\ wpc' = "asleep"
              /\ UNCHANGED <<stream, cursor, writeBuf, output, bypass, stops, rpc, ctl, toggled>>

SwapOut == /\ wpc = "swap"
           /\ Swap(wpc, "check")
           /\ UNCHANGED <<stream, cursor, writeBuf, bypass, stops, rpc, ctl, toggled>>

Worker == WorkerStops \/ Take \/ Doze \/ FallAsleep \/ SwapOut

SpuriousWake == /\ wpc = "asleep" /\ Wake
                /\ UNCHANGED <<stream, cursor, writeBuf, output, bypass, stops, rpc, ctl, toggled>>

-----------------------------------------------------------------------------
(* flush(), the bypass switch, doStart(), doStop()                         *)

\* Mutant: flush() puts the reading cursor behind the writing one.
FlushOffByOne == /\ ~Locked
                 /\ readCur' = Wrap(writeCur + 1)
                 /\ UNCHANGED <<stream, ring, writeCur, writeBuf, output, bypass, stops, rpc, wpc, ctl, toggled>>

Flush == /\ ~Locked
         /\ readCur' = writeCur
         /\ UNCHANGED <<stream, ring, writeCur, writeBuf, output, bypass, stops, rpc, wpc, ctl, toggled>>

SetBypass == /\ bypass' = ~bypass
             /\ toggled' = TRUE
             /\ UNCHANGED <<stream, cursor, writeBuf, output, stops, rpc, wpc, ctl>>

DoStart == /\ ctl = "down"
           /\ ctl' = "up" /\ rpc' = "read" /\ wpc' = "check"
           /\ UNCHANGED <<stream, cursor, writeBuf, output, bypass, stops, toggled>>

\* Mutant: doStop does not stop the streams.
StreamsNotStopped == /\ ctl = "up"
                     /\ ctl' = "flag"
                     /\ UNCHANGED <<stream, cursor, writeBuf, output, bypass, stops, rpc, wpc, toggled>>

StopStreams == /\ ctl = "up"
               /\ stopStreams' = TRUE
               /\ ctl' = "flag"
               /\ UNCHANGED <<stream, cursor, writeBuf, output, bypass, stopWorker, rpc, wpc, toggled>>

StopWorker == /\ ctl = "flag"
              /\ stopWorker' = TRUE
              /\ ctl' = "notify"
              /\ UNCHANGED <<stream, cursor, writeBuf, output, bypass, stopStreams, rpc, wpc, toggled>>

StopNotify == /\ ctl = "notify"
              /\ Wake
              /\ ctl' = "join"
              /\ UNCHANGED <<stream, cursor, writeBuf, output, bypass, stops, rpc, toggled>>

JoinBoth == /\ ctl = "join"
            /\ rpc = "ended" /\ wpc = "ended"
            /\ rpc' = "none" /\ wpc' = "none"
            /\ stopStreams' = FALSE /\ stopWorker' = FALSE
            /\ ctl' = "down"
            /\ UNCHANGED <<stream, cursor, writeBuf, output, bypass, toggled>>

DoStop == StopWorker \/ StopNotify \/ JoinBoth

Next == \/ Arrive \/ Drain \/ Run \/ Worker \/ SpuriousWake
        \/ Flush \/ SetBypass \/ DoStart \/ StopStreams \/ DoStop

\* The threads run when they can, a stop that began goes on, and the blocks
\* behind out read what is sent to them.
Fairness == WF_vars(Run) /\ WF_vars(Worker) /\ WF_vars(DoStop) /\ WF_vars(Drain)

Spec == Init /\ [][Next]_vars /\ Fairness

-----------------------------------------------------------------------------
(* Properties.                                                             *)

\* Frames leave in the order they arrived and none leaves twice, although the
\* writing cursor may lap the reading one and the buffer is flushed, stopped and
\* started at any moment, as long as bypass is not switched: a bypassed frame
\* overtakes those on the ring (frame_buffer.h run, worker, flush).
InOrder == [][sent' # sent /\ ~toggled => sent' > sent]_vars

\* The ring keeps exactly the latest frames: a frame between the cursors is
\* newer than whatever was taken or sent, so no stale slot is ever handed
\* out after a lap, a flush or a restart, as long as bypass is not switched
\* (frame_buffer.h run, worker, flush).
BacklogIsNew == ~toggled =>
    \A i \in 0..RingSize-1 : i < Backlog => /\ ring[Wrap(readCur + i)] > sent
                                            /\ wpc = "swap" => ring[Wrap(readCur + i)] > writeBuf

\* A frame pushed on the ring is taken, lapped or flushed away, or the buffer is
\* being stopped: the notification of run() is never lost; and doStop returns, or it
\* waits for a worker that was already asleep when told to stop (frame_buffer.h run,
\* doStop).
MovesAndStops ==
    /\ \A n \in 1..MaxFrame : (ctl = "up" /\ Backlog > 0 /\ ring[readCur] = n)
                                   ~> (ctl # "up" \/ Backlog = 0 \/ ring[readCur] # n)
    /\ (ctl = "flag") ~> (ctl = "down" \/ (ctl = "join" /\ wpc = "asleep"))

=============================================================================
