------------------------------ MODULE Reshaper ------------------------------
(***************************************************************************)
(* dsp::buffer::Reshaper: cuts the samples of its input stream into frames *)
(* of keep samples that start keep + skip samples apart; a negative skip   *)
(* makes frames overlap.  The run() thread writes input frames to the ring *)
(* of RingBuffer, the bufferWorker() thread reads them off and swaps the   *)
(* output stream, and a control thread stops both, changes the shape and   *)
(* starts them again.                                                      *)
(***************************************************************************)
EXTENDS RingBuffer

CONSTANTS Shapes,       \* the pairs <<keep, skip>> it may be given
          Fades         \* T is complex_t or stereo_t: what is carried over is divided by ten

ASSUME ShapesAssumption ==
    /\ Fades \in BOOLEAN
    /\ \A s \in Shapes : s[1] \in 1..MaxCall /\ s[2] \in Int /\ s[1] + s[2] \in 1..MaxCall /\ s[2] <= MaxCall

VARIABLES input,                \* length of the frame in the input stream, or 0
          keep, skip,
          buf,                  \* bufferWorker's buffer; 0 stands for memory never written
          faded,                \* how often the sample at each place of it was divided by ten
          out,                  \* the output stream holds a frame
          sent,                 \* history: last frame swapped since the last start
          stopStreams,          \* <<the input's reader, the output's writer>> are stopped
          tpc, bpc, ctl         \* run() thread, bufferWorker() thread, control thread

shaper == <<input, keep, skip, buf, faded, out, sent, stopStreams, tpc, bpc, ctl>>
shaperVars   == <<ring, shaper>>

ShaperInit == /\ RingInit
              /\ input = 0 /\ buf = <<>> /\ faded = <<>> /\ out = FALSE /\ sent = <<>>
              /\ stopStreams = <<FALSE, FALSE>>
              /\ tpc = "none" /\ bpc = "none" /\ ctl = "down"
              /\ \E s \in Shapes : keep = s[1] /\ skip = s[2]
              /\ maxLatency = keep * 2

Overlap == Most(-skip, 0)           \* samples carried over to the next frame

-----------------------------------------------------------------------------
(* The neighbours.                                                         *)

Arrive(len) == /\ input = 0 /\ MoreInput(len)
               /\ input' = len
               /\ UNCHANGED <<ring, keep, skip, buf, faded, out, sent, stopStreams, tpc, bpc, ctl>>

Drain == /\ out
         /\ out' = FALSE
         /\ UNCHANGED <<ring, input, keep, skip, buf, faded, sent, stopStreams, tpc, bpc, ctl>>

-----------------------------------------------------------------------------
(* run()                                                                   *)

RunRead == /\ tpc = "read"
           /\ \/ /\ stopStreams[1] /\ tpc' = "ended"
                 /\ UNCHANGED ring
              \/ /\ ~stopStreams[1] /\ input # 0
                 /\ BeginWrite(input)
                 /\ tpc' = "write"
           /\ UNCHANGED <<input, keep, skip, buf, faded, out, sent, stopStreams, bpc, ctl>>

RunWrite == WriteRing /\ UNCHANGED shaper

\* Whether the frame was written or the ring was stopped: run() does not look.
RunFlush == /\ tpc = "write" /\ wpc = "idle"
            /\ input' = 0
            /\ tpc' = "read"
            /\ UNCHANGED <<ring, keep, skip, buf, faded, out, sent, stopStreams, bpc, ctl>>

Run == RunRead \/ RunWrite \/ RunFlush

-----------------------------------------------------------------------------
(* bufferWorker()                                                          *)

\* The last samples of the frame become the first of the next.
CarryOver == /\ buf' = SubSeq(buf, keep - Overlap + 1, keep) \o SubSeq(buf, Overlap + 1, keep)
             /\ faded' = [i \in 1..keep |->
                            IF i > Overlap THEN faded[i]
                            ELSE faded[keep - Overlap + i] + IF Fades THEN 1 ELSE 0]

\* Mutant: the worker forgets to skip.
BeginWithoutSkip == /\ bpc = "begin"
                    /\ CarryOver
                    /\ BeginRead(Least(keep + skip, keep), 0)
                    /\ bpc' = "read"
                    /\ UNCHANGED <<input, keep, skip, out, sent, stopStreams, tpc, ctl>>

WorkerBegin == /\ bpc = "begin"
               /\ CarryOver
               /\ BeginRead(Least(keep + skip, keep), Most(skip, 0))
               /\ bpc' = "read"
               /\ UNCHANGED <<input, keep, skip, out, sent, stopStreams, tpc, ctl>>

WorkerRead == ReadRing /\ UNCHANGED shaper

WorkerEnd == /\ bpc = "read"
             /\ \/ /\ rpc = "done" /\ bpc' = "swap"
                   /\ buf' = SubSeq(buf, 1, Overlap) \o got
                   /\ faded' = [i \in 1..keep |-> IF i > Overlap THEN 0 ELSE faded[i]]
                \/ /\ rpc = "stopped" /\ bpc' = "ended"
                   /\ UNCHANGED <<buf, faded>>
             /\ EndRead
             /\ UNCHANGED <<input, keep, skip, out, sent, stopStreams, tpc, ctl>>

WorkerSwap == /\ bpc = "swap"
              /\ \/ /\ stopStreams[2] /\ bpc' = "ended"
                    /\ UNCHANGED <<out, sent>>
                 \/ /\ ~stopStreams[2] /\ ~out
                    /\ out' = TRUE /\ sent' = buf
                    /\ bpc' = "begin"
              /\ UNCHANGED <<ring, input, keep, skip, buf, faded, stopStreams, tpc, ctl>>

Worker == WorkerBegin \/ WorkerRead \/ WorkerEnd \/ WorkerSwap

-----------------------------------------------------------------------------
(* doStart(), doStop(), setKeep() and setSkip()                            *)

StartShaper == /\ ctl = "down"
               /\ tpc' = "read" /\ bpc' = "begin" /\ ctl' = "up"
               /\ buf' = [i \in 1..keep |-> 0] /\ faded' = buf'
               /\ sent' = <<>>
               /\ UNCHANGED <<ring, input, keep, skip, out, stopStreams>>

Control(from, to) == /\ ctl = from /\ ctl' = to
                     /\ UNCHANGED <<input, keep, skip, buf, faded, out, sent, tpc, bpc>>

\* Mutant: doStop leaves the input stream's reader alone.
StopNothing == Control("up", "reader") /\ UNCHANGED stopStreams /\ UNCHANGED ring

StopInput    == Control("up", "reader") /\ stopStreams' = [stopStreams EXCEPT ![1] = TRUE] /\ UNCHANGED ring
StopRingRead == Control("reader", "notify") /\ StopReader /\ UNCHANGED stopStreams

\* canReadVar.notify_one(), then out.stopWriter().
StopOutput == /\ Control("notify", "writer")
              /\ stopStreams' = [stopStreams EXCEPT ![2] = TRUE]
              /\ WakeReader
              /\ UNCHANGED <<buffer, readc, writec, counts, maxLatency, flags, write, rleft, sleft, rbatch, got, written, consumed>>

StopRingWrite == Control("writer", "wake") /\ StopWriter /\ UNCHANGED stopStreams

NotifyWriter == /\ Control("wake", "join")
                /\ WakeWriter
                /\ UNCHANGED <<buffer, readc, writec, counts, maxLatency, flags, wleft, wbatch, seen, read, written, consumed>>
                /\ UNCHANGED stopStreams


JoinBoth == /\ ctl = "join" /\ tpc = "ended" /\ bpc = "ended"
            /\ ClearStops
            /\ stopStreams' = <<FALSE, FALSE>>
            /\ tpc' = "none" /\ bpc' = "none" /\ ctl' = "down"
            /\ UNCHANGED <<input, keep, skip, buf, faded, out, sent>>

StopShaper == StopRingRead \/ StopOutput \/ StopRingWrite \/ NotifyWriter \/ JoinBoth

\* setKeep and setSkip, between their tempStop and tempStart.
SetShape(s) == /\ ctl = "down"
               /\ keep' = s[1] /\ skip' = s[2]
               /\ SetMaxLatency(s[1] * 2)
               /\ UNCHANGED <<input, buf, faded, out, sent, stopStreams, tpc, bpc, ctl>>

ShaperNext == \/ \E len \in 1..MaxCall : Arrive(len)
              \/ Drain \/ Run \/ Worker
              \/ StartShaper \/ StopInput \/ StopShaper
              \/ \E s \in Shapes : SetShape(s)

\* The threads run when they can, a stop that began goes on, and the block
\* behind out reads what is sent to it.
ShaperFairness == /\ WF_shaperVars(Run) /\ WF_shaperVars(Worker)
                  /\ WF_shaperVars(StopShaper) /\ WF_shaperVars(Drain)

ShaperSpec == ShaperInit /\ [][ShaperNext]_shaperVars /\ ShaperFairness

-----------------------------------------------------------------------------
(* Properties.                                                             *)

\* Between two starts the frames are consecutive samples and begin keep + skip
\* apart, whatever batches the ring hands out; only the part of the first frame
\* that overlaps a frame never read is memory never written; and only the samples
\* that the frame before had come attenuated (reshaper.h bufferWorker).
Windows ==
    [][(sent' # sent /\ sent' # <<>>) =>
          /\ \A i \in 1..keep-1 : sent'[i] # 0 => sent'[i+1] = sent'[i] + 1
          /\ sent # <<>> => sent'[keep] = sent[keep] + keep + skip
          /\ \A i \in 1..keep : faded[i] > 0 <=> Fades /\ i <= Overlap]_shaperVars

Asleep == wpc = "asleep" \/ rpc = "asleep"

\* While the reshaper runs, every input frame gets through, although it may be
\* longer than the latency and the worker may have to skip more than the ring
\* holds; and doStop returns, or it waits for a thread that was asleep in the ring
\* when told to stop (reshaper.h run, bufferWorker, doStop).
FlowsAndStops == /\ (ctl = "up" /\ input # 0) ~> (ctl # "up" \/ input = 0)
                 /\ (ctl = "reader") ~> (ctl = "down" \/ (ctl = "join" /\ Asleep))

=============================================================================
