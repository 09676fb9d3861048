---------------------------- MODULE SampleStream ----------------------------
(***************************************************************************)
(* dsp::stream<T>: the double-buffered hand-over between the worker thread *)
(* of an upstream block (the writer) and that of a downstream block (the   *)
(* reader), together with the two control threads that stop and start      *)
(* these workers the way block::doStop and block::doStart do.              *)
(*                                                                         *)
(* One step is one critical section, one notify_all or one access to a     *)
(* sample buffer.  A thread whose predicate is false inside its critical   *)
(* section joins the condition variable's wait set in the same step, as    *)
(* std::condition_variable::wait does.                                     *)
(***************************************************************************)

CONSTANTS Frame,    \* the frames (samples and their count) a writer produces
          None      \* content of a buffer or count never written

ASSUME FrameAssumption == Frame # {} /\ None \notin Frame

Buf == {1, 2}       \* the two allocations made by the constructor

VARIABLES content,              \* what each allocation holds
          writeBuf, readBuf,    \* the pointers swap() exchanges
          dataSize,             \* the count swap() published (stands for the frame)
          canSwap, dataReady,
          writerStop, readerStop,
          wpc, rpc,             \* where each worker thread is
          inUse,                \* <<buffer, count>> that the reader works with
          wctl, rctl            \* where each worker's control thread is

data    == <<content, writeBuf, readBuf, dataSize>>
flags   == <<canSwap, dataReady>>
stops   == <<writerStop, readerStop>>
control == <<wctl, rctl>>
vars    == <<data, flags, stops, wpc, rpc, inUse, control>>

WriterPC == {"fill", "swap", "swapWait", "ready", "notify", "exit"}
ReaderPC == {"read", "readWait", "use", "flushReady", "flushSwap", "flushNotify", "exit"}
ControlPC == {"down", "up", "notify", "join"}

Init == /\ content = [b \in Buf |-> None]
        /\ writeBuf = 1 /\ readBuf = 2 /\ dataSize = None
        /\ canSwap = TRUE /\ dataReady = FALSE
        /\ writerStop = FALSE /\ readerStop = FALSE
        /\ wpc = "exit" /\ rpc = "exit"
        /\ inUse = <<2, None>>
        /\ wctl = "down" /\ rctl = "down"

-----------------------------------------------------------------------------
(* The writer: fill writeBuf, then swap().                                 *)

Fill(f) == /\ wpc = "fill"
           /\ content' = [content EXCEPT ![writeBuf] = f]
           /\ wpc' = "swap"
           /\ UNCHANGED <<writeBuf, readBuf, dataSize, flags, stops, rpc, inUse, control>>

\* The writer was stopped: swap() returns false and the worker loop ends.
SwapAbandon == /\ wpc = "swap"
               /\ writerStop
               /\ wpc' = "exit"
               /\ UNCHANGED <<data, flags, stops, rpc, inUse, control>>

SwapWait == /\ wpc = "swap"
            /\ ~canSwap /\ ~writerStop
            /\ wpc' = "swapWait"
            /\ UNCHANGED <<data, flags, stops, rpc, inUse, control>>

\* Mutant: swap() goes ahead although the reader has not flushed.
SwapUnflushed == /\ wpc = "swap" /\ ~writerStop
                 /\ dataSize' = content[writeBuf]
                 /\ writeBuf' = readBuf
                 /\ readBuf' = writeBuf
                 /\ canSwap' = FALSE
                 /\ wpc' = "ready"
                 /\ UNCHANGED <<content, dataReady, stops, rpc, inUse, control>>

SwapBuffers == /\ wpc = "swap"
               /\ canSwap /\ ~writerStop
               /\ dataSize' = content[writeBuf]
               /\ writeBuf' = readBuf
               /\ readBuf' = writeBuf
               /\ canSwap' = FALSE
               /\ wpc' = "ready"
               /\ UNCHANGED <<content, dataReady, stops, rpc, inUse, control>>

SetReady == /\ wpc = "ready"
            /\ dataReady' = TRUE
            /\ wpc' = "notify"
            /\ UNCHANGED <<data, canSwap, stops, rpc, inUse, control>>

\* notify_all on a condition variable: whoever waits evaluates its predicate again.
WakeReader == rpc' = IF rpc = "readWait" THEN "read" ELSE rpc
WakeWriter == wpc' = IF wpc = "swapWait" THEN "swap" ELSE wpc

NotifyReady == /\ wpc = "notify"
               /\ wpc' = "fill"
               /\ WakeReader
               /\ UNCHANGED <<data, flags, stops, inUse, control>>

Writer == \/ \E f \in Frame : Fill(f)
          \/ SwapAbandon \/ SwapWait \/ SwapBuffers \/ SetReady \/ NotifyReady

-----------------------------------------------------------------------------
(* The reader: read(), work on readBuf, then flush().                      *)

\* The reader was stopped: read() returns -1 and the worker loop ends.
ReadStopped == /\ rpc = "read"
               /\ readerStop
               /\ rpc' = "exit"
               /\ UNCHANGED <<data, flags, stops, wpc, inUse, control>>

ReadWait == /\ rpc = "read"
            /\ ~dataReady /\ ~readerStop
            /\ rpc' = "readWait"
            /\ UNCHANGED <<data, flags, stops, wpc, inUse, control>>

\* Mutant: read() waits without a predicate and takes any wake-up for data.
ReadAnything == /\ rpc = "read" /\ ~readerStop
                /\ inUse' = <<readBuf, dataSize>>
                /\ rpc' = "use"
                /\ UNCHANGED <<data, flags, stops, wpc, control>>

ReadData == /\ rpc = "read"
            /\ dataReady /\ ~readerStop
            /\ inUse' = <<readBuf, dataSize>>
            /\ rpc' = "use"
            /\ UNCHANGED <<data, flags, stops, wpc, control>>

FinishUse == /\ rpc = "use"
             /\ rpc' = "flushReady"
             /\ UNCHANGED <<data, flags, stops, wpc, inUse, control>>

\* Mutant: flush() does not clear dataReady.
FlushKeepsReady == /\ rpc = "flushReady"
                   /\ rpc' = "flushSwap"
                   /\ UNCHANGED <<data, flags, stops, wpc, inUse, control>>

FlushReady == /\ rpc = "flushReady"
              /\ dataReady' = FALSE
              /\ rpc' = "flushSwap"
              /\ UNCHANGED <<data, canSwap, stops, wpc, inUse, control>>

FlushSwap == /\ rpc = "flushSwap"
             /\ canSwap' = TRUE
             /\ rpc' = "flushNotify"
             /\ UNCHANGED <<data, dataReady, stops, wpc, inUse, control>>

\* Mutant: flush() forgets to notify the writer.
FlushSilent == /\ rpc = "flushNotify"
               /\ rpc' = "read"
               /\ UNCHANGED <<data, flags, stops, wpc, inUse, control>>

FlushNotify == /\ rpc = "flushNotify"
               /\ rpc' = "read"
               /\ WakeWriter
               /\ UNCHANGED <<data, flags, stops, inUse, control>>

Reader == \/ ReadStopped \/ ReadWait \/ ReadData \/ FinishUse
          \/ FlushReady \/ FlushSwap \/ FlushNotify

-----------------------------------------------------------------------------
(* Control of the writer's block: doStart, doStop.                         *)

StartWriter == /\ wctl = "down"
               /\ wctl' = "up"
               /\ wpc' = "fill"
               /\ UNCHANGED <<data, flags, stops, rpc, inUse, rctl>>

StopWriter == /\ wctl = "up"
              /\ writerStop' = TRUE
              /\ wctl' = "notify"
              /\ UNCHANGED <<data, flags, readerStop, wpc, rpc, inUse, rctl>>

\* Mutant: stopWriter() sets the flag and notifies nobody.
StopWriterSilent == /\ wctl = "notify"
                    /\ wctl' = "join"
                    /\ UNCHANGED <<data, flags, stops, wpc, rpc, inUse, rctl>>

StopWriterNotify == /\ wctl = "notify"
                    /\ wctl' = "join"
                    /\ WakeWriter
                    /\ UNCHANGED <<data, flags, stops, rpc, inUse, rctl>>

\* The join returns and clearWriteStop() resets the flag.
JoinWriter == /\ wctl = "join"
              /\ wpc = "exit"
              /\ writerStop' = FALSE
              /\ wctl' = "down"
              /\ UNCHANGED <<data, flags, readerStop, wpc, rpc, inUse, rctl>>

(* Control of the reader's block.                                          *)

StartReader == /\ rctl = "down"
               /\ rctl' = "up"
               /\ rpc' = "read"
               /\ UNCHANGED <<data, flags, stops, wpc, inUse, wctl>>

StopReader == /\ rctl = "up"
              /\ readerStop' = TRUE
              /\ rctl' = "notify"
              /\ UNCHANGED <<data, flags, writerStop, wpc, rpc, inUse, wctl>>

StopReaderNotify == /\ rctl = "notify"
                    /\ rctl' = "join"
                    /\ WakeReader
                    /\ UNCHANGED <<data, flags, stops, wpc, inUse, wctl>>

JoinReader == /\ rctl = "join"
              /\ rpc = "exit"
              /\ readerStop' = FALSE
              /\ rctl' = "down"
              /\ UNCHANGED <<data, flags, writerStop, wpc, rpc, inUse, wctl>>

FinishStop == StopWriterNotify \/ JoinWriter \/ StopReaderNotify \/ JoinReader
Control == FinishStop \/ StartWriter \/ StopWriter \/ StartReader \/ StopReader

\* A condition variable may wake a waiter that nobody notified.
SpuriousWake == /\ \/ wpc = "swapWait" /\ WakeWriter /\ UNCHANGED rpc
                   \/ rpc = "readWait" /\ WakeReader /\ UNCHANGED wpc
                /\ UNCHANGED <<data, flags, stops, inUse, control>>

Next == Writer \/ Reader \/ Control \/ SpuriousWake

\* The scheduler keeps running a thread that can run, and a control thread that
\* began to stop a block goes on; nobody is obliged to start or stop anything,
\* and no wake-up comes by itself.
Fairness == /\ WF_vars(Writer)
            /\ WF_vars(Reader)
            /\ WF_vars(StopWriterNotify \/ JoinWriter)
            /\ WF_vars(StopReaderNotify \/ JoinReader)

Spec == Init /\ [][Next]_vars /\ Fairness

-----------------------------------------------------------------------------
(* Properties.                                                             *)

TypeOK == /\ content \in [Buf -> Frame \cup {None}]
          /\ writeBuf \in Buf /\ readBuf \in Buf
          /\ dataSize \in Frame \cup {None}
          /\ canSwap \in BOOLEAN /\ dataReady \in BOOLEAN
          /\ writerStop \in BOOLEAN /\ readerStop \in BOOLEAN
          /\ wpc \in WriterPC /\ rpc \in ReaderPC
          /\ inUse \in Buf \X (Frame \cup {None})
          /\ wctl \in ControlPC /\ rctl \in ControlPC

\* From the return of read() to the end of flush(): the reader owns a frame.
Holding == rpc \in {"use", "flushReady", "flushSwap"}

\* The samples the reader is working on are in the buffer the writer is not
\* filling, and the count read() returned belongs to those samples: no swap
\* slips in under the reader, no restart pairs a stale count with new samples
\* (stream.h swap, read, flush).
BuffersExclusive == Holding => /\ inUse[1] # writeBuf
                               /\ inUse[1] = readBuf
                               /\ content[inUse[1]] = inUse[2]
                               /\ inUse[2] # None

\* Nothing is lost between the two locks: while the slot is taken, the frame is
\* about to be announced, announced, or about to be handed back, and only one of
\* the three (stream.h swap and flush, which each take both mutexes in turn).
OneStageAtATime ==
    LET announcing == wpc = "ready"
        announced  == dataReady
        returning  == rpc = "flushSwap"
    IN  /\ ~canSwap => announcing \/ announced \/ returning
        /\ announcing \/ announced \/ returning => ~canSwap
        /\ ~(announcing /\ announced)
        /\ ~(announcing /\ returning)
        /\ ~(announced /\ returning)

\* The stream implements the one-slot channel: a frame that was published stays
\* until a reader has taken and released it, through any stops and restarts of
\* either end, and is taken once (stream.h swap, read, flush).
Channel == INSTANCE StreamChannel WITH
               slot  <- IF canSwap THEN None ELSE content[readBuf],
               taken <- IF Holding THEN content[inUse[1]] ELSE None
ChannelSafety == Channel!ChanSafety

\* doStop of either block returns: a worker blocked in swap() or read() sees
\* the stop and ends, and no notification is lost (block.h doStop, stream.h).
StopReturns == /\ (wctl = "notify") ~> (wctl = "down")
               /\ (rctl = "notify") ~> (rctl = "down")

\* A published frame is taken and released, or the reader's block gets stopped;
\* a writer that waits gets the slot back or is stopped: neither end sleeps
\* through the other's notification.
HandOver == /\ (~canSwap) ~> (canSwap \/ rctl # "up")
            /\ (wpc = "swapWait") ~> (wpc # "swapWait" \/ rctl # "up")

=============================================================================
