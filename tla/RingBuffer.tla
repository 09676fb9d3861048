----------------------------- MODULE RingBuffer -----------------------------
(***************************************************************************)
(* dsp::buffer::RingBuffer: one writer, one reader, a ring of Size samples *)
(* of which at most maxLatency are filled.  The counts readable and        *)
(* writable are updated one after the other, each under its own mutex, and *)
(* the two cursors are never compared.                                     *)
(*                                                                         *)
(* A thread copies samples in the state "copy", outside both mutexes, and  *)
(* updates the counts in the two steps that follow.  A condition-variable  *)
(* wait is two steps with the mutex held in between ("doze"), because the  *)
(* stop flags are set and notified without it.  Sample number n is the     *)
(* n-th that was written.                                                  *)
(*                                                                         *)
(* RingNext is the ring with its most general callers; Reshaper composes   *)
(* it with the threads that use it.                                        *)
(***************************************************************************)
EXTENDS Integers, Sequences

CONSTANTS Size,         \* RING_BUF_SZ
          Latencies,    \* the values setMaxLatency is called with
          MaxCall,      \* bound: longest write, read or skip of one call
          MaxSample     \* bound: samples written

ASSUME RingAssumption == /\ Size \in Nat \ {0} /\ MaxCall \in Nat /\ MaxSample \in Nat
                         /\ Latencies \subseteq Nat \ {0}

VARIABLES buffer, readc, writec, readable, writable, maxLatency, stopReader, stopWriter,
          wpc, wleft, wbatch,           \* writer: samples of the call left, samples of this turn
          seen,                         \* the value of writable that getWritable read
          rpc, rleft, sleft, rbatch,    \* reader: left to read, left to skip, this turn
          got,                          \* the samples the call has read
          written, consumed             \* history: samples written, samples read or skipped

counts == <<readable, writable>>
flags  == <<stopReader, stopWriter>>
write  == <<wpc, wleft, wbatch, seen>>
read   == <<rpc, rleft, sleft, rbatch, got>>
ring   == <<buffer, readc, writec, counts, maxLatency, flags, write, read, written, consumed>>

RingInit == /\ buffer = [i \in 0..Size-1 |-> 0] /\ readc = 0 /\ writec = 0
            /\ readable = 0 /\ writable = Size
            /\ maxLatency \in Latencies
            /\ stopReader = FALSE /\ stopWriter = FALSE
            /\ wpc = "idle" /\ wleft = 0 /\ wbatch = 0 /\ seen = 0
            /\ rpc = "idle" /\ rleft = 0 /\ sleft = 0 /\ rbatch = 0 /\ got = <<>>
            /\ written = 0 /\ consumed = 0

Least(a, b) == IF a < b THEN a ELSE b
Most(a, b)  == IF a > b THEN a ELSE b

Cell(c, i) == (c + i) % Size
Cells(c, n) == {Cell(c, i) : i \in 0..n-1}

\* Mutant: only the latency bounds the ring.
RoomByLatency(w, r) == Most(maxLatency - r, 0)

Room(w, r) == Most(Least(w, maxLatency - r), 0)      \* what getWritable computes

ReadableLocked == rpc = "doze"      \* the reader holds _readable_mtx
WritableLocked == wpc = "doze"      \* the writer holds _writable_mtx

WakeWriter == wpc' = IF wpc = "asleep" THEN "wait" ELSE wpc
WakeReader == rpc' = IF rpc = "asleep" THEN "wait" ELSE rpc

-----------------------------------------------------------------------------
(* write(len)                                                              *)

BeginWrite(len) == /\ wpc = "idle"
                   /\ wleft' = len
                   /\ wpc' = "check"
                   /\ UNCHANGED <<buffer, readc, writec, counts, maxLatency, flags, wbatch, seen, read, written, consumed>>

\* waitUntilwritable: the flag, then getWritable reads writable, then readable.
CheckWriter == /\ wpc = "check"
               /\ \/ stopWriter /\ wpc' = "idle" /\ wleft' = 0
                  \/ ~stopWriter /\ wpc' = "peek" /\ UNCHANGED wleft
               /\ UNCHANGED <<buffer, readc, writec, counts, maxLatency, flags, wbatch, seen, read, written, consumed>>

PeekWritable == /\ wpc = "peek"
                /\ seen' = writable
                /\ wpc' = "sum"
                /\ UNCHANGED <<buffer, readc, writec, counts, maxLatency, flags, wleft, wbatch, read, written, consumed>>

StartWrite(room) == /\ wbatch' = Least(room, wleft)
                    /\ wpc' = "copy"

SumWritable == /\ wpc = "sum" /\ ~ReadableLocked
               /\ LET room == Room(seen, readable)
                  IN  IF room # 0 THEN StartWrite(room)
                                  ELSE wpc' = "wait" /\ UNCHANGED wbatch
               /\ seen' = 0
               /\ UNCHANGED <<buffer, readc, writec, counts, maxLatency, flags, wleft, read, written, consumed>>

WaitWritable == /\ wpc = "wait"
                /\ LET room == Room(writable, readable)
                   IN  \/ stopWriter /\ wpc' = "idle" /\ wleft' = 0 /\ UNCHANGED wbatch
                       \/ ~stopWriter /\ room > 0 /\ StartWrite(room) /\ UNCHANGED wleft
                       \/ ~stopWriter /\ room = 0 /\ wpc' = "doze" /\ UNCHANGED <<wleft, wbatch>>
                /\ UNCHANGED <<buffer, readc, writec, counts, maxLatency, flags, seen, read, written, consumed>>

WriterSleeps == /\ wpc = "doze"
                /\ wpc' = "asleep"
                /\ UNCHANGED <<buffer, readc, writec, counts, maxLatency, flags, wleft, wbatch, seen, read, written, consumed>>

\* Mutant: a copy that passes the end of the ring is cut short.
CopyInCut == /\ wpc = "copy"
             /\ buffer' = [c \in 0..Size-1 |->
                              IF c >= writec /\ c < writec + wbatch THEN written + 1 + c - writec ELSE buffer[c]]
             /\ written' = written + wbatch
             /\ wleft' = wleft - wbatch
             /\ wpc' = "readable"
             /\ UNCHANGED <<readc, writec, counts, maxLatency, flags, wbatch, seen, read, consumed>>

CopyIn == /\ wpc = "copy"
          /\ buffer' = [c \in 0..Size-1 |->
                           IF c \in Cells(writec, wbatch)
                             THEN written + 1 + ((c - writec + Size) % Size)
                             ELSE buffer[c]]
          /\ written' = written + wbatch
          /\ wleft' = wleft - wbatch
          /\ wpc' = "readable"
          /\ UNCHANGED <<readc, writec, counts, maxLatency, flags, wbatch, seen, read, consumed>>

AddReadable == /\ wpc = "readable" /\ ~ReadableLocked
               /\ readable' = readable + wbatch
               /\ wpc' = "writable"
               /\ UNCHANGED <<buffer, readc, writec, writable, maxLatency, flags, wleft, wbatch, seen, read, written, consumed>>

SubWritable == /\ wpc = "writable"
               /\ writable' = writable - wbatch
               /\ writec' = Cell(writec, wbatch)
               /\ wpc' = "notify"
               /\ UNCHANGED <<buffer, readc, readable, maxLatency, flags, wleft, wbatch, seen, read, written, consumed>>

\* Mutant: the reader is not notified.
SilentWrite == /\ wpc = "notify"
               /\ wpc' = IF wleft > 0 THEN "check" ELSE "idle"
               /\ wbatch' = 0
               /\ UNCHANGED <<buffer, readc, writec, counts, maxLatency, flags, wleft, seen, read, written, consumed>>

NotifyReadable == /\ wpc = "notify"
                  /\ WakeReader
                  /\ wpc' = IF wleft > 0 THEN "check" ELSE "idle"
                  /\ wbatch' = 0
                  /\ UNCHANGED <<buffer, readc, writec, counts, maxLatency, flags, wleft, seen,
                                 rleft, sleft, rbatch, got, written, consumed>>

WriteRing == \/ CheckWriter \/ PeekWritable \/ SumWritable \/ WaitWritable \/ WriterSleeps
             \/ CopyIn \/ AddReadable \/ SubWritable \/ NotifyReadable

-----------------------------------------------------------------------------
(* readAndSkip(len, skip); read(len) is the same with skip = 0.            *)

BeginRead(len, skip) ==
    /\ rpc = "idle"
    /\ rleft' = len /\ sleft' = skip
    /\ got' = <<>>
    /\ rpc' = "check"
    /\ UNCHANGED <<buffer, readc, writec, counts, maxLatency, flags, write, rbatch, written, consumed>>

CheckReader == /\ rpc = "check"
               /\ rpc' = IF stopReader THEN "stopped" ELSE "peek"
               /\ UNCHANGED <<buffer, readc, writec, counts, maxLatency, flags, write, rleft, sleft, rbatch, got, written, consumed>>

StartRead == /\ rbatch' = Least(readable, IF rleft > 0 THEN rleft ELSE sleft)
             /\ rpc' = "copy"

PeekReadable == /\ rpc = "peek"
                /\ IF readable # 0 THEN StartRead ELSE rpc' = "wait" /\ UNCHANGED rbatch
                /\ UNCHANGED <<buffer, readc, writec, counts, maxLatency, flags, write, rleft, sleft, got, written, consumed>>

WaitReadable == /\ rpc = "wait"
                /\ \/ stopReader /\ rpc' = "stopped" /\ UNCHANGED rbatch
                   \/ ~stopReader /\ readable > 0 /\ StartRead
                   \/ ~stopReader /\ readable = 0 /\ rpc' = "doze" /\ UNCHANGED rbatch
                /\ UNCHANGED <<buffer, readc, writec, counts, maxLatency, flags, write, rleft, sleft, got, written, consumed>>

ReaderSleeps == /\ rpc = "doze"
                /\ rpc' = "asleep"
                /\ UNCHANGED <<buffer, readc, writec, counts, maxLatency, flags, write, rleft, sleft, rbatch, got, written, consumed>>

\* The samples to skip are counted, not copied.
CopyOut == /\ rpc = "copy"
           /\ IF rleft > 0
                THEN /\ got' = got \o [i \in 1..rbatch |-> buffer[Cell(readc, i - 1)]]
                     /\ rleft' = rleft - rbatch
                     /\ UNCHANGED sleft
                ELSE /\ sleft' = sleft - rbatch
                     /\ UNCHANGED <<rleft, got>>
           /\ rpc' = "readable"
           /\ UNCHANGED <<buffer, readc, writec, counts, maxLatency, flags, write, rbatch, written, consumed>>

SubReadable == /\ rpc = "readable"
               /\ readable' = readable - rbatch
               /\ rpc' = "writable"
               /\ UNCHANGED <<buffer, readc, writec, writable, maxLatency, flags, write, rleft, sleft, rbatch, got, written, consumed>>


AddWritable == /\ rpc = "writable" /\ ~WritableLocked
               /\ writable' = writable + rbatch
               /\ readc' = Cell(readc, rbatch)
               /\ consumed' = consumed + rbatch
               /\ rpc' = "notify"
               /\ UNCHANGED <<buffer, writec, readable, maxLatency, flags, write, rleft, sleft, rbatch, got, written>>

NotifyWritable == /\ rpc = "notify"
                  /\ WakeWriter
                  /\ rpc' = IF rleft + sleft > 0 THEN "check" ELSE "done"
                  /\ rbatch' = 0
                  /\ UNCHANGED <<buffer, readc, writec, counts, maxLatency, flags, wleft, wbatch, seen,
                                 rleft, sleft, got, written, consumed>>

ReadRing == \/ CheckReader \/ PeekReadable \/ WaitReadable \/ ReaderSleeps
            \/ CopyOut \/ SubReadable \/ AddWritable \/ NotifyWritable

\* The caller has the len samples ("done"), or -1 ("stopped").
EndRead == /\ rpc \in {"done", "stopped"}
           /\ rpc' = "idle"
           /\ rleft' = 0 /\ sleft' = 0 /\ got' = <<>>
           /\ UNCHANGED <<buffer, readc, writec, counts, maxLatency, flags, write, rbatch, written, consumed>>

-----------------------------------------------------------------------------
(* Stopping, and the latency.                                              *)

StopReader == /\ stopReader' = TRUE
              /\ UNCHANGED <<buffer, readc, writec, counts, maxLatency, stopWriter, write, read, written, consumed>>

StopWriter == /\ stopWriter' = TRUE
              /\ UNCHANGED <<buffer, readc, writec, counts, maxLatency, stopReader, write, read, written, consumed>>

\* A spurious wake-up would evaluate the predicate again and change nothing; it
\* is left out, for endless ones would keep the mutex from the other thread.
NotifyStop == \/ /\ stopReader /\ WakeReader
                 /\ UNCHANGED <<buffer, readc, writec, counts, maxLatency, flags, write, rleft, sleft, rbatch, got, written, consumed>>
              \/ /\ stopWriter /\ WakeWriter
                 /\ UNCHANGED <<buffer, readc, writec, counts, maxLatency, flags, wleft, wbatch, seen, read, written, consumed>>

\* Both threads were joined.
ClearStops == /\ wpc = "idle" /\ rpc = "idle"
              /\ stopReader' = FALSE /\ stopWriter' = FALSE
              /\ UNCHANGED <<buffer, readc, writec, counts, maxLatency, write, read, written, consumed>>

SetMaxLatency(l) == /\ wpc = "idle" /\ rpc = "idle"
                    /\ maxLatency' = l
                    /\ UNCHANGED <<buffer, readc, writec, counts, flags, write, read, written, consumed>>

MoreInput(len) == written + len <= MaxSample

RingNext == \/ \E len \in 1..MaxCall : MoreInput(len) /\ BeginWrite(len)
            \/ WriteRing
            \/ \E len \in 1..MaxCall, skip \in 0..MaxCall : BeginRead(len, skip)
            \/ ReadRing \/ EndRead
            \/ StopReader \/ StopWriter \/ NotifyStop \/ ClearStops
            \/ \E l \in Latencies : SetMaxLatency(l)

RingSafety == RingInit /\ [][RingNext]_ring

-----------------------------------------------------------------------------
(* Properties.                                                             *)

Sample == 0..MaxSample
InFlight(place, states, n) == IF place \in states THEN n ELSE 0

\* The two threads never touch the same cell at the same time: the copies are
\* made outside both mutexes, and only the counts keep them apart (ring_buffer.h
\* read, readAndSkip, write).
NoSharedCell ==
    (wpc = "copy" /\ rpc = "copy") => Cells(writec, wbatch) \cap Cells(readc, rbatch) = {}

\* The samples counted as readable are, from the reader's place in the ring on,
\* exactly the next ones that were written: nothing is overwritten before it was
\* read, lost or read twice (ring_buffer.h write, readAndSkip).
Fifo == LET ahead == InFlight(rpc, {"writable"}, rbatch)
        IN  \A i \in 0..readable-1 : buffer[Cell(readc, ahead + i)] = consumed + ahead + i + 1

=============================================================================
