-------------------------- MODULE FrameBufferProofs --------------------------
(***************************************************************************)
(* Proofs about the two stages of the IQ front end: the input buffer       *)
(* (FrameBuffer) and the splitter with its branches (FrontEnd).            *)
(*                                                                         *)
(* InOrder and BacklogIsNew hold for every size of the ring and any number *)
(* of frames.  Neither is inductive: what is between the cursors must also *)
(* be in the order of arrival (Ascending) and older than a frame in the    *)
(* input that has not been pushed (Arrived), and a frame that a thread is  *)
(* about to swap newer than the last one sent (Held).  With bypass on from *)
(* the start the ring stays empty, so that only one thread sends (OnePath).*)
(*                                                                         *)
(* OnlyLiveStreams and InStep hold for any set of VFOs and any number of   *)
(* frames.  The list the worker serves and the outputs doStop() stops are  *)
(* one set, without repetition (Bound), which an operation leaves and      *)
(* enters only while the worker is gone (CallOK); what the worker has left *)
(* is the end of that list (Serving), the streams before it carry the      *)
(* frame in hand, those from there on the one before it, and all that was  *)
(* delivered before the worker last ended is no newer than cut (Waiting).  *)
(***************************************************************************)
EXTENDS FrameBuffer, FrontEnd, SequenceTheorems, TLAPS

Slot == 0..RingSize-1
Entry(i) == ring[Wrap(readCur + i)]

TypeOK == /\ arrived \in Nat /\ input \in {None, arrived}
          /\ ring \in [Slot -> Nat] /\ writeCur \in Slot /\ readCur \in Slot
          /\ writeBuf \in Nat /\ out \in Nat /\ sent \in Nat
          /\ bypass \in BOOLEAN /\ toggled \in BOOLEAN

Unpushed  == input # None /\ rpc # "notify"
RunOK     == /\ rpc \in {"push", "notify", "bypass"} => input # None
             /\ ctl = "down" => rpc = "none"
OnePath   == /\ bypass => readCur = writeCur /\ rpc \notin {"push", "notify"} /\ wpc # "swap"
             /\ ~bypass => rpc \notin {"bypass", "swap"}
Ascending == \A i, j \in Slot : i < j /\ j < Backlog => Entry(i) < Entry(j)
Arrived   == /\ \A i \in Slot : i < Backlog => Entry(i) <= arrived /\ (Unpushed => Entry(i) < input)
             /\ sent <= arrived /\ writeBuf <= arrived
             /\ Unpushed => sent < input /\ writeBuf < input
Held      == wpc = "swap" \/ rpc = "swap" => sent < writeBuf
Newer     == \A i \in Slot : i < Backlog => Entry(i) > sent /\ (wpc = "swap" => Entry(i) > writeBuf)

Order == RunOK /\ OnePath /\ Ascending /\ Arrived /\ Held /\ Newer
IInv  == TypeOK /\ (~toggled => Order)

-----------------------------------------------------------------------------
(* The arithmetic of the cursors.                                          *)

LEMMA WrapIs == ASSUME NEW a \in 0..2*RingSize-1
                PROVE  Wrap(a) = IF a < RingSize THEN a ELSE a - RingSize
<1>1. RingSize \in Nat /\ RingSize > 0
  BY FrameBufferAssumption
<1>2. CASE a < RingSize
  BY <1>1, <1>2 DEF Wrap
<1>3. CASE a >= RingSize
  BY <1>1, <1>3 DEF Wrap
<1> QED
  BY <1>1, <1>2, <1>3

\* The number of frames between two cursors w and r, without modulus.
Distance(w, r) == IF w < r THEN w - r + RingSize ELSE w - r
Plus(r, i)     == IF r + i < RingSize THEN r + i ELSE r + i - RingSize

LEMMA Arithmetic == ASSUME NEW w \in Slot, NEW r \in Slot, NEW i \in Slot
                    PROVE  /\ Wrap(w - r + RingSize) = Distance(w, r)
                           /\ Wrap(r + i) = Plus(r, i)
                           /\ Wrap(r + 1) = Plus(r, 1)
<1>1. RingSize \in Nat /\ RingSize > 1
  BY FrameBufferAssumption
<1>2. w - r + RingSize \in 0..2*RingSize-1 /\ r + i \in 0..2*RingSize-1 /\ r + 1 \in 0..2*RingSize-1
  BY <1>1 DEF Slot
<1> QED
  BY <1>1, <1>2, WrapIs DEF Distance, Plus, Slot

\* A push writes beyond what is between the cursors and makes the new frame the
\* last one there, or laps the reading cursor and leaves nothing.
LEMMA PushCursor == ASSUME NEW w \in Slot, NEW r \in Slot
                    PROVE  /\ Plus(w, 1) \in Slot
                           /\ \/ Distance(Plus(w, 1), r) = 0
                              \/ /\ Distance(Plus(w, 1), r) = Distance(w, r) + 1
                                 /\ Plus(r, Distance(w, r)) = w
                           /\ \A i \in Slot : i < Distance(w, r) => Plus(r, i) # w
  BY FrameBufferAssumption DEF Slot, Plus, Distance

\* Taking a frame moves all the others one place towards the reading cursor.
LEMMA TakeCursor == ASSUME NEW w \in Slot, NEW r \in Slot, Distance(w, r) > 0
                    PROVE  /\ Plus(r, 1) \in Slot /\ Plus(r, 0) = r
                           /\ Distance(w, Plus(r, 1)) = Distance(w, r) - 1
                           /\ \A i \in Slot : i < Distance(w, r) - 1 =>
                                 i + 1 \in Slot /\ Plus(Plus(r, 1), i) = Plus(r, i + 1)
  BY FrameBufferAssumption DEF Slot, Plus, Distance

\* Backlog and entries in these terms.
LEMMA Cursors == ASSUME writeCur \in Slot, readCur \in Slot
                 PROVE  /\ Backlog = Distance(writeCur, readCur)
                        /\ \A i \in Slot : Entry(i) = ring[Plus(readCur, i)]
                        /\ Backlog \in Slot /\ 0 \in Slot
                        /\ \A i \in Slot : Plus(readCur, i) \in Slot
<1>1. \A i \in Slot : Entry(i) = ring[Plus(readCur, i)]
  BY Arithmetic DEF Entry
<1>2. Backlog = Distance(writeCur, readCur)
  BY Arithmetic DEF Backlog
<1>3. Distance(writeCur, readCur) \in Slot /\ 0 \in Slot /\ \A i \in Slot : Plus(readCur, i) \in Slot
  BY FrameBufferAssumption DEF Slot, Distance, Plus
<1> QED
  BY <1>1, <1>2, <1>3
-----------------------------------------------------------------------------
(* The invariant.                                                          *)

LEMMA OrderInit == Init => IInv
<1> SUFFICES ASSUME Init PROVE IInv
  OBVIOUS
<1>1. TypeOK
  <2>1. ring \in [Slot -> Nat] /\ 0 \in Slot
    BY FrameBufferAssumption DEF Init, Slot, None
  <2> QED
    BY <2>1 DEF Init, TypeOK, None
<1>2. Backlog = 0
  BY <1>1, Cursors, FrameBufferAssumption DEF Init, TypeOK, Distance
<1>3. Order
  BY <1>2 DEF Init, Order, RunOK, OnePath, Ascending, Arrived, Held, Newer, Unpushed, None, Slot
<1> QED
  BY <1>1, <1>3 DEF IInv

LEMMA Types == TypeOK /\ [Next]_vars => TypeOK'
<1> SUFFICES ASSUME TypeOK, [Next]_vars PROVE TypeOK'
  OBVIOUS
<1> USE FrameBufferAssumption DEF TypeOK, None, Slot, stream, cursor, output, stops
<1>1. CASE Arrive \/ Drain
  BY <1>1 DEF Arrive, Drain
<1>2. CASE RunRead \/ NotifyAndFlush
  BY <1>2 DEF RunRead, NotifyAndFlush
<1>10. CASE BypassCopy
  <2>1. writeBuf' \in Nat
    BY <1>10 DEF BypassCopy
  <2> QED
    BY <1>10, <2>1 DEF BypassCopy
<1>3. CASE BypassSwap \/ SwapOut
  BY <1>3 DEF BypassSwap, SwapOut, Swap
<1>4. CASE Push
  <2>1. writeCur' \in Slot
    BY <1>4, Arithmetic, PushCursor DEF Push
  <2> QED
    BY <1>4, <2>1 DEF Push
<1>5. CASE Take
  <2>1. readCur' \in Slot
    BY <1>5, Arithmetic, PushCursor DEF Take
  <2> QED
    BY <1>5, <2>1 DEF Take
<1>6. CASE WorkerStops \/ Doze \/ FallAsleep \/ SpuriousWake
  BY <1>6 DEF WorkerStops, Doze, FallAsleep, SpuriousWake
<1>7. CASE Flush \/ SetBypass
  BY <1>7 DEF Flush, SetBypass
<1>8. CASE DoStart \/ StopStreams \/ DoStop
  BY <1>8 DEF DoStart, StopStreams, DoStop, StopWorker, StopNotify, JoinBoth
<1>9. CASE UNCHANGED vars
  BY <1>9 DEF vars
<1> QED
  BY <1>1, <1>2, <1>3, <1>4, <1>5, <1>6, <1>7, <1>8, <1>9, <1>10 DEF Next, Run, Worker

\* A push keeps the order: the frame is newer than all the others.
LEMMA OrderPush == TypeOK /\ TypeOK' /\ Order /\ Push => Order'
<1> SUFFICES ASSUME TypeOK, TypeOK', Order, Push PROVE Order'
  OBVIOUS
<1>1. /\ Backlog = Distance(writeCur, readCur) /\ Backlog \in Slot
      /\ \A i \in Slot : Entry(i) = ring[Plus(readCur, i)]
      /\ \A i \in Slot : Plus(readCur, i) \in Slot
  BY Cursors DEF TypeOK
<1>2. /\ Backlog' = Distance(writeCur', readCur') /\ Backlog' \in Slot
      /\ \A i \in Slot : Entry(i)' = ring'[Plus(readCur, i)]
  <2>1. ASSUME writeCur' \in Slot, readCur' \in Slot
        PROVE  /\ Backlog' = Distance(writeCur', readCur') /\ Backlog' \in Slot
               /\ \A i \in Slot : Entry(i)' = ring'[Plus(readCur', i)]
    BY <2>1, Arithmetic, FrameBufferAssumption DEF Backlog, Entry, Distance, Slot
  <2> QED
    BY <2>1 DEF TypeOK, Push, cursor
<1>3. writeCur' = Plus(writeCur, 1) /\ readCur' = readCur /\ ring' = [ring EXCEPT ![writeCur] = input]
  BY Arithmetic DEF TypeOK, Push
<1>4. input # None /\ Unpushed /\ input = arrived
  BY DEF Push, Order, RunOK, Unpushed, TypeOK
<1>5. /\ \A i \in Slot : Entry(i) \in Nat
      /\ \A i \in Slot : i < Backlog' => (i < Backlog /\ Entry(i)' = Entry(i))
                                          \/ (i = Backlog /\ Entry(i)' = input)
  <2>1. \A i \in Slot : Entry(i) \in Nat
    BY <1>1 DEF TypeOK
  <2>2. ASSUME NEW i \in Slot, i < Backlog'
        PROVE  \/ i < Backlog /\ Entry(i)' = Entry(i)
               \/ i = Backlog /\ Entry(i)' = input
    <3>1. Backlog' = Backlog + 1 /\ Plus(readCur, Backlog) = writeCur
      <4>1. Backlog' # 0
        BY <1>2, <2>2 DEF Slot
      <4>2. Backlog' = Distance(Plus(writeCur, 1), readCur) /\ Backlog = Distance(writeCur, readCur)
        BY <1>1, <1>2, <1>3
      <4> QED
        BY <4>1, <4>2, PushCursor DEF TypeOK
    <3>2. CASE i < Backlog
      <4>1. Plus(readCur, i) # writeCur
        BY <1>1, <3>2, PushCursor DEF TypeOK
      <4> QED
        BY <1>1, <1>2, <1>3, <3>2, <4>1 DEF TypeOK
    <3>3. CASE i = Backlog
      BY <1>2, <1>3, <3>1, <3>3 DEF TypeOK
    <3>4. i < Backlog \/ i = Backlog
      BY <1>1, <2>2, <3>1 DEF Slot
    <3> QED
      BY <3>2, <3>3, <3>4
  <2> QED
    BY <2>1, <2>2
<1>6. Ascending'
  <2> SUFFICES ASSUME NEW i \in Slot, NEW j \in Slot, i < j, j < Backlog'
               PROVE  Entry(i)' < Entry(j)'
    BY DEF Ascending
  <2>1. i < Backlog /\ Entry(i)' = Entry(i) /\ i < Backlog'
    BY <1>1, <1>2, <1>5 DEF Slot
  <2>2. CASE j < Backlog /\ Entry(j)' = Entry(j)
    BY <2>1, <2>2 DEF Order, Ascending
  <2>3. CASE Entry(j)' = input
    BY <1>4, <2>1, <2>3 DEF Order, Arrived
  <2> QED
    BY <1>5, <2>2, <2>3
<1>7. Arrived'
  <2>1. ASSUME NEW i \in Slot, i < Backlog' PROVE Entry(i)' <= arrived'
    <3>1. arrived' = arrived /\ arrived \in Nat
      BY DEF Push, stream, TypeOK
    <3>2. CASE i < Backlog /\ Entry(i)' = Entry(i)
      BY <3>1, <3>2 DEF Order, Arrived
    <3>3. CASE Entry(i)' = input
      BY <1>4, <3>1, <3>3
    <3> QED
      BY <1>5, <2>1, <3>2, <3>3
  <2>2. ~Unpushed'
    BY DEF Push, Unpushed
  <2>3. sent' <= arrived' /\ writeBuf' <= arrived'
    BY DEF Push, Order, Arrived, output, stream
  <2> QED
    BY <2>1, <2>2, <2>3 DEF Arrived
<1>8. Newer'
  <2> SUFFICES ASSUME NEW i \in Slot, i < Backlog'
               PROVE  Entry(i)' > sent' /\ (wpc' = "swap" => Entry(i)' > writeBuf')
    BY DEF Newer
  <2>1. sent' = sent /\ wpc' = wpc /\ writeBuf' = writeBuf /\ sent < input /\ writeBuf < input
    BY <1>4 DEF Push, output, Order, Arrived
  <2>2. CASE i < Backlog /\ Entry(i)' = Entry(i)
    BY <2>1, <2>2 DEF Order, Newer
  <2>3. CASE Entry(i)' = input
    BY <2>1, <2>3, <1>4 DEF TypeOK
  <2> QED
    BY <1>5, <2>2, <2>3
<1>9. RunOK' /\ OnePath' /\ Held'
  BY <1>4 DEF Order, RunOK, OnePath, Held, Push, stream, output
<1> QED
  BY <1>6, <1>7, <1>8, <1>9 DEF Order

\* Taking the oldest frame keeps the order.
LEMMA OrderTake == TypeOK /\ TypeOK' /\ Order /\ Take => Order'
<1> SUFFICES ASSUME TypeOK, TypeOK', Order, Take PROVE Order'
  OBVIOUS
<1>1. /\ Backlog = Distance(writeCur, readCur) /\ Backlog \in Slot /\ 0 \in Slot
      /\ \A i \in Slot : Entry(i) = ring[Plus(readCur, i)]
      /\ \A i \in Slot : Plus(readCur, i) \in Slot
  BY Cursors DEF TypeOK
<1>2. writeCur' = writeCur /\ readCur' = Plus(readCur, 1) /\ ring' = ring /\ Backlog > 0
  BY Arithmetic DEF TypeOK, Take
<1>3. /\ Backlog' = Distance(writeCur', readCur') /\ Backlog' \in Slot
      /\ \A i \in Slot : Entry(i)' = ring[Plus(readCur', i)]
  <2>1. ASSUME writeCur' \in Slot, readCur' \in Slot
        PROVE  /\ Backlog' = Distance(writeCur', readCur') /\ Backlog' \in Slot
               /\ \A i \in Slot : Entry(i)' = ring'[Plus(readCur', i)]
    BY <2>1, Arithmetic, FrameBufferAssumption DEF Backlog, Entry, Distance, Slot
  <2> QED
    BY <2>1, <1>2 DEF TypeOK
<1>4. /\ Backlog' = Backlog - 1
      /\ \A i \in Slot : i < Backlog' => i + 1 \in Slot /\ Entry(i)' = Entry(i + 1)
      /\ writeBuf' = Entry(0)
  <2>1. Backlog' = Backlog - 1 /\ Plus(readCur, 0) = readCur
    BY <1>1, <1>2, <1>3, TakeCursor DEF TypeOK
  <2>2. \A i \in Slot : i < Backlog' => i + 1 \in Slot /\ Entry(i)' = Entry(i + 1)
    BY <1>1, <1>2, <1>3, <2>1, TakeCursor DEF TypeOK
  <2>3. writeBuf' = Entry(0)
    BY <1>1, <2>1 DEF Take
  <2> QED
    BY <2>1, <2>2, <2>3
<1>5. sent' = sent /\ input' = input /\ arrived' = arrived /\ rpc' = rpc
  BY DEF Take, stream, output
<1>6. Ascending'
  BY <1>1, <1>3, <1>4 DEF Ascending, Order, Slot
<1>7. Arrived'
  BY <1>1, <1>2, <1>3, <1>4, <1>5 DEF Arrived, Order, Slot, Unpushed
<1>8. Newer'
  <2> SUFFICES ASSUME NEW i \in Slot, i < Backlog'
               PROVE  Entry(i)' > sent' /\ Entry(i)' > writeBuf'
    BY DEF Newer
  <2>1. i + 1 \in Slot /\ Entry(i)' = Entry(i + 1) /\ i + 1 < Backlog /\ 0 < i + 1
    BY <1>1, <1>4 DEF Slot
  <2>2. Entry(i + 1) > sent /\ Entry(i + 1) > Entry(0)
    <3>1. Entry(0) < Entry(i + 1)
      BY <1>1, <2>1 DEF Order, Ascending
    <3>2. Entry(0) \in Nat /\ Entry(i + 1) \in Nat
      BY <1>1, <2>1 DEF TypeOK
    <3> QED
      BY <2>1, <3>1, <3>2 DEF Order, Newer
  <2> QED
    BY <1>4, <1>5, <2>1, <2>2
<1>9. RunOK' /\ OnePath'
  BY <1>1, <1>2, <1>5, FrameBufferAssumption DEF Order, RunOK, OnePath, Take, Distance, TypeOK, Slot
<1>10. Held'
  BY <1>1, <1>2, <1>4, <1>5 DEF Order, Held, Newer
<1> QED
  BY <1>6, <1>7, <1>8, <1>9, <1>10 DEF Order

\* flush() leaves nothing between the cursors.
LEMMA OrderFlush == TypeOK /\ Order /\ Flush => Order'
<1> SUFFICES ASSUME TypeOK, Order, Flush PROVE Order'
  OBVIOUS
<1>1. Backlog' = 0
  <2>1. writeCur' \in Slot /\ readCur' = writeCur' /\ Distance(writeCur', readCur') = 0
    BY FrameBufferAssumption DEF Flush, Distance, TypeOK, Slot
  <2> QED
    BY <2>1, Arithmetic, FrameBufferAssumption DEF Backlog, Slot
<1>2. Ascending' /\ Newer'
  BY <1>1 DEF Ascending, Newer, Slot
<1>3. Arrived'
  BY <1>1 DEF Flush, Order, Arrived, Unpushed, Slot, stream, output
<1>4. RunOK' /\ OnePath' /\ Held'
  BY DEF Flush, Order, RunOK, OnePath, Held, stream, output
<1> QED
  BY <1>2, <1>3, <1>4 DEF Order

Idle == \/ Arrive \/ Drain \/ RunRead \/ NotifyAndFlush \/ BypassCopy \/ BypassSwap
        \/ WorkerStops \/ Doze \/ FallAsleep \/ SwapOut \/ SpuriousWake
        \/ DoStart \/ StopStreams \/ DoStop \/ UNCHANGED vars

\* The other steps leave the ring and the cursors alone.
LEMMA OrderIdle == TypeOK /\ Order /\ Idle => Order'
<1> SUFFICES ASSUME TypeOK, Order, Idle PROVE Order'
  OBVIOUS
<1> USE DEF stream, cursor, output, stops
<1>1. ring' = ring /\ writeCur' = writeCur /\ readCur' = readCur /\ bypass' = bypass
  BY DEF Idle, Arrive, Drain, RunRead, NotifyAndFlush, BypassCopy, BypassSwap, WorkerStops, Doze, FallAsleep,
         SwapOut, SpuriousWake, DoStart, StopStreams, DoStop, StopWorker, StopNotify, JoinBoth, vars
<1>2. Backlog' = Backlog /\ \A i \in Slot : Entry(i)' = Entry(i)
  BY <1>1 DEF Backlog, Entry
<1>3. \A i \in Slot : Entry(i) \in Nat
  BY Cursors DEF TypeOK
<1>4. ~bypass \/ Backlog = 0
  BY Cursors DEF Order, OnePath, Distance, TypeOK, Slot
<1>5. Ascending'
  BY <1>2 DEF Order, Ascending
<1>6. CASE Arrive
  <2>1. Arrived'
    <3>1. arrived' = arrived + 1 /\ input' = arrived'
      BY <1>6 DEF Arrive
    <3>2. ASSUME NEW i \in Slot, i < Backlog' PROVE Entry(i)' <= arrived' /\ Entry(i)' < input'
      BY <1>2, <1>3, <3>1, <3>2 DEF Order, Arrived, TypeOK
    <3>3. sent' < input' /\ writeBuf' < input' /\ sent' <= arrived' /\ writeBuf' <= arrived'
      BY <1>6, <3>1 DEF Arrive, Order, Arrived, TypeOK
    <3> QED
      BY <3>2, <3>3 DEF Arrived
  <2>2. Newer'
    BY <1>2, <1>6 DEF Arrive, Order, Newer
  <2>3. RunOK' /\ OnePath' /\ Held'
    BY <1>6 DEF Arrive, Order, RunOK, OnePath, Held, TypeOK, None
  <2> QED
    BY <1>5, <2>1, <2>2, <2>3 DEF Order
<1>7. CASE NotifyAndFlush
  <2>1. Arrived' /\ Newer'
    BY <1>2, <1>7 DEF NotifyAndFlush, Wake, Order, Arrived, Newer, Unpushed
  <2>2. RunOK' /\ OnePath' /\ Held'
    BY <1>7 DEF NotifyAndFlush, Wake, Order, RunOK, OnePath, Held
  <2> QED
    BY <1>5, <2>1, <2>2 DEF Order
<1>8. CASE BypassCopy
  <2>1. bypass /\ Backlog = 0 /\ input = arrived /\ sent < writeBuf'
    BY <1>4, <1>8 DEF BypassCopy, Order, OnePath, RunOK, Arrived, Unpushed, TypeOK
  <2>2. Arrived' /\ Newer'
    BY <1>2, <1>8, <2>1 DEF BypassCopy, Order, Arrived, Newer, Unpushed, Slot, TypeOK
  <2>3. RunOK' /\ OnePath' /\ Held'
    BY <1>8, <2>1 DEF BypassCopy, Order, RunOK, OnePath, Held
  <2> QED
    BY <1>5, <2>2, <2>3 DEF Order
<1>9. CASE BypassSwap \/ SwapOut
  <2>1. Arrived'
    BY <1>2, <1>9 DEF BypassSwap, SwapOut, Swap, Order, Arrived, Unpushed
  <2>2. Newer'
    BY <1>2, <1>4, <1>9 DEF BypassSwap, SwapOut, Swap, Order, Newer, OnePath, Slot
  <2>3. RunOK' /\ OnePath' /\ Held'
    BY <1>9 DEF BypassSwap, SwapOut, Swap, Order, RunOK, OnePath, Held
  <2> QED
    BY <1>5, <2>1, <2>2, <2>3 DEF Order
<1>10. CASE Drain \/ RunRead
  <2>1. Arrived' /\ Newer'
    BY <1>2, <1>10 DEF Drain, RunRead, Order, Arrived, Newer, Unpushed
  <2>2. RunOK' /\ OnePath' /\ Held'
    BY <1>10 DEF Drain, RunRead, Order, RunOK, OnePath, Held
  <2> QED
    BY <1>5, <2>1, <2>2 DEF Order
<1>11. CASE WorkerStops \/ Doze \/ FallAsleep \/ SpuriousWake \/ DoStart \/ StopStreams \/ DoStop \/ UNCHANGED vars
  <2>1. /\ input' = input /\ arrived' = arrived /\ sent' = sent /\ writeBuf' = writeBuf
        /\ wpc' = "swap" => wpc = "swap"
        /\ rpc' = rpc \/ (rpc # "notify" /\ rpc' \in {"read", "none"})
        /\ ctl' = "down" => rpc' = "none"
    BY <1>11 DEF Order, RunOK, WorkerStops, Doze, FallAsleep, SpuriousWake, Wake, DoStart, StopStreams, DoStop,
                 StopWorker, StopNotify, JoinBoth, vars
  <2>2. Arrived' /\ Newer'
    BY <1>2, <2>1 DEF Order, Arrived, Newer, Unpushed
  <2>3. RunOK' /\ OnePath' /\ Held'
    BY <1>1, <2>1 DEF Order, RunOK, OnePath, Held
  <2> QED
    BY <1>5, <2>2, <2>3 DEF Order
<1> QED
  BY <1>6, <1>7, <1>8, <1>9, <1>10, <1>11 DEF Idle

LEMMA Inductive == IInv /\ [Next]_vars => IInv'
<1> SUFFICES ASSUME IInv, [Next]_vars PROVE IInv'
  OBVIOUS
<1>1. TypeOK'
  BY Types DEF IInv
<1>2. ASSUME ~toggled' PROVE Order'
  <2>1. CASE Push
    BY <1>1, <1>2, <2>1, OrderPush DEF IInv, Push
  <2>2. CASE Take
    BY <1>1, <1>2, <2>2, OrderTake DEF IInv, Take
  <2>3. CASE Flush
    BY <1>2, <2>3, OrderFlush DEF IInv, Flush
  <2>4. CASE SetBypass
    BY <1>2, <2>4 DEF SetBypass
  <2>5. CASE Idle
    <3>1. ~toggled
      BY <1>2, <2>5 DEF Idle, Arrive, Drain, RunRead, NotifyAndFlush, BypassCopy, BypassSwap, WorkerStops, Doze,
         FallAsleep, SwapOut, SpuriousWake, DoStart, StopStreams, DoStop, StopWorker, StopNotify, JoinBoth, vars
    <3> QED
      BY <2>5, <3>1, OrderIdle DEF IInv
  <2> QED
    BY <2>1, <2>2, <2>3, <2>4, <2>5 DEF Next, Run, Worker, Idle
<1> QED
  BY <1>1, <1>2 DEF IInv

-----------------------------------------------------------------------------
(* The theorems.                                                           *)

\* Whatever is pushed, lapped, flushed, stopped and started, what is between the
\* cursors is newer than all that left the ring, for every size of the ring.
THEOREM Backlogged == Spec => []BacklogIsNew
<1>1. IInv => BacklogIsNew
  BY DEF IInv, Order, Newer, BacklogIsNew, Entry, Slot
<1> QED
  BY <1>1, OrderInit, Inductive, PTL DEF Spec

\* Frames leave in the order of their arrival and never twice.
THEOREM Ordered == Spec => InOrder
<1>1. IInv /\ [Next]_vars => [sent' # sent /\ ~toggled => sent' > sent]_vars
  <2> SUFFICES ASSUME IInv, Next, sent' # sent, ~toggled PROVE sent' > sent
    BY DEF vars, output
  <2>1. (rpc = "swap" \/ wpc = "swap") /\ sent' = writeBuf
    BY DEF Next, Arrive, Drain, Run, RunRead, Push, NotifyAndFlush, BypassCopy, BypassSwap, Worker, WorkerStops,
           Take, Doze, FallAsleep, SwapOut, Swap, SpuriousWake, Flush, SetBypass, DoStart, StopStreams, DoStop,
           StopWorker, StopNotify, JoinBoth, output
  <2> QED
    BY <2>1 DEF IInv, Order, Held, TypeOK
<1> QED
  BY <1>1, OrderInit, Inductive, PTL DEF Spec, InOrder

-----------------------------------------------------------------------------
(* The splitter and its branches: the invariant.                           *)

Typed == /\ produced \in Nat /\ incoming \in Nat /\ cut \in Nat
         /\ streams \in Seq(Branch) /\ todo \in Seq(Branch)
         /\ outputs \subseteq Branch /\ alive \subseteq Branch /\ arg \in Branch
         /\ lastSent \in [Branch -> Nat]
         /\ running \in BOOLEAN

\* What is bound is an output, exists, and is bound once.
Bound == /\ \A i, j \in 1..Len(streams) : streams[i] = streams[j] => i = j
         /\ ToSet(streams) = outputs /\ outputs \subseteq alive

\* What each operation has established on its way.
Stopping == {"halt", "outputs", "join", "edit"}
CallOK == /\ op = "add" /\ at \in Stopping => arg \in alive \ outputs
          /\ op = "remove" /\ at = "delete" => arg \notin outputs
          /\ at \in {"outputs", "join"} => running
          /\ at = "edit" => spc = "none"
          /\ ~running => spc = "none"

\* No frame is newer than the last that came in.
Frames == /\ incoming \in {NoFrame, produced} /\ cut <= produced
          /\ \A b \in Branch : lastSent[b] <= produced

Agree(from) == \A i, j \in from..Len(streams) :
                   lastSent[streams[i]] > cut => lastSent[streams[j]] = lastSent[streams[i]]

\* While a frame is handed out, the worker has left the last ones of the list.
Served == Len(streams) - Len(todo)
Serving == spc = "deliver" => /\ incoming # NoFrame
                              /\ Len(todo) <= Len(streams)
                              /\ \A i \in 1..Len(todo) : todo[i] = streams[Served + i]
                              /\ \A i \in 1..Served : lastSent[streams[i]] = incoming
                              /\ Agree(Served + 1)
Waiting == /\ spc = "read" => Agree(1)
           /\ spc # "deliver" => todo = <<>>
           /\ spc = "none" => \A b \in Branch : lastSent[b] <= cut

FrontInv == Typed /\ Bound /\ CallOK /\ Frames /\ Serving /\ Waiting

-----------------------------------------------------------------------------
\* Two parts of a sequence that leave out one place between them.
LEMMA Gap == ASSUME NEW S, NEW s \in Seq(S), NEW k \in 1..Len(s), NEW front \in Seq(S), NEW back \in Seq(S),
                    Len(front) = k - 1, \A i \in 1..k-1 : front[i] = s[i],
                    Len(back) = Len(s) - k, \A i \in 1..Len(s)-k : back[i] = s[k + i]
             PROVE  /\ front \o back \in Seq(S) /\ Len(front \o back) = Len(s) - 1
                    /\ \A i \in 1..Len(s)-1 : (front \o back)[i] = s[IF i < k THEN i ELSE i + 1]
<1>1. Len(s) \in Nat /\ k \in Int /\ k >= 1
  OBVIOUS
<1>2. front \o back \in Seq(S) /\ Len(front \o back) = Len(front) + Len(back)
  BY ConcatProperties
<1>3. Len(front \o back) = Len(s) - 1
  BY <1>1, <1>2
<1>4. ASSUME NEW i \in 1..Len(s)-1 PROVE (front \o back)[i] = s[IF i < k THEN i ELSE i + 1]
  <2>1. i \in 1..Len(front) + Len(back) /\ i \in Int
    BY <1>1
  <2>2. (front \o back)[i] = IF i <= Len(front) THEN front[i] ELSE back[i - Len(front)]
    BY <2>1, ConcatProperties
  <2>3. CASE i < k
    BY <1>1, <2>1, <2>2, <2>3
  <2>4. CASE i >= k
    <3>1. i - (k - 1) \in 1..Len(s)-k /\ k + (i - (k - 1)) = i + 1 /\ ~(i < k) /\ ~(i <= k - 1)
      BY <1>1, <2>1, <2>4
    <3> QED
      BY <2>2, <3>1
  <2> QED
    BY <2>1, <2>3, <2>4, <1>1
<1> QED
  BY <1>2, <1>3, <1>4

\* A sequence without one of its places.
LEMMA Without == ASSUME NEW S, NEW s \in Seq(S), NEW k \in 1..Len(s)
             PROVE  /\ RemoveAt(s, k) \in Seq(S) /\ Len(RemoveAt(s, k)) = Len(s) - 1
                    /\ \A i \in 1..Len(s)-1 : RemoveAt(s, k)[i] = s[IF i < k THEN i ELSE i + 1]
<1> DEFINE front == SubSeq(s, 1, k - 1)
           back  == SubSeq(s, k + 1, Len(s))
<1>1. Len(s) \in Nat /\ k \in Int
  OBVIOUS
<1>2. front \in Seq(S) /\ Len(front) = k - 1 /\ \A i \in 1..k-1 : front[i] = s[i]
  BY <1>1
<1>3. back \in Seq(S) /\ Len(back) = Len(s) - k /\ \A i \in 1..Len(s)-k : back[i] = s[k + i]
  BY <1>1
<1> HIDE DEF front, back
<1>4. /\ front \o back \in Seq(S) /\ Len(front \o back) = Len(s) - 1
      /\ \A i \in 1..Len(s)-1 : (front \o back)[i] = s[IF i < k THEN i ELSE i + 1]
  <2>1. front \in Seq(S) /\ back \in Seq(S)
    BY <1>2, <1>3
  <2>2. Len(front) = k - 1 /\ \A i \in 1..k-1 : front[i] = s[i]
    BY <1>2
  <2>3. Len(back) = Len(s) - k /\ \A i \in 1..Len(s)-k : back[i] = s[k + i]
    BY <1>3
  <2> QED
    BY ONLY <2>1, <2>2, <2>3, Gap
<1> QED
  BY <1>4 DEF RemoveAt, front, back

\* The first occurrence is the only one.
LEMMA Removed == ASSUME NEW S, NEW s \in Seq(S), NEW e, \A i, j \in 1..Len(s) : s[i] = s[j] => i = j
                 PROVE  /\ RemoveFirst(s, e) \in Seq(S)
                        /\ ToSet(RemoveFirst(s, e)) = ToSet(s) \ {e}
                        /\ \A i, j \in 1..Len(RemoveFirst(s, e)) :
                               RemoveFirst(s, e)[i] = RemoveFirst(s, e)[j] => i = j
<1> DEFINE r == RemoveFirst(s, e)
<1>1. CASE \A i \in 1..Len(s) : s[i] # e
  <2>1. r = s
    BY <1>1 DEF RemoveFirst
  <2> QED
    BY <1>1, <2>1 DEF ToSet
<1>2. CASE \E i \in 1..Len(s) : s[i] = e
  <2>1. PICK k \in 1..Len(s) : s[k] = e
    BY <1>2
  <2>2. {i \in 1..Len(s) : s[i] = e} = {k}
    BY <2>1
  <2>3. SelectInSeq(s, LAMBDA v : v = e) = k
    BY <2>2 DEF SelectInSeq, Min
  <2>4. r = RemoveAt(s, k)
    BY <1>2, <2>3 DEF RemoveFirst
  <2>5. /\ r \in Seq(S) /\ Len(r) = Len(s) - 1
        /\ \A i \in 1..Len(r) : r[i] = s[IF i < k THEN i ELSE i + 1]
    <3>1. /\ RemoveAt(s, k) \in Seq(S) /\ Len(RemoveAt(s, k)) = Len(s) - 1
          /\ \A i \in 1..Len(s)-1 : RemoveAt(s, k)[i] = s[IF i < k THEN i ELSE i + 1]
      BY Without
    <3> HIDE DEF r
    <3> QED
      BY <2>4, <3>1
  <2>6. \A x : x \in ToSet(r) => x \in ToSet(s) /\ x # e
    BY <2>1, <2>5 DEF ToSet
  <2>7. ASSUME NEW x \in ToSet(s), x # e PROVE x \in ToSet(r)
    <3>1. PICK i \in 1..Len(s) : s[i] = x
      BY DEF ToSet
    <3>2. CASE i < k
      <4>1. i \in 1..Len(r) /\ r[i] = x
        BY <3>1, <3>2, <2>5
      <4> QED
        BY <4>1, <2>5 DEF ToSet
    <3>3. CASE i > k
      <4>1. i - 1 \in 1..Len(r) /\ r[i - 1] = x
        BY <3>1, <3>3, <2>5
      <4> QED
        BY <4>1, <2>5 DEF ToSet
    <3> QED
      BY <3>1, <3>2, <3>3, <2>1, <2>7
  <2> HIDE DEF r
  <2>8. r \in Seq(S) /\ ToSet(r) = ToSet(s) \ {e} /\ \A i, j \in 1..Len(r) : r[i] = r[j] => i = j
    BY <2>5, <2>6, <2>7
  <2> QED
    BY <2>8 DEF r
<1> QED
  BY <1>1, <1>2

\* A new stream at the end.
LEMMA Appended == ASSUME NEW S, NEW s \in Seq(S), NEW e \in S, e \notin ToSet(s),
                         \A i, j \in 1..Len(s) : s[i] = s[j] => i = j
                  PROVE  /\ Append(s, e) \in Seq(S)
                         /\ ToSet(Append(s, e)) = ToSet(s) \cup {e}
                         /\ \A i, j \in 1..Len(Append(s, e)) : Append(s, e)[i] = Append(s, e)[j] => i = j
<1>1. /\ Append(s, e) \in Seq(S) /\ Len(Append(s, e)) = Len(s) + 1
      /\ \A i \in 1..Len(s) : Append(s, e)[i] = s[i]
      /\ Append(s, e)[Len(s) + 1] = e
  BY AppendProperties
<1>2. ToSet(Append(s, e)) = ToSet(s) \cup {e}
  <2>1. \A x : x \in ToSet(Append(s, e)) => x \in ToSet(s) \cup {e}
    BY <1>1 DEF ToSet
  <2>2. ASSUME NEW x \in ToSet(s) PROVE x \in ToSet(Append(s, e))
    <3>1. PICK i \in 1..Len(s) : s[i] = x
      BY DEF ToSet
    <3>2. i \in 1..Len(Append(s, e)) /\ Append(s, e)[i] = x
      BY <1>1, <3>1
    <3> QED
      BY <1>1, <3>2 DEF ToSet
  <2>3. e \in ToSet(Append(s, e))
    BY <1>1 DEF ToSet
  <2> QED
    BY <2>1, <2>2, <2>3
<1> QED
  BY <1>1, <1>2 DEF ToSet

-----------------------------------------------------------------------------
\* A front end just initialised satisfies the invariant: the FFT branch is bound,
\* the splitter has not been started (iq_frontend.cpp init).
LEMMA FrontStarts == FrontInit => FrontInv
<1> SUFFICES ASSUME FrontInit PROVE FrontInv
  OBVIOUS
<1>1. <<FFT>> \in Seq(Branch) /\ Len(<<FFT>>) = 1 /\ <<FFT>>[1] = FFT
  BY DEF Branch
<1>2. Typed
  <2>1. lastSent \in [Branch -> Nat] /\ FFT \in Branch
    BY DEF FrontInit, NoFrame, Branch
  <2>2. <<>> \in Seq(Branch)
    OBVIOUS
  <2> QED
    BY <1>1, <2>1, <2>2 DEF FrontInit, Typed, NoFrame
<1>3. Bound
  BY <1>1 DEF FrontInit, Bound, ToSet
<1>4. CallOK /\ Frames /\ Serving /\ Waiting
  BY <1>1 DEF FrontInit, CallOK, Stopping, Frames, Serving, Waiting, Agree, NoFrame
<1> QED
  BY <1>2, <1>3, <1>4 DEF FrontInv

\* What the invariant speaks of, apart from the operation in progress.
subject == <<produced, incoming, streams, outputs, lastSent, alive, running, spc, todo, cut>>

\* An operation goes on or returns; nothing else moves.
LEMMA Unmoved == ASSUME FrontInv, UNCHANGED subject, arg' \in Branch,
                        op' = "add" /\ at' \in Stopping => op = "add" /\ at \in Stopping /\ arg' = arg,
                        op' = "remove" /\ at' = "delete" => op = "remove" /\ at = "delete" /\ arg' = arg,
                        at' \in {"outputs", "join"} => running,
                        at' = "edit" => spc = "none"
                 PROVE  FrontInv'
<1>1. Typed' /\ Bound' /\ Frames'
  BY DEF FrontInv, Typed, Bound, Frames, subject
<1>2. CallOK'
  BY DEF FrontInv, CallOK, subject
<1>3. Served' = Served /\ (Agree(1) => Agree(1)') /\ (Agree(Served + 1) => Agree(Served + 1)')
  BY DEF Served, Agree, subject
<1>4. Serving' /\ Waiting'
  BY <1>3 DEF FrontInv, Serving, Waiting, subject, Served
<1> QED
  BY <1>1, <1>2, <1>4 DEF FrontInv

\* A frame comes in while the worker waits: it is newer than all that was
\* delivered (stream.h swap).
LEMMA ProduceStep == ASSUME FrontInv, Produce PROVE FrontInv'
<1> USE DEF Produce, splitter, worker, branches, stopFlags, control, FrontInv
<1>1. Typed' /\ Bound' /\ CallOK'
  BY DEF Typed, Bound, CallOK
<1>2. Frames'
  BY DEF Frames, Typed
<1>3. spc # "deliver"
  BY DEF Serving
<1>4. Agree(1) => Agree(1)'
  BY DEF Agree
<1>5. Serving' /\ Waiting'
  BY <1>3, <1>4 DEF Serving, Waiting
<1> QED
  BY <1>1, <1>2, <1>5

\* Consumers take from the branches, or stall: nothing the invariant is about.
LEMMA NeighbourStep == ASSUME FrontInv, (\E b \in Branch : Consume(b)) \/ (\E b \in Stalling : Stall(b))
                       PROVE  FrontInv'
<1>1. UNCHANGED subject /\ UNCHANGED control
  BY DEF Consume, Stall, subject, source, splitter, worker, control
<1> QED
  BY <1>1, Unmoved DEF FrontInv, CallOK, Typed, control

-----------------------------------------------------------------------------
(* The worker                                                              *)

\* run() picks up a frame: no branch has it yet, and all have the same one.
LEMMA ReadInputStep == ASSUME FrontInv, ReadInput PROVE FrontInv'
<1> USE DEF ReadInput, source, splitter, branches, stopFlags, control, FrontInv
<1>1. Typed'
  BY DEF Typed
<1>2. Bound' /\ CallOK' /\ Frames'
  BY DEF Bound, CallOK, Frames
<1>3. ASSUME spc' = "deliver" PROVE Serving'
  <2>1. /\ incoming # NoFrame /\ todo' = streams /\ UNCHANGED <<incoming, streams, lastSent, cut>>
        /\ spc = "read"
    BY <1>3
  <2>2. Len(streams) \in Nat
    BY DEF Typed
  <2>3. Served' = 0
    BY <2>1, <2>2 DEF Served
  <2>4. Agree(1)'
    BY <2>1 DEF Waiting, Agree
  <2> QED
    BY <2>1, <2>2, <2>3, <2>4 DEF Serving
<1>4. Serving' /\ Waiting'
  BY <1>3 DEF Serving, Waiting
<1> QED
  BY <1>1, <1>2, <1>4

\* run() hands the frame to the next branch, which joins those that have it
\* because no stream is bound twice (splitter.h run).
LEMMA DeliverStep == ASSUME FrontInv, Deliver PROVE FrontInv'
<1> USE DEF FrontInv
<1> DEFINE b == Head(todo)
<1>1. /\ spc = "deliver" /\ spc' = "deliver" /\ todo # <<>> /\ todo' = Tail(todo)
      /\ lastSent' = [lastSent EXCEPT ![b] = incoming]
      /\ UNCHANGED <<produced, incoming, cut, streams, outputs, alive, running, op, at, arg>>
  BY DEF Deliver, source, splitter, stopFlags, control
<1>2. /\ Len(todo) \in Nat \ {0} /\ Len(streams) \in Nat /\ Len(todo) <= Len(streams)
      /\ \A i \in 1..Len(streams) : streams[i] \in Branch
      /\ todo' \in Seq(Branch) /\ Len(todo') = Len(todo) - 1
      /\ \A i \in 1..Len(todo') : todo'[i] = todo[i + 1]
      /\ b = todo[1] /\ b \in Branch
  BY <1>1 DEF Typed, Serving
<1> HIDE DEF b
<1>3. /\ Served \in Nat /\ Served + 1 \in 1..Len(streams) /\ Served' = Served + 1
      /\ b = streams[Served + 1]
  BY <1>1, <1>2 DEF Served, Serving
<1>4. \A i \in 1..Len(streams) : /\ i # Served + 1 => lastSent'[streams[i]] = lastSent[streams[i]]
                                 /\ i = Served + 1 => lastSent'[streams[i]] = incoming
  BY <1>1, <1>2, <1>3 DEF Bound, Typed
<1>5. Typed'
  BY <1>1, <1>2 DEF Typed
<1>6. Bound' /\ CallOK'
  BY <1>1 DEF Bound, CallOK
<1>7. Frames'
  BY <1>1 DEF Frames, Serving, Typed
<1>8. Serving'
  <2>1. \A i \in 1..Len(todo') : todo'[i] = streams[Served' + i]
    BY <1>1, <1>2, <1>3 DEF Serving
  <2>2. \A i \in 1..Served' : lastSent'[streams[i]] = incoming
    <3> TAKE i \in 1..Served'
    <3>1. i \in 1..Len(streams) /\ (i = Served + 1 \/ i \in 1..Served)
      BY <1>2, <1>3
    <3> QED
      BY <1>1, <1>4, <3>1, <1>3 DEF Serving
  <2>3. Agree(Served + 1)
    BY <1>1 DEF Serving
  <2>4. Agree(Served + 1)'
    <3>1. \A i \in Served'+1..Len(streams) : i \in 1..Len(streams) /\ i # Served + 1 /\ i \in Served+1..Len(streams)
      BY <1>2, <1>3
    <3>2. \A i \in Served'+1..Len(streams) : lastSent'[streams[i]] = lastSent[streams[i]]
      BY <1>4, <3>1
    <3>3. UNCHANGED <<streams, cut>>
      BY <1>1
    <3> SUFFICES ASSUME NEW i \in Served'+1..Len(streams), NEW j \in Served'+1..Len(streams),
                        lastSent'[streams[i]] > cut
                 PROVE  lastSent'[streams[j]] = lastSent'[streams[i]]
      BY <3>3, <1>3 DEF Agree
    <3> QED
      BY <2>3, <3>1, <3>2 DEF Agree
  <2>5. Len(todo') <= Len(streams)
    BY <1>2
  <2> QED
    BY <1>1, <2>1, <2>2, <2>4, <2>5 DEF Serving
<1>9. Waiting'
  BY <1>1 DEF Waiting
<1> QED
  BY <1>5, <1>6, <1>7, <1>8, <1>9

\* run() ends in the middle of the list: some branches keep a frame that the
\* others do not get, which Join will put behind cut (splitter.h run).
LEMMA GiveUpStep == ASSUME FrontInv, GiveUp PROVE FrontInv'
<1> USE DEF GiveUp, splitter, branches, stopFlags, control, FrontInv
<1>1. Typed' /\ Bound' /\ CallOK' /\ Frames'
  BY DEF Typed, Bound, CallOK, Frames, NoFrame
<1>2. Serving' /\ Waiting'
  BY DEF Serving, Waiting
<1> QED
  BY <1>1, <1>2

\* run() has served the whole list: every branch has the frame.
LEMMA FlushInputStep == ASSUME FrontInv, FlushInput PROVE FrontInv'
<1> USE DEF FlushInput, splitter, branches, stopFlags, control, FrontInv
<1>1. Typed' /\ Bound' /\ CallOK' /\ Frames'
  BY DEF Typed, Bound, CallOK, Frames, NoFrame
<1>2. Agree(1)'
  <2>1. Served = Len(streams) /\ Len(streams) \in Nat
    BY DEF Served, Typed
  <2> QED
    BY <2>1 DEF Serving, Agree
<1>3. Serving' /\ Waiting'
  BY <1>2 DEF Serving, Waiting
<1> QED
  BY <1>1, <1>3

-----------------------------------------------------------------------------
(* The operations                                                          *)

\* At a place where the worker is gone, all that was delivered is cut off.
LEMMA CutOff == ASSUME FrontInv, \A b \in Branch : lastSent[b] <= cut,
                       streams' \in Seq(Branch), UNCHANGED <<lastSent, cut>>
                PROVE  Agree(1)'
<1>1. \A i \in 1..Len(streams') : streams'[i] \in Branch
  OBVIOUS
<1>2. \A b \in Branch : ~(lastSent[b] > cut)
  BY DEF FrontInv, Typed
<1> QED
  BY <1>1, <1>2 DEF Agree

\* doStop() has joined the worker: all that was delivered came in before cut
\* (block.h doStop).
LEMMA JoinStep == ASSUME FrontInv, Join PROVE FrontInv'
<1> USE DEF Join, source, splitter, branches, FrontInv
<1>1. Typed' /\ Bound' /\ CallOK' /\ Frames'
  BY DEF Typed, Bound, CallOK, Frames, Stopping
<1>2. Serving' /\ Waiting'
  BY DEF Serving, Waiting, Frames
<1> QED
  BY <1>1, <1>2

\* start() of the splitter; a second one finds it running (block.h start).
LEMMA StartSplitStep == ASSUME FrontInv, StartSplit PROVE FrontInv'
<1> USE DEF StartSplit, Step, source, branches, stopFlags, FrontInv
<1>1. Typed' /\ Bound' /\ CallOK' /\ Frames'
  BY DEF Typed, Bound, CallOK, Frames, Stopping
<1>2. CASE running
  <2>1. Served' = Served /\ (Agree(1) => Agree(1)') /\ (Agree(Served + 1) => Agree(Served + 1)')
    BY <1>2 DEF Served, Agree
  <2> QED
    BY <1>1, <1>2, <2>1 DEF Serving, Waiting, Served
<1>3. CASE ~running
  <2>1. spc = "none" /\ streams' \in Seq(Branch)
    BY <1>3 DEF CallOK, Typed
  <2>2. Agree(1)'
    BY <2>1, CutOff DEF Waiting
  <2> QED
    BY <1>1, <1>3, <2>1, <2>2 DEF Serving, Waiting
<1> QED
  BY <1>2, <1>3 DEF Typed

\* stop() has ended the worker and clears running (block.h stop).
LEMMA StopBranchesStep == ASSUME FrontInv, StopBranches PROVE FrontInv'
<1> USE DEF StopBranches, Return, source, worker, stopFlags, FrontInv
<1>1. Typed' /\ Bound' /\ CallOK' /\ Frames'
  BY DEF Typed, Bound, CallOK, Frames, Stopping, Branch
<1>2. Serving' /\ Waiting'
  BY DEF Serving, Waiting, CallOK
<1> QED
  BY <1>1, <1>2

\* bindStream() registers a stream that was not bound, with the worker gone
\* (splitter.h bindStream).
LEMMA BindStreamStep == ASSUME FrontInv, BindStream PROVE FrontInv'
<1> USE DEF BindStream, Step, source, branches, stopFlags, FrontInv
<1>1. /\ spc = "none" /\ arg \in alive \ outputs /\ arg \in Branch /\ arg \notin ToSet(streams)
  BY DEF CallOK, Stopping, Typed, Bound
<1>2. /\ streams' \in Seq(Branch) /\ ToSet(streams') = outputs \cup {arg}
      /\ \A i, j \in 1..Len(streams') : streams'[i] = streams'[j] => i = j
  BY <1>1, Appended DEF Typed, Bound
<1>3. Typed' /\ Bound' /\ CallOK' /\ Frames'
  BY <1>1, <1>2 DEF Typed, Bound, CallOK, Frames, Stopping, Restart
<1>4. Agree(1)'
  BY <1>1, <1>2, CutOff DEF Waiting
<1>5. Serving' /\ Waiting'
  BY <1>1, <1>4 DEF Serving, Waiting, Restart
<1> QED
  BY <1>3, <1>5

\* unbindStream() takes the stream off both lists, with the worker gone
\* (splitter.h unbindStream).
LEMMA UnbindStreamStep == ASSUME FrontInv, UnbindStream PROVE FrontInv'
<1> USE DEF UnbindStream, Step, source, branches, stopFlags, FrontInv
<1>1. spc = "none"
  BY DEF CallOK
<1>2. /\ streams' \in Seq(Branch) /\ ToSet(streams') = outputs \ {arg}
      /\ \A i, j \in 1..Len(streams') : streams'[i] = streams'[j] => i = j
  BY Removed DEF Typed, Bound
<1>3. Typed' /\ Bound' /\ CallOK' /\ Frames'
  BY <1>1, <1>2 DEF Typed, Bound, CallOK, Frames, Stopping, Restart
<1>4. Agree(1)'
  BY <1>1, <1>2, CutOff DEF Waiting
<1>5. Serving' /\ Waiting'
  BY <1>1, <1>4 DEF Serving, Waiting, Restart
<1> QED
  BY <1>3, <1>5

\* The stream of the VFO is no longer bound.
LEMMA DeleteVFOStep == ASSUME FrontInv, DeleteVFO PROVE FrontInv'
<1> USE DEF DeleteVFO, Return, source, splitter, worker, stopFlags, FrontInv
<1>1. arg \notin outputs /\ \A i \in 1..Len(streams) : streams[i] # arg
  BY DEF CallOK, Bound, ToSet
<1>2. Typed'
  BY DEF Typed, NoFrame, Branch
<1>3. Bound' /\ CallOK' /\ Frames'
  BY <1>1 DEF Typed, Bound, CallOK, Frames, Stopping, NoFrame
<1>4. \A i \in 1..Len(streams) : lastSent'[streams[i]] = lastSent[streams[i]]
  BY <1>1 DEF Typed
<1>5. Served' = Served /\ Served \in Int
  BY DEF Served, Typed
<1>6. Agree(1) => Agree(1)'
  BY <1>4 DEF Agree, Typed
<1>7. spc = "deliver" => Agree(Served + 1)' /\ \A i \in 1..Served : lastSent'[streams[i]] = incoming
  <2> SUFFICES ASSUME spc = "deliver" PROVE Agree(Served + 1)' /\ \A i \in 1..Served : lastSent'[streams[i]] = incoming
    OBVIOUS
  <2>1. \A i : (i \in Served+1..Len(streams) \/ i \in 1..Served) => i \in 1..Len(streams)
    BY DEF Serving, Typed, Served
  <2>2. Agree(Served + 1) /\ \A i \in 1..Served : lastSent[streams[i]] = incoming
    BY DEF Serving
  <2>3. Agree(Served + 1)'
    <3>1. UNCHANGED <<streams, cut>>
      OBVIOUS
    <3> SUFFICES ASSUME NEW i \in Served+1..Len(streams), NEW j \in Served+1..Len(streams),
                        lastSent'[streams[i]] > cut
                 PROVE  lastSent'[streams[j]] = lastSent'[streams[i]]
      BY <1>5, <3>1 DEF Agree
    <3> QED
      BY <1>4, <2>1, <2>2 DEF Agree
  <2> QED
    BY <1>4, <2>1, <2>2, <2>3
<1>8. \A b \in Branch : lastSent'[b] = lastSent[b] \/ lastSent'[b] = 0
  BY DEF Typed, NoFrame
<1>9. Serving' /\ Waiting'
  BY <1>5, <1>6, <1>7, <1>8 DEF Serving, Waiting, Typed
<1> QED
  BY <1>2, <1>3, <1>9

\* addVFO() creates the VFO and its stream, not yet bound (iq_frontend.cpp addVFO).
LEMMA AddVFOStep == ASSUME NEW b \in VFO, FrontInv, AddVFO(b) PROVE FrontInv'
<1> USE DEF AddVFO, Call, source, splitter, worker, stopFlags, FrontInv
<1>1. Typed' /\ Bound' /\ CallOK' /\ Frames'
  BY DEF Typed, Bound, CallOK, Frames, Stopping, Branch
<1>2. Served' = Served /\ (Agree(1) => Agree(1)') /\ (Agree(Served + 1) => Agree(Served + 1)')
  BY DEF Served, Agree
<1>3. Serving' /\ Waiting'
  BY <1>2 DEF Serving, Waiting, Served
<1> QED
  BY <1>1, <1>3

\* The operations that only move on, and those whose call comes first.
LEMMA MoveOn == ASSUME FrontInv, \/ StopInput \/ StopOutputs \/ StartBranches \/ StartVFO \/ ResumeBranches
                             \/ Start \/ Stop \/ SetSampleRate \/ \E b \in VFO : RemoveVFO(b)
                PROVE  FrontInv'
<1> USE DEF source, splitter, worker, branches, stopFlags, subject, Return, Call, Step
<1>1. CASE StopInput
  BY <1>1, Unmoved DEF StopInput, FrontInv, CallOK, Typed, Stopping
<1>2. CASE StopOutputs
  BY <1>2, Unmoved DEF StopOutputs, FrontInv, CallOK, Typed, Stopping
<1>3. CASE StartBranches \/ StartVFO \/ ResumeBranches
  BY <1>3, Unmoved DEF StartBranches, StartVFO, ResumeBranches, Branch
<1>4. CASE Start \/ Stop \/ SetSampleRate
  BY <1>4, Unmoved DEF Start, Stop, SetSampleRate, Branch
<1>5. CASE \E b \in VFO : RemoveVFO(b)
  BY <1>5, Unmoved DEF RemoveVFO, Branch
<1> QED
  BY <1>1, <1>2, <1>3, <1>4, <1>5

\* Every step of the front end preserves the invariant.
LEMMA FrontSteps == FrontInv /\ [FrontNext]_frontVars => FrontInv'
<1> SUFFICES ASSUME FrontInv, [FrontNext]_frontVars PROVE FrontInv'
  OBVIOUS
<1>1. CASE Produce \/ (\E b \in Branch : Consume(b)) \/ (\E b \in Stalling : Stall(b))
  BY <1>1, ProduceStep, NeighbourStep
<1>2. CASE RunSplitter
  BY <1>2, ReadInputStep, DeliverStep, GiveUpStep, FlushInputStep DEF RunSplitter
<1>3. CASE Start \/ Stop \/ SetSampleRate
  BY <1>3, MoveOn
<1>4. CASE \E b \in VFO : AddVFO(b) \/ RemoveVFO(b)
  BY <1>4, MoveOn, AddVFOStep
<1>5. CASE Continue
  BY <1>5, MoveOn, JoinStep, StartSplitStep, StopBranchesStep, BindStreamStep, UnbindStreamStep, DeleteVFOStep
     DEF Continue
<1>6. CASE UNCHANGED frontVars
  BY <1>6, Unmoved DEF frontVars, source, splitter, worker, branches, control, subject, FrontInv, CallOK, Typed
<1> QED
  BY <1>1, <1>2, <1>3, <1>4, <1>5, <1>6 DEF FrontNext

\* The worker only ever touches streams that exist and that doStop() would stop,
\* for any set of VFOs that come and go (splitter.h, iq_frontend.cpp removeVFO).
THEOREM LiveStreams == FrontSpec => []OnlyLiveStreams
<1>1. FrontInv => OnlyLiveStreams
  <2> SUFFICES ASSUME FrontInv PROVE ToSet(todo) \subseteq ToSet(streams)
    BY DEF FrontInv, Bound, OnlyLiveStreams
  <2>1. CASE spc = "deliver"
    <3>1. Len(todo) \in Nat /\ Len(streams) \in Nat /\ Len(todo) <= Len(streams)
      BY <2>1 DEF FrontInv, Typed, Serving
    <3> SUFFICES ASSUME NEW i \in 1..Len(todo) PROVE todo[i] \in ToSet(streams)
      BY <3>1 DEF ToSet, FrontInv, Typed
    <3>2. Served + i \in 1..Len(streams)
      BY <3>1 DEF Served
    <3>3. todo[i] = streams[Served + i]
      BY <2>1 DEF FrontInv, Serving
    <3> QED
      BY <3>2, <3>3 DEF ToSet, FrontInv, Typed
  <2>2. CASE spc # "deliver"
    BY <2>2 DEF FrontInv, Waiting, ToSet
  <2> QED
    BY <2>1, <2>2
<1> QED
  BY FrontStarts, FrontSteps, <1>1, PTL DEF FrontSpec

\* Branches that were given a frame since the worker last ended all have the same
\* one whenever the worker waits, for any set of VFOs (splitter.h run).
THEOREM KeepsStep == FrontSpec => []InStep
<1>1. FrontInv => InStep
  BY DEF FrontInv, Typed, Waiting, Agree, InStep, ToSet
<1> QED
  BY FrontStarts, FrontSteps, <1>1, PTL DEF FrontSpec
=============================================================================
