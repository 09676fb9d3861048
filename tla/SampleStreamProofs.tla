------------------------- MODULE SampleStreamProofs -------------------------
(***************************************************************************)
(* Proofs about the stream between two workers (SampleStream) and about    *)
(* the chain that rewires streams while they run (ProcessorChain).         *)
(*                                                                         *)
(* For every set of frames: the types, the exclusive use of the two        *)
(* buffers, and the safety part of the refinement of the one-slot channel. *)
(*                                                                         *)
(* For every set of processors and sources: a stream has one reader at     *)
(* every step of an operation (OneReader), and between operations the      *)
(* enabled processors form one path (Linear).  The invariant says which    *)
(* path each reader is on at each step (Wiring): that of the enabled ones  *)
(* alone, or with the processor that is entering or leaving, whose two     *)
(* neighbours have been gathered.  From the moment blockBefore gathers the *)
(* wrong one (astray) only the first reader of the path is known to be     *)
(* wired to what comes before it, until no processor is enabled any more.  *)
(***************************************************************************)
EXTENDS SampleStream, ProcessorChain, WellFoundedInduction, SequenceTheorems, TLAPS

\* A worker that is not started has ended.
Joined == /\ wctl = "down" => wpc = "exit"
          /\ rctl = "down" => rpc = "exit"

\* A frame waits to be swapped: the writer has filled its buffer.
Filled == wpc \in {"swap", "swapWait"} => content[writeBuf] \in Frame

\* The frame in the slot, and the buffer and the count that stand for it.
SlotOK == /\ writeBuf # readBuf
          /\ ~canSwap => content[readBuf] = dataSize /\ dataSize \in Frame
          /\ Holding => inUse = <<readBuf, dataSize>>

\* A reader that works on its frame has been announced one.
Announced == rpc \in {"use", "flushReady"} => dataReady

IInv == TypeOK /\ Joined /\ Filled /\ SlotOK /\ Announced /\ OneStageAtATime

USE DEF IInv, TypeOK, Joined, Filled, SlotOK, Announced, OneStageAtATime, Holding,
        Buf, WriterPC, ReaderPC, ControlPC

-----------------------------------------------------------------------------
\* The constructor establishes the invariant (stream.h constructor and member
\* initialisers).
LEMMA InitInv == Init => IInv
<1> SUFFICES ASSUME Init PROVE IInv
  OBVIOUS
<1>1. content \in [Buf -> Frame \cup {None}]
  BY DEF Init
<1>2. inUse \in Buf \X (Frame \cup {None})
  BY DEF Init
<1>3. TypeOK
  BY <1>1, <1>2 DEF Init
<1>4. Joined /\ Filled /\ SlotOK /\ Announced
  BY DEF Init
<1>5. OneStageAtATime
  BY DEF Init
<1>6. QED
  BY <1>3, <1>4, <1>5

\* The writer's steps preserve the invariant (stream.h swap).
LEMMA WriterInv == IInv /\ Writer => IInv'
<1> SUFFICES ASSUME IInv, Writer PROVE IInv'
  OBVIOUS
<1> USE DEF data, flags, stops, control
<1>1. ASSUME NEW f \in Frame, Fill(f) PROVE IInv'
  BY <1>1 DEF Fill
<1>2. CASE SwapAbandon
  BY <1>2 DEF SwapAbandon
<1>3. CASE SwapWait
  BY <1>3 DEF SwapWait
<1>4. CASE SwapBuffers
  BY <1>4 DEF SwapBuffers
<1>5. CASE SetReady
  BY <1>5 DEF SetReady
<1>6. CASE NotifyReady
  BY <1>6 DEF NotifyReady, WakeReader
<1>7. QED
  BY <1>1, <1>2, <1>3, <1>4, <1>5, <1>6 DEF Writer

\* The reader's steps preserve the invariant (stream.h read and flush).
LEMMA ReaderInv == IInv /\ Reader => IInv'
<1> SUFFICES ASSUME IInv, Reader PROVE IInv'
  OBVIOUS
<1> USE DEF data, flags, stops, control
<1>1. CASE ReadStopped
  BY <1>1 DEF ReadStopped
<1>2. CASE ReadWait
  BY <1>2 DEF ReadWait
<1>3. CASE ReadData
  BY <1>3 DEF ReadData
<1>4. CASE FinishUse
  BY <1>4 DEF FinishUse
<1>5. CASE FlushReady
  <2>1. dataReady /\ ~canSwap /\ wpc # "ready"
    BY <1>5 DEF FlushReady
  <2>2. TypeOK' /\ Joined' /\ Filled' /\ SlotOK'
    BY <1>5 DEF FlushReady
  <2>3. Announced' /\ OneStageAtATime'
    BY <1>5, <2>1 DEF FlushReady
  <2>4. QED
    BY <2>2, <2>3
<1>6. CASE FlushSwap
  BY <1>6 DEF FlushSwap
<1>7. CASE FlushNotify
  BY <1>7 DEF FlushNotify, WakeWriter
<1>8. QED
  BY <1>1, <1>2, <1>3, <1>4, <1>5, <1>6, <1>7 DEF Reader

\* Stopping and starting the two blocks preserves the invariant (block.h doStart
\* and doStop).
LEMMA ControlInv == IInv /\ Control => IInv'
<1> SUFFICES ASSUME IInv, Control PROVE IInv'
  OBVIOUS
<1> USE DEF data, flags, stops, control
<1>1. CASE StartWriter
  BY <1>1 DEF StartWriter
<1>2. CASE StopWriter
  BY <1>2 DEF StopWriter
<1>3. CASE StopWriterNotify
  BY <1>3 DEF StopWriterNotify, WakeWriter
<1>4. CASE JoinWriter
  BY <1>4 DEF JoinWriter
<1>5. CASE StartReader
  BY <1>5 DEF StartReader
<1>6. CASE StopReader
  BY <1>6 DEF StopReader
<1>7. CASE StopReaderNotify
  BY <1>7 DEF StopReaderNotify, WakeReader
<1>8. CASE JoinReader
  BY <1>8 DEF JoinReader
<1>9. QED
  BY <1>1, <1>2, <1>3, <1>4, <1>5, <1>6, <1>7, <1>8 DEF Control, FinishStop

\* So does a wake-up that nobody sent, and a step of something else.
LEMMA OtherInv == IInv /\ (SpuriousWake \/ UNCHANGED vars) => IInv'
<1> SUFFICES ASSUME IInv, SpuriousWake \/ UNCHANGED vars PROVE IInv'
  OBVIOUS
<1> USE DEF data, flags, stops, control
<1>1. CASE SpuriousWake
  BY <1>1 DEF SpuriousWake, WakeWriter, WakeReader
<1>2. CASE UNCHANGED vars
  BY <1>2 DEF vars
<1>3. QED
  BY <1>1, <1>2

\* The inductive invariant holds in every reachable state, for every set of
\* frames.
THEOREM Invariance == Spec => []IInv
<1> USE DEF Next
<1>1. IInv /\ [Next]_vars => IInv'
  BY WriterInv, ReaderInv, ControlInv, OtherInv
<1> HIDE DEF IInv
<1>2. QED
  BY InitInv, <1>1, PTL DEF Spec

\* The types of the stream's variables (stream.h members, block.h control flow).
THEOREM Typing == Spec => []TypeOK
<1>1. IInv => TypeOK
  OBVIOUS
<1> HIDE DEF IInv, TypeOK
<1>2. QED
  BY <1>1, Invariance, PTL

\* The reader's samples are never in the buffer the writer fills, and the count
\* it was given belongs to them (stream.h swap, read, flush).
THEOREM Exclusion == Spec => []BuffersExclusive
<1>1. IInv => BuffersExclusive
  BY FrameAssumption DEF BuffersExclusive
<1> HIDE DEF IInv
<1>2. QED
  BY <1>1, Invariance, PTL

\* A frame in the slot is in exactly one stage of its hand-over: no stop or
\* restart strands it (stream.h swap and flush).
THEOREM OneStage == Spec => []OneStageAtATime
<1>1. IInv => OneStageAtATime
  OBVIOUS
<1> HIDE DEF IInv, OneStageAtATime
<1>2. QED
  BY <1>1, Invariance, PTL

-----------------------------------------------------------------------------
\* The abstract slot and the abstract reader, as the refinement maps them.
Slot  == IF canSwap THEN None ELSE content[readBuf]
Taken == IF Holding THEN content[inUse[1]] ELSE None

\* A step that leaves the buffers in the slot, the flag and the reader's hold on
\* them alone does not move the channel.
LEMMA Stutter == ASSUME Slot' = Slot, Taken' = Taken
                 PROVE  [Channel!ChanNext]_(Channel!chan)
  BY DEF Slot, Taken, Channel!chan

\* The writer's steps: filling the other buffer is invisible, swapping is Publish.
LEMMA WriterRefines == IInv /\ Writer => [Channel!ChanNext]_(Channel!chan)
<1> SUFFICES ASSUME IInv, Writer PROVE [Channel!ChanNext]_(Channel!chan)
  OBVIOUS
<1> USE DEF data, flags, stops, control
<1>1. ASSUME NEW f \in Frame, Fill(f) PROVE Slot' = Slot /\ Taken' = Taken
  BY <1>1 DEF Fill, Slot, Taken
<1>2. ASSUME SwapBuffers PROVE Channel!Publish(content[writeBuf])
  <2>1. canSwap /\ ~canSwap' /\ content' = content /\ readBuf' = writeBuf
    BY <1>2 DEF SwapBuffers
  <2>2. ~Holding /\ ~Holding'
    BY <1>2 DEF SwapBuffers
  <2>3. QED
    BY <2>1, <2>2 DEF Channel!Publish
<1>3. ASSUME SwapBuffers PROVE content[writeBuf] \in Frame
  BY <1>3 DEF SwapBuffers
<1>4. ASSUME SwapAbandon \/ SwapWait \/ SetReady \/ NotifyReady
      PROVE  Slot' = Slot /\ Taken' = Taken
  BY <1>4 DEF SwapAbandon, SwapWait, SetReady, NotifyReady, WakeReader, Slot, Taken
<1>5. QED
  BY <1>1, <1>2, <1>3, <1>4, Stutter DEF Writer, Channel!ChanNext

\* The reader's steps: read() with data is Take, the end of flush() is Release.
LEMMA ReaderRefines == IInv /\ Reader => [Channel!ChanNext]_(Channel!chan)
<1> SUFFICES ASSUME IInv, Reader PROVE [Channel!ChanNext]_(Channel!chan)
  OBVIOUS
<1> USE DEF data, flags, stops, control
<1>1. ASSUME ReadData PROVE Channel!Take
  <2>1. ~canSwap /\ canSwap' = canSwap /\ content' = content /\ readBuf' = readBuf
    BY <1>1 DEF ReadData
  <2>2. ~Holding /\ Holding' /\ inUse'[1] = readBuf
    BY <1>1 DEF ReadData
  <2>3. content[readBuf] # None
    BY <2>1, FrameAssumption
  <2>4. QED
    BY <2>1, <2>2, <2>3 DEF Channel!Take
<1>2. ASSUME FlushSwap PROVE Channel!Release
  <2>1. canSwap' /\ Holding /\ ~Holding' /\ inUse[1] = readBuf /\ ~canSwap
    BY <1>2 DEF FlushSwap
  <2>2. content[readBuf] # None
    BY <2>1, FrameAssumption
  <2>3. QED
    BY <2>1, <2>2 DEF Channel!Release
<1>3. ASSUME ReadStopped \/ ReadWait \/ FinishUse \/ FlushReady \/ FlushNotify
      PROVE  Slot' = Slot /\ Taken' = Taken
  BY <1>3 DEF ReadStopped, ReadWait, FinishUse, FlushReady, FlushNotify, WakeWriter, Slot, Taken
<1>4. QED
  BY <1>1, <1>2, <1>3, Stutter DEF Reader, Channel!ChanNext

\* Control and wake-ups do not move the channel: stopping and starting either
\* block loses and repeats nothing.
LEMMA ControlRefines == IInv /\ (Control \/ SpuriousWake \/ UNCHANGED vars)
                            => Slot' = Slot /\ Taken' = Taken
<1> SUFFICES ASSUME IInv, Control \/ SpuriousWake \/ UNCHANGED vars
             PROVE  Slot' = Slot /\ Taken' = Taken
  OBVIOUS
<1> USE DEF data, flags, stops, control
<1>1. CASE StartWriter \/ StopWriter \/ StopWriterNotify \/ JoinWriter
  BY <1>1 DEF StartWriter, StopWriter, StopWriterNotify, JoinWriter, WakeWriter, Slot, Taken
<1>2. CASE StartReader \/ StopReader \/ StopReaderNotify \/ JoinReader
  BY <1>2 DEF StartReader, StopReader, StopReaderNotify, JoinReader, WakeReader, Slot, Taken
<1>3. CASE SpuriousWake
  BY <1>3 DEF SpuriousWake, WakeWriter, WakeReader, Slot, Taken
<1>4. CASE UNCHANGED vars
  BY <1>4 DEF vars, Slot, Taken
<1>5. QED
  BY <1>1, <1>2, <1>3, <1>4 DEF Control, FinishStop

\* The double buffer implements the one-slot channel: no frame is lost, repeated
\* or reordered under any interleaving of the workers and of the stops and
\* restarts of the two blocks (stream.h swap, read, flush; block.h doStop).
THEOREM Refinement == Spec => ChannelSafety
<1>1. Init => Channel!ChanInit
  BY DEF Init, Channel!ChanInit
<1>2. IInv /\ [Next]_vars => [Channel!ChanNext]_(Channel!chan)
  BY WriterRefines, ReaderRefines, ControlRefines, Stutter DEF Next
<1> HIDE DEF IInv
<1>3. QED
  BY <1>1, <1>2, Invariance, PTL DEF Spec, ChannelSafety, Channel!ChanSafety

-----------------------------------------------------------------------------
(* The order of the list, the consumer last, as ranks; all that is said    *)
(* about neighbours is said about ranks, so that these facts need no state.*)

\* Reader r reads s: the source if no member of set ranks before r, or else, as far
\* as that is sure, the last member that does.
Joins(sure, rank, source, set, r, s) ==
    IF \A b \in set : rank[b] >= rank[r] THEN s = source
    ELSE sure => s \in set /\ rank[s] < rank[r] /\ \A b \in set : rank[b] < rank[r] => rank[b] <= rank[s]

\* f is the first of set, or else the last of all, that ranks after a.
Follows(rank, set, last, a, f) ==
    /\ f \in set \cup {last} /\ rank[a] < rank[f]
    /\ \A b \in set : rank[a] < rank[b] => rank[f] <= rank[b]

Ranking(rank, D, last) == /\ rank \in [D -> Int] /\ last \in D
                          /\ \A x, y \in D : rank[x] = rank[y] => x = y
                          /\ \A x \in D : rank[x] <= rank[last]

\* Two readers of one path never read the same stream.
LEMMA Apart == ASSUME NEW D, NEW last, NEW rank, Ranking(rank, D, last),
                      NEW set \in SUBSET D, last \notin set, NEW source, source \notin set,
                      NEW r \in set \cup {last}, NEW q \in set \cup {last}, r # q,
                      NEW s, Joins(TRUE, rank, source, set, r, s), Joins(TRUE, rank, source, set, q, s)
               PROVE  FALSE
<1>1. /\ \A x \in set \cup {last} : rank[x] \in Int
      /\ rank[r] # rank[q]
      /\ \A x \in set : rank[x] <= rank[last] /\ x # last
  BY DEF Ranking
<1>2. \A a, b \in set \cup {last} : rank[a] < rank[b] /\ Joins(TRUE, rank, source, set, a, s)
                                     /\ Joins(TRUE, rank, source, set, b, s) => FALSE
  <2> SUFFICES ASSUME NEW a \in set \cup {last}, NEW b \in set \cup {last}, rank[a] < rank[b],
                      Joins(TRUE, rank, source, set, a, s), Joins(TRUE, rank, source, set, b, s)
               PROVE  FALSE
    OBVIOUS
  <2>1. a \in set /\ rank[last] \in Int
    BY <1>1
  <2>2. s \in set /\ rank[a] <= rank[s]
    BY <1>1, <2>1 DEF Joins
  <2>3. rank[s] < rank[a]
    BY <2>2 DEF Joins
  <2> QED
    BY <1>1, <2>2, <2>3
<1>3. CASE rank[r] < rank[q]
  BY <1>2, <1>3
<1>4. CASE rank[q] < rank[r]
  BY <1>2, <1>4
<1> QED
  BY <1>1, <1>3, <1>4

\* When a joins the path, the reader behind it reads a and no other is affected.
LEMMA JoinIn == ASSUME NEW sure, NEW D, NEW last, NEW rank, Ranking(rank, D, last),
                       NEW set \in SUBSET D, last \notin set, NEW source,
                       NEW a \in D, a \notin set, NEW f, Follows(rank, set, last, a, f)
                PROVE  /\ Joins(sure, rank, source, set \cup {a}, f, a)
                       /\ \A r \in set \cup {last} : \A s :
                             r # f /\ Joins(sure, rank, source, set, r, s)
                                => Joins(sure, rank, source, set \cup {a}, r, s)
<1>1. /\ \A x \in set \cup {last, a} : rank[x] \in Int
      /\ \A x, y \in set \cup {last, a} : rank[x] = rank[y] => x = y
      /\ \A x \in set \cup {last, a} : rank[x] <= rank[last]
  BY DEF Ranking
<1>2. f \in set \cup {last} /\ rank[a] < rank[f] /\ \A b \in set : rank[a] < rank[b] => rank[f] <= rank[b]
  BY DEF Follows
<1>3. Joins(sure, rank, source, set \cup {a}, f, a)
  BY <1>1, <1>2 DEF Joins
<1>4. ASSUME NEW r \in set \cup {last}, NEW s, r # f, Joins(sure, rank, source, set, r, s)
      PROVE  Joins(sure, rank, source, set \cup {a}, r, s)
  <2>1. CASE rank[r] <= rank[a]
    BY <1>1, <1>4, <2>1 DEF Joins
  <2>2. CASE rank[a] < rank[r]
    <3>1. f \in set /\ rank[f] < rank[r]
      BY <1>1, <1>2, <1>4, <2>2
    <3>2. sure => /\ s \in set /\ rank[s] < rank[r] /\ rank[f] <= rank[s]
                  /\ \A b \in set : rank[b] < rank[r] => rank[b] <= rank[s]
      BY <1>1, <1>4, <3>1 DEF Joins
    <3>3. sure => rank[a] <= rank[s]
      BY <1>1, <1>2, <3>2
    <3> QED
      BY <1>1, <3>1, <3>2, <3>3 DEF Joins
  <2> QED
    BY <1>1, <2>1, <2>2
<1> QED
  BY <1>3, <1>4

\* When a leaves the path, the reader behind it reads what a read and no other
\* is affected.
LEMMA LeaveOut == ASSUME NEW sure, NEW D, NEW last, NEW rank, Ranking(rank, D, last),
                         NEW set \in SUBSET D, last \notin set, NEW source,
                         NEW a \in D, a \notin set, NEW f, Follows(rank, set, last, a, f)
                  PROVE  /\ \A s : Joins(sure, rank, source, set, a, s) => Joins(sure, rank, source, set, f, s)
                         /\ \A r \in set \cup {last} : \A s :
                               r # f /\ Joins(sure, rank, source, set \cup {a}, r, s)
                                  => Joins(sure, rank, source, set, r, s)
<1>1. /\ \A x \in set \cup {last, a} : rank[x] \in Int
      /\ \A x, y \in set \cup {last, a} : rank[x] = rank[y] => x = y
      /\ \A x \in set \cup {last, a} : rank[x] <= rank[last]
  BY DEF Ranking
<1>2. f \in set \cup {last} /\ rank[a] < rank[f] /\ \A b \in set : rank[a] < rank[b] => rank[f] <= rank[b]
  BY DEF Follows
<1>3. ASSUME NEW s, Joins(sure, rank, source, set, a, s) PROVE Joins(sure, rank, source, set, f, s)
  <2>1. \A b \in set : rank[b] < rank[f] <=> rank[b] < rank[a]
    BY <1>1, <1>2
  <2> QED
    BY <1>1, <1>2, <1>3, <2>1 DEF Joins
<1>4. ASSUME NEW r \in set \cup {last}, NEW s, r # f, Joins(sure, rank, source, set \cup {a}, r, s)
      PROVE  Joins(sure, rank, source, set, r, s)
  <2>1. CASE rank[r] <= rank[a]
    BY <1>1, <1>4, <2>1 DEF Joins
  <2>2. CASE rank[a] < rank[r]
    <3>1. f \in set /\ rank[f] < rank[r]
      BY <1>1, <1>2, <1>4, <2>2
    <3>2. sure => /\ s \in set \cup {a} /\ rank[s] < rank[r] /\ rank[f] <= rank[s]
                  /\ \A b \in set : rank[b] < rank[r] => rank[b] <= rank[s]
      BY <1>1, <1>4, <3>1 DEF Joins
    <3>3. sure => s # a
      BY <1>1, <1>2, <3>2
    <3> QED
      BY <1>1, <3>1, <3>2, <3>3 DEF Joins
  <2> QED
    BY <1>1, <2>1, <2>2
<1> QED
  BY <1>3, <1>4

\* A reader does not come before itself.
LEMMA OwnInput == ASSUME NEW sure, NEW D, NEW last, NEW rank, Ranking(rank, D, last),
                         NEW set \in SUBSET D, NEW source, NEW a \in D, NEW s,
                         Joins(sure, rank, source, set, a, s)
                  PROVE  Joins(sure, rank, source, set \cup {a}, a, s)
<1>1. \A x \in set \cup {a} : rank[x] \in Int
  BY DEF Ranking
<1> QED
  BY <1>1 DEF Joins

\* Two rankings with the same order have the same neighbours.
LEMMA SameOrder == ASSUME NEW sure, NEW D, NEW k, NEW n, \A x \in D : k[x] \in Int /\ n[x] \in Int,
                          \A x, y \in D : k[x] < k[y] <=> n[x] < n[y],
                          NEW set \in SUBSET D, NEW source, NEW r \in D, NEW s,
                          Joins(sure, k, source, set, r, s)
                   PROVE  Joins(sure, n, source, set, r, s)
<1>1. \A x, y \in D : (k[x] <= k[y] <=> n[x] <= n[y]) /\ (k[x] >= k[y] <=> n[x] >= n[y])
  OBVIOUS
<1> QED
  BY <1>1 DEF Joins

\* What is known for sure is known.
LEMMA LessSure == ASSUME NEW sure, NEW less, less => sure, NEW rank, NEW source, NEW set, NEW r, NEW s,
                         Joins(sure, rank, source, set, r, s)
                  PROVE  Joins(less, rank, source, set, r, s)
  BY DEF Joins

\* A set of numbers has a smallest.
LEMMA Smallest == ASSUME NEW S \in SUBSET Nat, S # {}
                  PROVE  Min(S) \in S /\ \A x \in S : Min(S) <= x
<1>1. \A p \in Nat \X Nat : p[1] < p[2] => p \in OpToRel(<, Nat)
  BY Zenon DEF OpToRel
<1>2. \E less : IsWellFoundedOn(less, Nat) /\ \A p \in Nat \X Nat : p[1] < p[2] => p \in less
  BY <1>1, NatLessThanWellFounded, Zenon
<1>3. PICK less : IsWellFoundedOn(less, Nat) /\ \A p \in Nat \X Nat : p[1] < p[2] => p \in less
  BY <1>2
<1>4. PICK m \in S : \A y \in S : ~(<<y, m>> \in less)
  BY <1>3, WFMin
<1>5. \A x \in S : m <= x
  <2>1. \A x \in S : <<x, m>> \in Nat \X Nat /\ <<x, m>>[1] = x /\ <<x, m>>[2] = m
    OBVIOUS
  <2>2. \A x \in S : ~(x < m)
    BY <1>3, <1>4, <2>1
  <2> QED
    BY <2>2
<1> QED
  BY <1>5 DEF Min

\* Taking up the first element leaves no other behind.
LEMMA TailIn == ASSUME NEW T, NEW s \in Seq(T), s # <<>>
                PROVE  /\ Head(s) \in ToSet(s) /\ Tail(s) \in Seq(T)
                       /\ ToSet(Tail(s)) \subseteq ToSet(s)
                       /\ ToSet(s) = {Head(s)} \cup ToSet(Tail(s))
<1>1. /\ Len(s) \in Nat /\ Len(s) > 0 /\ DOMAIN s = 1..Len(s)
      /\ Head(s) = s[1] /\ Tail(s) \in Seq(T) /\ Len(Tail(s)) = Len(s) - 1
      /\ \A i \in 1..Len(s)-1 : Tail(s)[i] = s[i+1]
  BY HeadTailProperties, EmptySeq, LenProperties
<1>2. DOMAIN Tail(s) = 1..Len(s)-1
  BY <1>1, LenProperties
<1>3. \A i \in 1..Len(s) : i = 1 \/ i-1 \in 1..Len(s)-1
  BY <1>1
<1>4. \A x \in ToSet(s) : x = Head(s) \/ x \in ToSet(Tail(s))
  <2> TAKE x \in ToSet(s)
  <2>1. PICK i \in 1..Len(s) : x = s[i]
    BY <1>1 DEF ToSet
  <2>2. i = 1 \/ (i - 1 \in 1..Len(s)-1 /\ (i - 1) + 1 = i)
    BY <1>1
  <2> QED
    BY <1>1, <1>2, <2>1, <2>2 DEF ToSet
<1>5. ToSet(Tail(s)) \subseteq ToSet(s)
  BY <1>1, <1>2 DEF ToSet
<1>6. Head(s) \in ToSet(s)
  BY <1>1 DEF ToSet
<1> QED
  BY <1>1, <1>4, <1>5, <1>6

\* Two parts of a sequence that leave out one place between them.
LEMMA Gap == ASSUME NEW S, NEW s \in Seq(S), NEW k \in 1..Len(s), NEW front \in Seq(S), NEW back \in Seq(S),
                    Len(front) = k - 1, \A i \in 1..k-1 : front[i] = s[i],
                    Len(back) = Len(s) - k, \A i \in 1..Len(s)-k : back[i] = s[k + i]
             PROVE  /\ front \o back \in Seq(S) /\ Len(front \o back) = Len(s) - 1
                    /\ \A i \in 1..Len(s)-1 : (front \o back)[i] = s[IF i < k THEN i ELSE i + 1]
<1>1. Len(s) \in Nat /\ k \in Int /\ k >= 1
  OBVIOUS
<1>2. front \o back \in Seq(S) /\ Len(front \o back) = Len(front) + Len(back)
  BY ConcatProperties
<1>3. Len(front \o back) = Len(s) - 1
  BY <1>1, <1>2
<1>4. ASSUME NEW i \in 1..Len(s)-1 PROVE (front \o back)[i] = s[IF i < k THEN i ELSE i + 1]
  <2>1. i \in 1..Len(front) + Len(back) /\ i \in Int
    BY <1>1
  <2>2. (front \o back)[i] = IF i <= Len(front) THEN front[i] ELSE back[i - Len(front)]
    BY <2>1, ConcatProperties
  <2>3. CASE i < k
    BY <1>1, <2>1, <2>2, <2>3
  <2>4. CASE i >= k
    <3>1. i - (k - 1) \in 1..Len(s)-k /\ k + (i - (k - 1)) = i + 1 /\ ~(i < k) /\ ~(i <= k - 1)
      BY <1>1, <2>1, <2>4
    <3> QED
      BY <2>2, <3>1
  <2> QED
    BY <2>1, <2>3, <2>4, <1>1
<1> QED
  BY <1>2, <1>3, <1>4

\* A sequence without one of its places.
LEMMA Without == ASSUME NEW S, NEW s \in Seq(S), NEW k \in 1..Len(s)
             PROVE  /\ RemoveAt(s, k) \in Seq(S) /\ Len(RemoveAt(s, k)) = Len(s) - 1
                    /\ \A i \in 1..Len(s)-1 : RemoveAt(s, k)[i] = s[IF i < k THEN i ELSE i + 1]
<1> DEFINE front == SubSeq(s, 1, k - 1)
           back  == SubSeq(s, k + 1, Len(s))
<1>1. Len(s) \in Nat /\ k \in Int
  OBVIOUS
<1>2. front \in Seq(S) /\ Len(front) = k - 1 /\ \A i \in 1..k-1 : front[i] = s[i]
  BY <1>1
<1>3. back \in Seq(S) /\ Len(back) = Len(s) - k /\ \A i \in 1..Len(s)-k : back[i] = s[k + i]
  BY <1>1
<1> HIDE DEF front, back
<1>4. /\ front \o back \in Seq(S) /\ Len(front \o back) = Len(s) - 1
      /\ \A i \in 1..Len(s)-1 : (front \o back)[i] = s[IF i < k THEN i ELSE i + 1]
  <2>1. front \in Seq(S) /\ back \in Seq(S)
    BY <1>2, <1>3
  <2>2. Len(front) = k - 1 /\ \A i \in 1..k-1 : front[i] = s[i]
    BY <1>2
  <2>3. Len(back) = Len(s) - k /\ \A i \in 1..Len(s)-k : back[i] = s[k + i]
    BY <1>3
  <2> QED
    BY ONLY <2>1, <2>2, <2>3, Gap
<1> QED
  BY <1>4 DEF RemoveAt, front, back

\* The list of an operation on one processor.
LEMMA OneLong == ASSUME NEW T, NEW b \in T
                 PROVE  /\ <<b>> \in Seq(T) /\ <<b>> # <<>> /\ ToSet(<<b>>) = {b}
                        /\ Tail(<<b>>) = <<>> /\ Head(<<b>>) = b
  BY DEF ToSet

\* The list of an operation that has come to its end.
LEMMA NoneLeft == ASSUME NEW T PROVE <<>> \in Seq(T) /\ ToSet(<<>>) = {}
  BY DEF ToSet

-----------------------------------------------------------------------------
(* The list of the chain.                                                  *)

Readers == Block \cup {Consumer}
Placed  == ToSet(links) \cup {Consumer}
Rank    == [r \in Placed |-> IF r = Consumer THEN Len(links) + 1 ELSE Position(r)]
All     == on \cup {Consumer}

\* Each of these readers reads the member of set before it.
Wired(set, readers) == \A r \in readers : Joins(~astray, Rank, in, set, r, input[r])
Behind(set, b, f)   == Follows(Rank, set, Consumer, b, f)

ListOK == /\ links \in Seq(Block) /\ \A i, j \in DOMAIN links : links[i] = links[j] => i = j
          /\ on \subseteq ToSet(links)

\* The consumer is not in the list, and what is enabled is.
LEMMA InBlock == ASSUME ListOK
                 PROVE  /\ ToSet(links) \subseteq Block /\ Consumer \notin ToSet(links)
                        /\ Len(links) \in Nat /\ DOMAIN links = 1..Len(links)
                        /\ \A i \in 1..Len(links) : links[i] \in ToSet(links)
                        /\ All \subseteq Placed /\ All \subseteq Readers /\ Consumer \notin on
  BY LenProperties, ChainAssumption DEF ListOK, ToSet, Placed, All, Readers

\* Every processor of the list has its place, and no other has the same.
LEMMA Places == ASSUME ListOK
                PROVE  /\ \A b \in ToSet(links) : Position(b) \in 1..Len(links) /\ links[Position(b)] = b
                       /\ \A i \in 1..Len(links) : Position(links[i]) = i
<1>1. DOMAIN links = 1..Len(links)
  BY InBlock
<1>2. \A b \in ToSet(links) : \E i \in DOMAIN links : links[i] = b
  BY DEF ToSet
<1>3. \A b \in ToSet(links) : Position(b) \in DOMAIN links /\ links[Position(b)] = b
  BY <1>2 DEF Position
<1>4. \A i \in 1..Len(links) : Position(links[i]) = i
  BY <1>1, <1>3, InBlock DEF ListOK
<1> QED
  BY <1>1, <1>3, <1>4

\* The ranks order the list, the consumer last.
LEMMA Ranked == ASSUME ListOK
                PROVE  /\ Ranking(Rank, Placed, Consumer)
                       /\ Rank[Consumer] = Len(links) + 1
                       /\ \A b \in ToSet(links) : Rank[b] = Position(b) /\ Rank[b] \in 1..Len(links)
<1>1. Len(links) \in Nat /\ Consumer \notin ToSet(links)
  BY InBlock
<1>2. \A b \in ToSet(links) : Rank[b] = Position(b) /\ Rank[b] \in 1..Len(links) /\ links[Rank[b]] = b
  BY <1>1, Places DEF Rank, Placed
<1>3. Rank[Consumer] = Len(links) + 1
  BY DEF Rank, Placed
<1>4. Rank \in [Placed -> Int]
  <2>1. \A r \in Placed : Rank[r] \in Int
    BY <1>1, <1>2, <1>3 DEF Placed
  <2> QED
    BY <2>1 DEF Rank
<1>5. \A x, y \in Placed : Rank[x] = Rank[y] => x = y
  BY <1>1, <1>2, <1>3 DEF Placed
<1>6. \A x \in Placed : Rank[x] <= Rank[Consumer]
  BY <1>1, <1>2, <1>3 DEF Placed
<1> QED
  BY <1>2, <1>3, <1>4, <1>5, <1>6 DEF Ranking, Placed

\* These facts hold after a step as well.
ListFacts == /\ All \subseteq Placed /\ Ranking(Rank, Placed, Consumer)
             /\ Rank[Consumer] = Len(links) + 1
             /\ \A b \in ToSet(links) : Rank[b] = Position(b)
             /\ \A b \in ToSet(links), i \in 1..Len(links) : links[i] = b => Position(b) = i

\* If the list is in order after a step, so are its ranks.
LEMMA NextList == ListOK' => ListFacts'
<1>1. ListOK => ListFacts
  BY InBlock, Places, Ranked DEF ListFacts
<1> QED
  BY <1>1, PTL

\* FirstEnabled: the first of the enabled processors at these places.
LEMMA FirstIs == ASSUME ListOK, NEW from \in Nat, NEW to \in Nat, NEW none,
                        from >= 1, to <= Len(links)
                 PROVE  LET f == FirstEnabled(from, to, none)
                            within == {b \in on : from <= Position(b) /\ Position(b) <= to}
                        IN  IF within = {} THEN f = none
                            ELSE f \in within /\ \A b \in within : Position(f) <= Position(b)
<1> DEFINE places == {i \in from..to : links[i] \in on}
           within == {b \in on : from <= Position(b) /\ Position(b) <= to}
<1>1. /\ \A b \in on : Position(b) \in 1..Len(links) /\ links[Position(b)] = b
      /\ \A i \in 1..Len(links) : Position(links[i]) = i
      /\ Len(links) \in Nat
  BY Places, InBlock DEF ListOK
<1>2. \A i \in places : links[i] \in within /\ Position(links[i]) = i
  BY <1>1
<1>3. \A b \in within : Position(b) \in places
  BY <1>1
<1>4. places \in SUBSET Nat
  OBVIOUS
<1>5. FirstEnabled(from, to, none) = IF places = {} THEN none ELSE links[Min(places)]
  BY DEF FirstEnabled
<1>6. CASE places = {}
  BY <1>3, <1>5, <1>6
<1>7. CASE places # {}
  <2>1. Min(places) \in places /\ \A x \in places : Min(places) <= x
    BY <1>4, <1>7, Smallest
  <2> QED
    BY <1>2, <1>3, <1>5, <1>7, <2>1
<1> QED
  BY <1>6, <1>7

\* blockAfter is the reader behind b.
LEMMA AfterIs == ASSUME ListOK, NEW b \in ToSet(links)
                 PROVE  Behind(on, b, After(b))
<1>1. /\ Position(b) \in 1..Len(links) /\ Len(links) \in Nat
      /\ \A c \in on : Position(c) \in 1..Len(links) /\ Rank[c] = Position(c)
      /\ Rank[b] = Position(b) /\ Rank[Consumer] = Len(links) + 1
  BY Places, Ranked, InBlock DEF ListOK
<1> DEFINE within == {c \in on : Position(b) + 1 <= Position(c) /\ Position(c) <= Len(links)}
<1>2. IF within = {} THEN After(b) = Consumer
      ELSE After(b) \in within /\ \A c \in within : Position(After(b)) <= Position(c)
  <2>1. Position(b) + 1 \in Nat /\ Position(b) + 1 >= 1 /\ Len(links) <= Len(links)
    BY <1>1
  <2> QED
    BY <1>1, <2>1, FirstIs DEF After
<1>3. \A c \in on : Rank[b] < Rank[c] => c \in within
  BY <1>1
<1> QED
  BY <1>1, <1>2, <1>3 DEF Behind, Follows

\* blockBefore is the first enabled processor of the chain, and so the one before b
\* when it passes nobody over; and it is the source when b is the first.
LEMMA BeforeIs == ASSUME ListOK, NEW b \in ToSet(links), NEW sure, sure => ~PassesOver(b)
                  PROVE  Joins(sure, Rank, in, on \ {b}, b, Before(b)) /\ Before(b) \in on \cup {in}
<1>1. /\ Position(b) \in 1..Len(links) /\ Len(links) \in Nat
      /\ \A c \in on : Position(c) \in 1..Len(links) /\ Rank[c] = Position(c)
      /\ Rank[b] = Position(b)
  BY Places, Ranked, InBlock DEF ListOK
<1> DEFINE within == {c \in on : 1 <= Position(c) /\ Position(c) <= Position(b) - 1}
<1>2. IF within = {} THEN Before(b) = in ELSE Before(b) \in within
  <2>1. Position(b) - 1 \in Nat /\ Position(b) - 1 <= Len(links)
    BY <1>1
  <2>2. LET f == FirstEnabled(1, Position(b) - 1, in)
        IN  IF within = {} THEN f = in
            ELSE f \in within /\ \A c \in within : Position(f) <= Position(c)
    BY <2>1, FirstIs
  <2> QED
    BY <2>2 DEF Before
<1>3. \A c \in on : c \in within <=> Rank[c] < Rank[b]
  BY <1>1
<1>4. CASE within = {}
  BY <1>1, <1>2, <1>3, <1>4 DEF Joins
<1>5. CASE within # {}
  <2>1. /\ Before(b) \in on \ {b} /\ Rank[Before(b)] < Rank[b]
        /\ Rank[Before(b)] = Position(Before(b)) /\ Rank[b] \in Int
    BY <1>1, <1>2, <1>3, <1>5
  <2>2. ASSUME sure, NEW c \in on \ {b}, Rank[c] < Rank[b] PROVE Rank[c] <= Rank[Before(b)]
    <3>1. ~(Position(Before(b)) < Position(c) /\ Position(c) < Position(b))
      BY <2>1, <2>2 DEF PassesOver
    <3> QED
      BY <1>1, <2>1, <2>2, <3>1
  <2>3. ~\A c \in on \ {b} : Rank[c] >= Rank[b]
    BY <1>1, <2>1
  <2> QED
    BY <2>1, <2>2, <2>3 DEF Joins
<1> QED
  BY <1>4, <1>5

\* The reader that setInput tells comes first on the path.
LEMMA FirstOfAll == ASSUME ListOK
                    PROVE  /\ First \in All
                           /\ \A b \in All : Rank[First] <= Rank[b]
<1>1. /\ Len(links) \in Nat
      /\ \A c \in on : Position(c) \in 1..Len(links) /\ Rank[c] = Position(c)
      /\ Rank[Consumer] = Len(links) + 1
  BY Places, Ranked, InBlock DEF ListOK
<1> DEFINE within == {c \in on : 1 <= Position(c) /\ Position(c) <= Len(links)}
<1>2. IF within = {} THEN First = Consumer
      ELSE First \in within /\ \A c \in within : Position(First) <= Position(c)
  BY <1>1, FirstIs DEF First
<1>3. within = on
  BY <1>1
<1> QED
  BY <1>1, <1>2, <1>3 DEF All

\* The property says the same of a reader.
LEMMA NearestIs == ASSUME ListOK, NEW set \in SUBSET ToSet(links), NEW r \in Placed, NEW s
                   PROVE  Joins(TRUE, Rank, in, set, r, s) => Nearest(set, r, s)
<1>1. /\ Len(links) \in Nat
      /\ \A c \in ToSet(links) : c # Consumer /\ Position(c) \in 1..Len(links) /\ Rank[c] = Position(c)
      /\ \A x, y \in ToSet(links) : Position(x) = Position(y) => x = y
      /\ Rank[Consumer] = Len(links) + 1
  BY Places, Ranked, InBlock DEF ListOK
<1>2. Rank[r] \in Int /\ Earlier(set, r) = {b \in set : Rank[b] < Rank[r]}
  BY <1>1 DEF Earlier, Placed
<1>3. CASE Earlier(set, r) = {}
  BY <1>1, <1>2, <1>3 DEF Joins, Nearest
<1>4. CASE Earlier(set, r) # {}
  <2> SUFFICES ASSUME Joins(TRUE, Rank, in, set, r, s) PROVE Nearest(set, r, s)
    OBVIOUS
  <2>1. s \in set /\ Rank[s] < Rank[r] /\ \A b \in set : Rank[b] < Rank[r] => Rank[b] <= Rank[s]
    BY <1>1, <1>2, <1>4 DEF Joins
  <2>2. Earlier(set, s) = {b \in set : Rank[b] < Rank[s]}
    BY <1>1, <2>1 DEF Earlier
  <2>3. s \in Earlier(set, r)
    BY <1>2, <2>1
  <2>4. ASSUME NEW b \in Earlier(set, r) PROVE b \in Earlier(set, s) \cup {s}
    <3>1. b \in set /\ Rank[b] <= Rank[s] /\ Rank[b] = Position(b) /\ Rank[s] = Position(s)
      BY <1>1, <1>2, <2>1, <2>4
    <3> QED
      BY <1>1, <2>1, <2>2, <3>1
  <2> QED
    BY <1>4, <2>3, <2>4 DEF Nearest
<1> QED
  BY <1>3, <1>4

-----------------------------------------------------------------------------
(* The invariant.                                                          *)

Entering == at \in {"rewire", "input", "start", "on"}

Typed == /\ in \in Source /\ out = input[Consumer] /\ running \in BOOLEAN
         /\ todo \in Seq(Block) /\ ToSet(todo) \subseteq ToSet(links)
         /\ input \in [Readers -> Stream] /\ before \in Stream /\ astray \in BOOLEAN

\* What is in progress, and which processor it is about.
Progress ==
   /\ op \in {"none", "enable", "disable", "remove", "start", "stop", "setInput"}
   /\ at \in {"ready", "rewire", "input", "start", "on", "stop", "off", "tell"}
   /\ op \in {"none", "setInput"} => todo = <<>>
   /\ op = "none" => at = "ready"
   /\ op = "remove" => todo = <<>> \/ (at = "ready" /\ Tail(todo) = <<>>)
   /\ op = "remove" /\ todo = <<>> /\ at = "ready" => arg \in ToSet(links) \ on
   /\ Entering => op = "enable" /\ arg \in ToSet(links) \ on
   /\ at \in {"stop", "off"} => op \in {"disable", "remove"} /\ arg \in on
   /\ at = "tell" => \/ op \in {"disable", "remove"} /\ arg \in ToSet(links) \ on
                     \/ op = "setInput"

\* Whose worker runs: between StartBlock and SwitchOn, and between StopBlock and
\* SwitchOff, the states and the workers differ in arg.
Workers == /\ at \in {"start", "on"} => live \subseteq on \cup {arg}
           /\ at = "off" => live \subseteq on \ {arg}
           /\ at \notin {"start", "on"} => live \subseteq on

\* Who reads what at each step.
Wiring ==
   /\ at \in {"ready", "rewire", "stop", "off"} => Wired(on, All)
   /\ at = "rewire" => Behind(on, arg, after) /\ Joins(~astray, Rank, in, on, arg, before)
   /\ at = "input" => Wired(on \cup {arg}, All) /\ Joins(~astray, Rank, in, on, arg, before)
   /\ at \in {"start", "on"} => Wired(on \cup {arg}, All \cup {arg})
   /\ at = "tell" /\ op # "setInput" =>
         Wired(on \cup {arg}, All) /\ Behind(on, arg, after) /\ Joins(~astray, Rank, in, on, arg, before)
   /\ at = "tell" /\ op = "setInput" =>
         /\ after \in All /\ \A b \in All : Rank[after] <= Rank[b]
         /\ before = in /\ input[after] \in Source
         /\ Wired(on, All \ {after})

ChainInv == ListOK /\ Typed /\ Progress /\ Workers /\ Wiring

\* As long as the list stays, so do the ranks.
LEMMA SameList == ASSUME UNCHANGED links
                  PROVE  Rank' = Rank /\ ToSet(links)' = ToSet(links)
  BY DEF Rank, Placed, Position, ToSet

\* The empty chain: the consumer reads the source.
LEMMA ChainStart == ChainInit => ChainInv
<1> SUFFICES ASSUME ChainInit PROVE ChainInv
  OBVIOUS
<1>1. ListOK /\ Typed
  <2>1. links \in Seq(Block) /\ DOMAIN links = {} /\ ToSet(links) = {} /\ todo \in Seq(Block) /\ ToSet(todo) = {}
    BY NoneLeft DEF ChainInit, ToSet
  <2>2. input \in [Readers -> Stream] /\ in \in Source /\ out = input[Consumer]
    BY DEF ChainInit, Readers, Stream
  <2> QED
    BY <2>1, <2>2 DEF ChainInit, ListOK, Typed
<1>2. Progress /\ Workers
  BY DEF ChainInit, Progress, Workers, Entering
<1>3. Wiring
  <2>1. Wired({}, {Consumer})
    BY DEF ChainInit, Wired, Joins
  <2> QED
    BY <2>1 DEF ChainInit, Wiring, All
<1> QED
  BY <1>1, <1>2, <1>3 DEF ChainInv

\* Operations that only begin: the wiring is as it was.
LEMMA Begins == ASSUME ChainInv, NEW o \in {"enable", "disable", "remove", "start", "stop"},
                       NEW blocks \in Seq(Block), ToSet(blocks) \subseteq ToSet(links),
                       o = "remove" => blocks # <<>> /\ Tail(blocks) = <<>>,
                       Begin(o, blocks), UNCHANGED <<in, links, on, wiring, running, live>>
                PROVE  ChainInv'
<1>1. /\ at = "ready" /\ at' = "ready" /\ op' = o /\ todo' = blocks
      /\ UNCHANGED <<in, links, on, out, input, running, live, arg, before, after, astray>>
  BY DEF ChainInv, Progress, Begin, wiring
<1>2. ToSet(links)' = ToSet(links) /\ ToSet(todo)' = ToSet(blocks) /\ Rank' = Rank
  BY <1>1, SameList DEF ToSet
<1>3. ListOK' /\ Typed'
  BY <1>1, <1>2 DEF ChainInv, ListOK, Typed
<1>4. Progress'
  BY <1>1, <1>2 DEF ChainInv, Progress, Entering
<1>6. Workers'
  BY <1>1 DEF ChainInv, Workers
<1>7. Wiring'
  BY <1>1, <1>2 DEF ChainInv, Wiring, Wired, All
<1> QED
  BY <1>3, <1>4, <1>6, <1>7 DEF ChainInv

\* Operations on one processor of the list.
LEMMA BeginOne == ASSUME ChainInv, NEW b \in Block,
                         RemoveBlock(b) \/ EnableBlock(b) \/ DisableBlock(b)
                  PROVE  ChainInv'
<1>1. ListOK /\ links \in Seq(Block)
  BY DEF ChainInv, ListOK
<1>2. <<b>> \in Seq(Block) /\ <<b>> # <<>> /\ ToSet(<<b>>) = {b} /\ Tail(<<b>>) = <<>>
  BY OneLong
<1>3. CASE RemoveBlock(b)
  <2>1. Begin("remove", <<b>>) /\ b \in ToSet(links) /\ UNCHANGED <<in, links, on, wiring, running, live>>
    BY <1>3 DEF RemoveBlock
  <2> QED
    BY <1>2, <2>1, Begins
<1>4. CASE EnableBlock(b)
  <2>1. /\ Begin("enable", <<b>>) /\ b \in ToSet(links)
        /\ UNCHANGED <<in, links, on, wiring, running, live>>
    BY <1>4 DEF EnableBlock
  <2> QED
    BY <1>2, <2>1, Begins
<1>5. CASE DisableBlock(b)
  <2>1. Begin("disable", <<b>>) /\ b \in ToSet(links) /\ UNCHANGED <<in, links, on, wiring, running, live>>
    BY <1>5 DEF DisableBlock
  <2> QED
    BY <1>2, <2>1, Begins
<1> QED
  BY <1>3, <1>4, <1>5

\* Operations on all of them.
LEMMA BeginAll == ASSUME ChainInv,
                         EnableAllBlocks \/ DisableAllBlocks \/ Start \/ Stop
                  PROVE  ChainInv'
<1>1. ListOK /\ links \in Seq(Block)
  BY DEF ChainInv, ListOK
<1>2. CASE EnableAllBlocks
  BY <1>1, <1>2, Begins DEF EnableAllBlocks
<1>3. CASE DisableAllBlocks
  BY <1>1, <1>3, Begins DEF DisableAllBlocks
<1>4. CASE Start
  BY <1>1, <1>4, Begins DEF Start
<1>5. CASE Stop
  BY <1>1, <1>5, Begins DEF Stop
<1> QED
  BY <1>2, <1>3, <1>4, <1>5

\* The list changes only between the steps that tell someone; the order of those
\* that stay does not change.
LEMMA Reordered == ASSUME ListOK, ListOK', UNCHANGED <<in, on, input>>, Wired(on, All),
                          \A x, y \in All : Rank[x] < Rank[y] <=> Rank'[x] < Rank'[y]
                   PROVE  \A r \in All : Joins(~astray, Rank', in, on, r, input[r])
<1>1. \A x \in All : Rank[x] \in Int
  BY InBlock, Ranked DEF Ranking
<1>2. All' = All
  BY DEF All
<1>3. \A x \in All' : Rank'[x] \in Int
  <2>1. All' \subseteq Placed' /\ Ranking(Rank, Placed, Consumer)'
    BY NextList DEF ListFacts
  <2> QED
    BY <2>1 DEF Ranking
<1>4. on \in SUBSET All
  BY DEF All
<1>5. ASSUME NEW r \in All PROVE Joins(~astray, Rank', in, on, r, input[r])
  <2>1. Joins(~astray, Rank, in, on, r, input[r])
    BY <1>5 DEF Wired
  <2>2. \A x \in All : Rank[x] \in Int /\ Rank'[x] \in Int
    BY <1>1, <1>2, <1>3
  <2> QED
    BY <1>4, <2>1, <2>2, SameOrder
<1> QED
  BY <1>5

\* addBlock: those that were in the list keep their places.
LEMMA AddStep == ASSUME ChainInv, NEW b \in Block, NEW enabled \in BOOLEAN,
                        AddBlock(b, enabled)
                 PROVE  ChainInv'
<1>1. /\ ListOK /\ Typed /\ Progress /\ Workers /\ Wiring /\ links \in Seq(Block)
      /\ b \notin ToSet(links) /\ links' = Append(links, b) /\ op = "none"
      /\ UNCHANGED <<in, on, out, input, running, live, at, arg, before, after, astray>>
  BY DEF ChainInv, ListOK, AddBlock, Begin, call, wiring
<1>2. at = "ready" /\ todo = <<>>
  BY <1>1 DEF Progress
<1>3. /\ links' \in Seq(Block) /\ Len(links') = Len(links) + 1 /\ links'[Len(links) + 1] = b
      /\ \A i \in 1..Len(links) : links'[i] = links[i]
  BY <1>1, AppendProperties
<1>4. /\ Len(links) \in Nat /\ DOMAIN links = 1..Len(links) /\ DOMAIN links' = 1..Len(links) + 1
      /\ \A i \in 1..Len(links) : links[i] \in ToSet(links)
  BY <1>1, <1>3, LenProperties, InBlock
<1>5. /\ \A i, j \in DOMAIN links' : links'[i] = links'[j] => i = j
  <2>1. \A i \in 1..Len(links) : links'[i] # b
    BY <1>1, <1>3, <1>4
  <2>2. \A i \in DOMAIN links' : i \in 1..Len(links) \/ i = Len(links) + 1
    BY <1>4
  <2>3. \A i, j \in 1..Len(links) : links[i] = links[j] => i = j
    BY <1>1, <1>4 DEF ListOK
  <2> QED
    BY <1>3, <2>1, <2>2, <2>3
<1>6. ToSet(links)' = ToSet(links) \cup {b}
  BY <1>3, <1>4 DEF ToSet
<1>7. ListOK'
  BY <1>1, <1>3, <1>5, <1>6 DEF ListOK
<1>8. \A c \in ToSet(links) : Rank'[c] = Rank[c]
  <2> SUFFICES ASSUME NEW c \in ToSet(links) PROVE Rank'[c] = Rank[c]
    OBVIOUS
  <2>1. Position(c) \in 1..Len(links) /\ links[Position(c)] = c /\ Rank[c] = Position(c)
    BY <1>1, Places, Ranked
  <2>2. links'[Position(c)] = c /\ Position(c) \in 1..Len(links')
    BY <1>3, <1>4, <2>1
  <2>3. /\ \A x \in ToSet(links)', i \in 1..Len(links') : links'[i] = x => Position(x)' = i
        /\ \A x \in ToSet(links)' : Rank'[x] = Position(x)'
    BY <1>7, NextList DEF ListFacts
  <2>4. Position(c)' = Position(c)
    BY <1>6, <2>2, <2>3
  <2> QED
    BY <1>6, <2>1, <2>3, <2>4
<1>9. \A x, y \in All : Rank[x] < Rank[y] <=> Rank'[x] < Rank'[y]
  <2>1. Rank[Consumer] = Len(links) + 1 /\ \A c \in ToSet(links) : Rank[c] \in 1..Len(links)
    BY <1>1, Ranked
  <2>2. Rank'[Consumer] = Len(links') + 1
    BY <1>7, NextList DEF ListFacts
  <2>3. \A x \in All : x = Consumer \/ x \in ToSet(links)
    BY <1>1 DEF All, ListOK
  <2> QED
    BY <1>3, <1>4, <1>8, <2>1, <2>2, <2>3
<1>10. Wired(on, All)'
  BY <1>1, <1>2, <1>7, <1>9, Reordered DEF Wiring, Wired, All
<1>11. Wiring'
  BY <1>1, <1>2, <1>10 DEF Wiring
<1>12. Workers'
  BY <1>1 DEF Workers
<1>13. /\ op' \in {"none", "enable"} /\ todo' \in Seq(Block) /\ ToSet(todo)' \subseteq {b}
       /\ op' = "none" => todo' = <<>>
  <2>1. CASE enabled
    BY <2>1, OneLong DEF AddBlock, Begin
  <2>2. CASE ~enabled
    BY <1>1, <1>2, <2>2, NoneLeft DEF AddBlock, call
  <2> QED
    BY <2>1, <2>2
<1>14. Typed'
  BY <1>1, <1>6, <1>13 DEF Typed
<1>15. Progress'
  BY <1>1, <1>2, <1>13 DEF Progress, Entering
<1> QED
  BY <1>7, <1>11, <1>12, <1>14, <1>15 DEF ChainInv

\* A step that changes neither the list, the source, the states nor the wiring.
Steady == UNCHANGED <<in, links, on, out, input, astray>>

\* After such a step, everything said of the wiring can be said again.
LEMMA SteadyFacts == ASSUME ChainInv, Steady
                     PROVE  /\ ListOK' /\ Rank' = Rank /\ ToSet(links)' = ToSet(links) /\ All' = All
                            /\ in' = in /\ on' = on /\ input' = input /\ out' = out /\ astray' = astray
                            /\ \A set, readers : Wired(set, readers) => Wired(set, readers)'
<1>1. Rank' = Rank /\ ToSet(links)' = ToSet(links)
  BY SameList DEF Steady
<1>2. ListOK'
  BY DEF Steady, ChainInv, ListOK, ToSet
<1> QED
  BY <1>1, <1>2 DEF Steady, ChainInv, All, Wired

\* enableBlock gathers the neighbours of a processor that is off.
LEMMA GatherStep == ASSUME ChainInv, Gather PROVE ChainInv'
<1>1. /\ ListOK /\ Typed /\ Progress /\ Workers /\ Wiring
      /\ op = "enable" /\ op' = "enable" /\ at = "ready" /\ todo # <<>>
      /\ arg' = Head(todo) /\ todo' = Tail(todo)
      /\ UNCHANGED <<in, links, on, out, input, running, live>>
  BY DEF ChainInv, Gather, TakeUp, wiring
<1>2. Rank' = Rank /\ ToSet(links)' = ToSet(links) /\ ListOK' /\ All' = All
  BY <1>1, SameList DEF ListOK, All
<1>3. /\ Head(todo) \in ToSet(todo) /\ Tail(todo) \in Seq(Block) /\ ToSet(Tail(todo)) \subseteq ToSet(todo)
      /\ ToSet(todo) \subseteq ToSet(links) /\ ToSet(todo)' = ToSet(Tail(todo))
  BY <1>1, TailIn DEF Typed, ToSet
<1>4. Workers'
  BY <1>1, <1>2 DEF Workers, Gather
<1>5. CASE Head(todo) \in on
  <2>1. UNCHANGED <<at, before, after, astray>>
    BY <1>5 DEF Gather
  <2>2. Progress'
    BY <1>1, <2>1 DEF Progress, Entering
  <2>3. Wiring'
    BY <1>1, <1>2, <2>1 DEF Wiring, Wired
  <2>4. Typed'
    BY <1>1, <1>2, <1>3, <2>1 DEF Typed
  <2> QED
    BY <1>2, <1>4, <2>2, <2>3, <2>4 DEF ChainInv
<1>6. CASE Head(todo) \notin on
  <2>1. /\ at' = "rewire" /\ before' = Before(Head(todo)) /\ after' = After(Head(todo))
        /\ astray' = (astray \/ PassesOver(Head(todo)))
    BY <1>6 DEF Gather
  <2>2. Progress'
    BY <1>1, <1>2, <1>3, <1>6, <2>1 DEF Progress, Entering
  <2>3. /\ ~astray' => ~astray /\ ~PassesOver(Head(todo))
        /\ astray' \in BOOLEAN
    BY <2>1
  <2>4. /\ Behind(on, Head(todo), after')
        /\ Joins(~astray', Rank, in, on, Head(todo), before') /\ before' \in on \cup {in}
    <3>1. on \ {Head(todo)} = on /\ Head(todo) \in ToSet(links)
      BY <1>3, <1>6
    <3>2. ~astray' => ~PassesOver(Head(todo))
      BY <2>3
    <3>3. /\ Joins(~astray', Rank, in, on \ {Head(todo)}, Head(todo), Before(Head(todo)))
          /\ Before(Head(todo)) \in on \cup {in}
      BY <1>1, <3>1, <3>2, BeforeIs
    <3>4. Behind(on, Head(todo), After(Head(todo)))
      BY <1>1, <3>1, AfterIs
    <3> QED
      BY <2>1, <3>1, <3>3, <3>4
  <2>5. Wired(on, All)'
    <3>1. \A r \in All : Joins(~astray, Rank, in, on, r, input[r])
      BY <1>1 DEF Wiring, Wired
    <3>2. \A r \in All : Joins(~astray', Rank, in, on, r, input[r])
      BY <2>3, <3>1, LessSure
    <3> QED
      BY <1>1, <1>2, <3>2 DEF Wired
  <2>6. Wiring'
    BY <1>1, <1>2, <2>1, <2>4, <2>5 DEF Wiring, Behind
  <2>7. before' \in Stream
    BY <1>1, <2>4, InBlock DEF Stream, ListOK, Typed
  <2>8. Typed'
    BY <1>1, <1>2, <1>3, <2>3, <2>7 DEF Typed
  <2> QED
    BY <1>2, <1>4, <2>2, <2>6, <2>8 DEF ChainInv
<1> QED
  BY <1>5, <1>6

\* What is told: the reader r reads s, all others what they did.
LEMMA Told == ASSUME ChainInv, NEW r \in Readers, NEW s \in Stream, Tell(r, s),
                     UNCHANGED <<in, links, on, running, op, todo, before, astray>>
              PROVE  /\ ListOK' /\ Typed' /\ Rank' = Rank /\ ToSet(links)' = ToSet(links) /\ All' = All
                     /\ on' = on /\ in' = in /\ astray' = astray
                     /\ input'[r] = s /\ \A q \in Readers : q # r => input'[q] = input[q]
<1>1. Rank' = Rank /\ ToSet(links)' = ToSet(links) /\ ListOK'
  BY SameList DEF ChainInv, ListOK
<1>2. /\ input' \in [Readers -> Stream] /\ out' = input'[Consumer]
      /\ input'[r] = s /\ \A q \in Readers : q # r => input'[q] = input[q]
  BY DEF ChainInv, Typed, Tell, Readers
<1>3. Typed'
  BY <1>1, <1>2 DEF ChainInv, Typed, ToSet
<1> QED
  BY <1>1, <1>2, <1>3 DEF All

\* The reader behind is told first: it reads the one that enters.
LEMMA RewireStep == ASSUME ChainInv, RewireAfter PROVE ChainInv'
<1>1. /\ ListOK /\ Typed /\ Progress /\ Workers /\ Wiring
      /\ at = "rewire" /\ at' = "input" /\ Tell(after, arg)
      /\ UNCHANGED <<in, links, on, running, live, op, todo, arg, before, after, astray>>
  BY DEF ChainInv, RewireAfter
<1>2. /\ op = "enable" /\ arg \in ToSet(links) \ on
      /\ Wired(on, All) /\ Behind(on, arg, after) /\ Joins(~astray, Rank, in, on, arg, before)
  BY <1>1 DEF Progress, Entering, Wiring
<1>3. after \in All /\ after \in Readers /\ arg \in Stream /\ arg \in Placed
      /\ on \in SUBSET Placed /\ Consumer \notin on /\ All \subseteq Readers
  BY <1>1, <1>2, InBlock DEF Behind, Follows, All, Placed, Stream
<1>4. /\ ListOK' /\ Typed' /\ Rank' = Rank /\ ToSet(links)' = ToSet(links) /\ All' = All
      /\ on' = on /\ in' = in /\ astray' = astray
      /\ input'[after] = arg /\ \A q \in Readers : q # after => input'[q] = input[q]
  BY <1>1, <1>3, Told
<1>5. /\ Joins(~astray, Rank, in, on \cup {arg}, after, arg)
      /\ \A r \in All : \A s : r # after /\ Joins(~astray, Rank, in, on, r, s) => Joins(~astray, Rank, in, on \cup {arg}, r, s)
  BY <1>1, <1>2, <1>3, Ranked, JoinIn DEF Behind, All
<1>6. Wired(on \cup {arg}, All)'
  BY <1>1, <1>2, <1>3, <1>4, <1>5 DEF Wired
<1>7. Wiring'
  BY <1>1, <1>2, <1>4, <1>6 DEF Wiring
<1>8. Progress' /\ Workers'
  BY <1>1, <1>2, <1>4 DEF Progress, Workers, Entering
<1> QED
  BY <1>4, <1>7, <1>8 DEF ChainInv

\* The one that enters reads what the reader behind it did.
LEMMA InputStep == ASSUME ChainInv, SetBlockInput PROVE ChainInv'
<1>1. /\ ListOK /\ Typed /\ Progress /\ Workers /\ Wiring
      /\ at = "input" /\ at' = (IF running THEN "start" ELSE "on") /\ Tell(arg, before)
      /\ UNCHANGED <<in, links, on, running, live, op, todo, arg, before, after, astray>>
  BY DEF ChainInv, SetBlockInput
<1>2. /\ op = "enable" /\ arg \in ToSet(links) \ on
      /\ Wired(on \cup {arg}, All) /\ Joins(~astray, Rank, in, on, arg, before)
  BY <1>1 DEF Progress, Entering, Wiring
<1>3. arg \in Readers /\ arg \in Placed /\ arg # Consumer /\ arg \notin All
      /\ on \in SUBSET Placed /\ All \subseteq Readers /\ before \in Stream
  BY <1>1, <1>2, InBlock DEF All, Placed, Readers, Typed
<1>4. /\ ListOK' /\ Typed' /\ Rank' = Rank /\ ToSet(links)' = ToSet(links) /\ All' = All
      /\ on' = on /\ in' = in /\ astray' = astray
      /\ input'[arg] = before /\ \A q \in Readers : q # arg => input'[q] = input[q]
  BY <1>1, <1>3, Told
<1>5. Joins(~astray, Rank, in, on \cup {arg}, arg, before)
  BY <1>1, <1>2, <1>3, Ranked, OwnInput
<1>6. Wired(on \cup {arg}, All \cup {arg})'
  BY <1>1, <1>2, <1>3, <1>4, <1>5 DEF Wired
<1>7. Wiring'
  BY <1>1, <1>2, <1>4, <1>6 DEF Wiring
<1>8. Progress' /\ Workers'
  BY <1>1, <1>2, <1>4 DEF Progress, Workers, Entering
<1> QED
  BY <1>4, <1>7, <1>8 DEF ChainInv

\* Its worker runs and its state is set when it is on the path.
LEMMA StartBlockStep == ASSUME ChainInv, StartBlock PROVE ChainInv'
<1>1. /\ ListOK /\ Typed /\ Progress /\ Workers /\ Wiring
      /\ at = "start" /\ at' = "on" /\ live' = live \cup {arg} /\ Steady
      /\ UNCHANGED <<running, op, todo, arg, before, after>>
  BY DEF ChainInv, StartBlock, Steady, wiring
<1>2. /\ ListOK' /\ Rank' = Rank /\ ToSet(links)' = ToSet(links) /\ All' = All
      /\ in' = in /\ on' = on /\ input' = input /\ out' = out /\ astray' = astray
  BY <1>1, SteadyFacts
<1>3. Typed'
  BY <1>1, <1>2 DEF Typed, ToSet
<1>4. Progress' /\ Workers'
  BY <1>1, <1>2 DEF Progress, Workers, Entering
<1>6. Wiring'
  BY <1>1, <1>2 DEF Wiring, Wired
<1> QED
  BY <1>2, <1>3, <1>4, <1>6 DEF ChainInv

\* It is on the path, so it can be enabled.
LEMMA SwitchOnStep == ASSUME ChainInv, SwitchOn PROVE ChainInv'
<1>1. /\ ListOK /\ Typed /\ Progress /\ Workers /\ Wiring
      /\ at = "on" /\ at' = "ready" /\ on' = on \cup {arg}
      /\ UNCHANGED <<in, links, out, input, running, live, op, todo, arg, before, after, astray>>
  BY DEF ChainInv, SwitchOn, wiring
<1>2. /\ op = "enable" /\ arg \in ToSet(links) \ on /\ Wired(on \cup {arg}, All \cup {arg})
  BY <1>1 DEF Progress, Entering, Wiring
<1>3. Rank' = Rank /\ ToSet(links)' = ToSet(links) /\ ListOK' /\ All' = All \cup {arg}
  BY <1>1, <1>2, SameList DEF ListOK, All
<1>4. Typed'
  BY <1>1, <1>3 DEF Typed, ToSet
<1>5. Progress' /\ Workers'
  BY <1>1, <1>2, <1>3 DEF Progress, Workers, Entering
<1>7. Wiring'
  BY <1>1, <1>2, <1>3 DEF Wiring, Wired
<1> QED
  BY <1>3, <1>4, <1>5, <1>7 DEF ChainInv

\* disableBlock stops the worker before anything else.
LEMMA ComeToStep == ASSUME ChainInv, ComeTo PROVE ChainInv'
<1>1. /\ ListOK /\ Typed /\ Progress /\ Workers /\ Wiring
      /\ op \in {"disable", "remove"} /\ at = "ready" /\ todo # <<>> /\ arg' = Head(todo) /\ todo' = Tail(todo)
      /\ at' = (IF Head(todo) \in on THEN "stop" ELSE "ready") /\ Steady
      /\ UNCHANGED <<running, live, op, before, after>>
  BY DEF ChainInv, ComeTo, TakeUp, Steady, wiring
<1>2. /\ ListOK' /\ Rank' = Rank /\ ToSet(links)' = ToSet(links) /\ All' = All
      /\ in' = in /\ on' = on /\ input' = input /\ out' = out /\ astray' = astray
  BY <1>1, SteadyFacts
<1>3. /\ Head(todo) \in ToSet(todo) /\ Tail(todo) \in Seq(Block) /\ ToSet(Tail(todo)) \subseteq ToSet(todo)
      /\ ToSet(todo) \subseteq ToSet(links) /\ ToSet(todo)' = ToSet(Tail(todo))
  BY <1>1, TailIn DEF Typed, ToSet
<1>4. Typed'
  BY <1>1, <1>2, <1>3 DEF Typed
<1>5. op = "remove" => todo' = <<>>
  BY <1>1 DEF Progress
<1>6. Progress' /\ Workers'
  BY <1>1, <1>2, <1>3, <1>5 DEF Progress, Workers, Entering
<1>7. Wiring'
  BY <1>1, <1>2 DEF Wiring, Wired
<1> QED
  BY <1>2, <1>4, <1>6, <1>7 DEF ChainInv

\* The worker is gone, the processor is still on the path.
LEMMA StopBlockStep == ASSUME ChainInv, StopBlock PROVE ChainInv'
<1>1. /\ ListOK /\ Typed /\ Progress /\ Workers /\ Wiring
      /\ at = "stop" /\ at' = "off" /\ live' = live \ {arg} /\ Steady
      /\ UNCHANGED <<running, op, todo, arg, before, after>>
  BY DEF ChainInv, StopBlock, Steady, wiring
<1>2. /\ ListOK' /\ Rank' = Rank /\ ToSet(links)' = ToSet(links) /\ All' = All
      /\ in' = in /\ on' = on /\ input' = input /\ out' = out /\ astray' = astray
  BY <1>1, SteadyFacts
<1>3. Typed'
  BY <1>1, <1>2 DEF Typed, ToSet
<1>4. Progress' /\ Workers'
  BY <1>1, <1>2 DEF Progress, Workers, Entering
<1>5. Wiring'
  BY <1>1, <1>2 DEF Progress, Wiring, Wired
<1> QED
  BY <1>2, <1>3, <1>4, <1>5 DEF ChainInv

\* The gathering of disableBlock: arg is off, but its readers still read it.
LEMMA SwitchOffStep == ASSUME ChainInv, SwitchOff PROVE ChainInv'
<1>1. /\ ListOK /\ Typed /\ Progress /\ Workers /\ Wiring
      /\ at = "off" /\ at' = "tell" /\ on' = on \ {arg} /\ before' = Before(arg) /\ after' = After(arg)
      /\ astray' = (astray \/ PassesOver(arg))
      /\ UNCHANGED <<in, links, out, input, running, live, op, todo, arg>>
  BY DEF ChainInv, SwitchOff, wiring
<1>2. /\ op \in {"disable", "remove"} /\ arg \in on /\ arg \in ToSet(links) /\ Wired(on, All)
  BY <1>1 DEF Progress, Wiring, ListOK
<1>3. Rank' = Rank /\ ToSet(links)' = ToSet(links) /\ ListOK' /\ on' \cup {arg} = on /\ All' \subseteq All
  BY <1>1, <1>2, SameList DEF ListOK, All
<1>4. /\ ~astray' => ~astray /\ ~PassesOver(arg)
      /\ astray' \in BOOLEAN
  BY <1>1
<1>5. Progress' /\ Workers'
  BY <1>1, <1>2, <1>3 DEF Progress, Workers, Entering
<1>6. Joins(~astray', Rank, in, on', arg, before') /\ before' \in on \cup {in}
  <2>1. ~astray' => ~PassesOver(arg)
    BY <1>4
  <2>2. Joins(~astray', Rank, in, on \ {arg}, arg, Before(arg)) /\ Before(arg) \in on \cup {in}
    BY <1>1, <1>2, <2>1, BeforeIs
  <2> QED
    BY <1>1, <2>2
<1>7. Behind(on', arg, after')
  <2>1. Behind(on, arg, after')
    BY <1>1, <1>2, AfterIs
  <2>2. Rank[arg] \in Int /\ on' = on \ {arg}
    BY <1>1, <1>2, Ranked
  <2> QED
    BY ONLY <2>1, <2>2 DEF Behind, Follows
<1>8. Wired(on \cup {arg}, All)'
  <2>1. on' \cup {arg'} = on /\ All' \subseteq All /\ input' = input /\ in' = in
    BY <1>1, <1>3
  <2>2. \A r \in All : Joins(~astray, Rank, in, on, r, input[r])
    BY <1>2 DEF Wired
  <2>3. \A r \in All : Joins(~astray', Rank, in, on, r, input[r])
    BY <1>4, <2>2, LessSure
  <2> QED
    BY <1>3, <2>1, <2>3 DEF Wired
<1>9. Wiring'
  BY <1>1, <1>2, <1>3, <1>6, <1>7, <1>8 DEF Wiring, Wired, Behind
<1>10. Typed'
  <2>1. before' \in Stream
    BY <1>1, <1>6, InBlock DEF Stream, ListOK, Typed
  <2> QED
    BY <1>1, <1>3, <1>4, <2>1 DEF Typed, ToSet
<1> QED
  BY <1>3, <1>5, <1>9, <1>10 DEF ChainInv

\* The reader behind, or first, is told, and the wiring is that of a quiet chain.
LEMMA TellStep == ASSUME ChainInv, TellAfter PROVE ChainInv'
<1>1. /\ ListOK /\ Typed /\ Progress /\ Workers /\ Wiring
      /\ at = "tell" /\ at' = "ready" /\ Tell(after, before)
      /\ UNCHANGED <<in, links, on, running, live, op, todo, arg, before, after, astray>>
  BY DEF ChainInv, TellAfter
<1>2. on \in SUBSET Placed /\ Consumer \notin on /\ All \subseteq Readers  /\ ToSet(links) \subseteq Block
      /\ on \subseteq Block /\ in \in Source
  BY <1>1, InBlock DEF All, Placed, ListOK, Typed
<1>3. after \in All /\ before \in Stream
  <2>1. CASE op = "setInput"
    BY <1>1, <2>1 DEF Wiring, Typed
  <2>2. CASE op # "setInput"
    BY <1>1, <2>2 DEF Wiring, Typed, Behind, Follows, All
  <2> QED
    BY <2>1, <2>2
<1>4. /\ ListOK' /\ Typed' /\ Rank' = Rank /\ ToSet(links)' = ToSet(links) /\ All' = All
      /\ on' = on /\ in' = in /\ astray' = astray
      /\ input'[after] = before /\ \A q \in Readers : q # after => input'[q] = input[q]
  BY <1>1, <1>2, <1>3, Told
<1>5. Wired(on, All)'
  <2>1. CASE op = "setInput"
    <3>1. before = in /\ Wired(on, All \ {after}) /\ \A b \in All : Rank[after] <= Rank[b]
      BY <1>1, <2>1 DEF Wiring
    <3>2. \A b \in All : Rank[b] \in Int
      BY <1>1, InBlock, Ranked DEF Ranking
    <3>3. Joins(~astray, Rank, in, on, after, before)
      BY <1>3, <3>1, <3>2 DEF Joins, All
    <3> QED
      BY <1>2, <1>3, <1>4, <3>1, <3>3 DEF Wired
  <2>2. CASE op # "setInput"
    <3>1. /\ Wired(on \cup {arg}, All) /\ Behind(on, arg, after) /\ Joins(~astray, Rank, in, on, arg, before)
          /\ arg \in ToSet(links) \ on /\ arg \in Placed
      BY <1>1, <2>2 DEF Wiring, Progress, Placed
    <3>2. /\ \A s : Joins(~astray, Rank, in, on, arg, s) => Joins(~astray, Rank, in, on, after, s)
          /\ \A r \in on \cup {Consumer} : \A s :
                r # after /\ Joins(~astray, Rank, in, on \cup {arg}, r, s) => Joins(~astray, Rank, in, on, r, s)
      <4>1. /\ Ranking(Rank, Placed, Consumer) /\ on \in SUBSET Placed /\ Consumer \notin on
            /\ arg \in Placed /\ arg \notin on /\ Follows(Rank, on, Consumer, arg, after)
        BY <1>1, <1>2, <3>1, Ranked DEF Behind
      <4> QED
        BY <4>1, LeaveOut
    <3> QED
      BY <1>2, <1>3, <1>4, <3>1, <3>2 DEF Wired, All
  <2> QED
    BY <2>1, <2>2
<1>6. Wiring'
  BY <1>1, <1>5 DEF Wiring
<1>7. Progress' /\ Workers'
  BY <1>1, <1>4 DEF Progress, Workers, Entering
<1> QED
  BY <1>4, <1>6, <1>7 DEF ChainInv

\* start() and stop() touch only workers of enabled processors.
LEMMA LoopStep == ASSUME ChainInv, StartNext \/ StopNext PROVE ChainInv'
<1>1. /\ ListOK /\ Typed /\ Progress /\ Workers /\ Wiring
      /\ op \in {"start", "stop"} /\ at = "ready" /\ todo # <<>> /\ todo' = Tail(todo)
      /\ live' \subseteq live \cup on /\ Steady
      /\ UNCHANGED <<running, op, at, before, after>>
  BY DEF ChainInv, StartNext, StopNext, TakeUp, Steady, wiring
<1>2. /\ ListOK' /\ Rank' = Rank /\ ToSet(links)' = ToSet(links) /\ All' = All
      /\ in' = in /\ on' = on /\ input' = input /\ out' = out /\ astray' = astray
  BY <1>1, SteadyFacts
<1>3. Tail(todo) \in Seq(Block) /\ ToSet(todo)' \subseteq ToSet(todo)
  BY <1>1, TailIn DEF Typed, ToSet
<1>4. Typed'
  BY <1>1, <1>2, <1>3 DEF Typed
<1>5. Progress' /\ Workers'
  BY <1>1, <1>2 DEF Progress, Workers, Entering
<1>6. Wiring'
  BY <1>1, <1>2 DEF Wiring, Wired
<1> QED
  BY <1>2, <1>4, <1>5, <1>6 DEF ChainInv

\* With another source every reader but the first is wired as it was.
LEMMA SourceStep == ASSUME ChainInv, NEW s \in Source, SetInput(s) PROVE ChainInv'
<1>1. /\ ListOK /\ Typed /\ Progress /\ Workers /\ Wiring
      /\ op = "none" /\ in' = s /\ op' = "setInput" /\ at' = "tell" /\ before' = s /\ after' = First
      /\ UNCHANGED <<links, on, out, input, running, live, todo, arg, astray>>
  BY DEF ChainInv, SetInput, wiring
<1>2. at = "ready" /\ todo = <<>> /\ Wired(on, All)
  BY <1>1 DEF Progress, Wiring
<1>3. Rank' = Rank /\ ToSet(links)' = ToSet(links) /\ ListOK' /\ All' = All
  BY <1>1, SameList DEF ListOK, All
<1>4. /\ First \in All /\ \A b \in All : Rank[First] <= Rank[b] /\ Rank[b] \in Int
      /\ \A b, c \in All : Rank[b] = Rank[c] => b = c
      /\ \A b \in All : Rank[b] <= Rank[Consumer]
  BY <1>1, <1>2, FirstOfAll, InBlock, Ranked DEF Ranking
<1>5. input[First] \in Source
  <2>1. Joins(~astray, Rank, in, on, First, input[First])
    BY <1>2, <1>4 DEF Wired
  <2> QED
    BY <1>1, <1>4, <2>1 DEF Joins, All, Typed
<1>6. ASSUME NEW r \in All \ {First} PROVE Joins(~astray, Rank, s, on, r, input[r])
  <2>1. Rank[First] < Rank[r] /\ First \in on
    BY <1>4 DEF All
  <2>2. Joins(~astray, Rank, in, on, r, input[r])
    BY <1>2 DEF Wired
  <2>3. ~\A b \in on : Rank[b] >= Rank[r]
    BY <1>4, <2>1
  <2> QED
    BY <2>2, <2>3 DEF Joins
<1>7. Wired(on, All \ {after})'
  BY <1>1, <1>3, <1>6 DEF Wired
<1>8. Wiring'
  BY <1>1, <1>3, <1>4, <1>5, <1>7 DEF Wiring, Wired
<1>9. Typed'
  BY <1>1, <1>3 DEF Typed, ToSet, Stream
<1>10. Progress' /\ Workers'
  BY <1>1, <1>2, <1>3 DEF Progress, Workers, Entering
<1> QED
  BY <1>3, <1>8, <1>9, <1>10 DEF ChainInv

\* When nobody is enabled any more the wiring is known again: the consumer reads the
\* source, whatever blockBefore has gathered.
LEMMA Settled == ASSUME astray' = (astray /\ on # {}), NEW rank, NEW r, NEW s,
                        Joins(~astray, rank, in, on, r, s)
                 PROVE  Joins(~astray', rank, in, on, r, s)
<1>1. CASE on = {}
  BY <1>1 DEF Joins
<1>2. CASE on # {}
  BY <1>2 DEF Joins
<1> QED
  BY <1>1, <1>2

\* removeBlock takes a processor that is switched off out of the list.
LEMMA RemoveStep == ASSUME ChainInv, Return, op = "remove" PROVE ChainInv'
<1>1. /\ ListOK /\ Typed /\ Progress /\ Workers /\ Wiring /\ links \in Seq(Block)
      /\ at = "ready" /\ todo = <<>> /\ op' = "none" /\ links' = RemoveAt(links, Position(arg))
      /\ before' = in /\ astray' = (astray /\ on # {})
      /\ UNCHANGED <<in, on, out, input, running, live, todo, at>>
  BY DEF ChainInv, ListOK, Return, wiring
<1>2. arg \in ToSet(links) \ on
  BY <1>1 DEF Progress
<1> DEFINE k == Position(arg)
<1>3. k \in 1..Len(links) /\ links[k] = arg /\ k \in Int
  BY <1>1, <1>2, Places
<1>4. /\ links' \in Seq(Block) /\ Len(links') = Len(links) - 1
      /\ \A i \in 1..Len(links)-1 : links'[i] = links[IF i < k THEN i ELSE i + 1]
  <2>1. /\ RemoveAt(links, k) \in Seq(Block) /\ Len(RemoveAt(links, k)) = Len(links) - 1
        /\ \A i \in 1..Len(links)-1 : RemoveAt(links, k)[i] = links[IF i < k THEN i ELSE i + 1]
    BY <1>1, <1>3, Without
  <2> QED
    BY <1>1, <2>1
<1>5. /\ Len(links) \in Nat /\ DOMAIN links = 1..Len(links) /\ DOMAIN links' = 1..Len(links)-1
      /\ \A i \in 1..Len(links) : links[i] \in ToSet(links)
      /\ \A i, j \in 1..Len(links) : links[i] = links[j] => i = j
  <2>1. DOMAIN links' = 1..Len(links')
    BY <1>4, LenProperties
  <2> QED
    BY <1>1, <1>4, <2>1, InBlock DEF ListOK
<1> DEFINE from(i) == IF i < k THEN i ELSE i + 1
<1>6. \A i \in 1..Len(links)-1 : from(i) \in 1..Len(links) /\ from(i) # k
  BY <1>3, <1>5
<1>7. \A i, j \in DOMAIN links' : links'[i] = links'[j] => i = j
  <2>1. \A i, j \in 1..Len(links)-1 : from(i) = from(j) => i = j
    BY <1>3, <1>5
  <2>2. \A i \in 1..Len(links)-1 : links'[i] = links[from(i)]
    BY <1>4
  <2> HIDE DEF from
  <2> QED
    BY <1>5, <1>6, <2>1, <2>2
<1>8. \A b \in ToSet(links) : b # arg =>
         LET i == IF Rank[b] < k THEN Rank[b] ELSE Rank[b] - 1
         IN  i \in 1..Len(links)-1 /\ links'[i] = b
  <2> SUFFICES ASSUME NEW b \in ToSet(links), b # arg
               PROVE  LET i == IF Rank[b] < k THEN Rank[b] ELSE Rank[b] - 1
                      IN  i \in 1..Len(links)-1 /\ links'[i] = b
    OBVIOUS
  <2> DEFINE i == IF Rank[b] < k THEN Rank[b] ELSE Rank[b] - 1
  <2>1. Rank[b] \in 1..Len(links) /\ links[Rank[b]] = b /\ Rank[b] # k
    BY <1>1, <1>3, Places, Ranked
  <2>2. i \in 1..Len(links)-1 /\ from(i) = Rank[b]
    BY <1>3, <1>5, <2>1
  <2>3. links'[i] = links[from(i)]
    BY <1>4, <2>2
  <2>4. links'[i] = b
    BY ONLY <2>1, <2>2, <2>3
  <2> QED
    BY <2>2, <2>4
<1>9. ToSet(links)' = ToSet(links) \ {arg}
  <2>1. \A b \in ToSet(links) \ {arg} : b \in ToSet(links)'
    <3>1. \A b \in ToSet(links) \ {arg} : \E i \in 1..Len(links)-1 : links'[i] = b
      BY <1>8
    <3> QED
      BY <1>5, <3>1 DEF ToSet
  <2>2. \A i \in 1..Len(links)-1 : links'[i] \in ToSet(links) \ {arg}
    <3>1. \A i \in 1..Len(links)-1 : links'[i] = links[from(i)]
      BY <1>4
    <3> HIDE DEF from
    <3> QED
      BY <1>3, <1>5, <1>6, <3>1
  <2>3. \A b \in ToSet(links)' : b \in ToSet(links) \ {arg}
    BY <1>5, <2>2 DEF ToSet
  <2> QED
    BY <2>1, <2>3
<1>10. ListOK'
  BY <1>1, <1>2, <1>4, <1>7, <1>9 DEF ListOK
<1>11. \A b \in ToSet(links) : b # arg => Rank'[b] = IF Rank[b] < k THEN Rank[b] ELSE Rank[b] - 1
  <2>1. /\ \A x \in ToSet(links)', i \in 1..Len(links') : links'[i] = x => Position(x)' = i
        /\ \A x \in ToSet(links)' : Rank'[x] = Position(x)'
    BY <1>10, NextList DEF ListFacts
  <2> QED
    BY <1>4, <1>8, <1>9, <2>1
<1>12. \A x, y \in All : Rank[x] < Rank[y] <=> Rank'[x] < Rank'[y]
  <2>1. /\ Rank[Consumer] = Len(links) + 1
        /\ \A b \in ToSet(links) : Rank[b] \in 1..Len(links) /\ (b # arg => Rank[b] # k)
    BY <1>1, <1>2, <1>3, Ranked, Places
  <2>2. Rank'[Consumer] = Len(links)
    <3>1. Rank'[Consumer] = Len(links') + 1
      BY <1>10, NextList DEF ListFacts
    <3> QED
      BY <1>4, <1>5, <3>1
  <2>3. \A x \in All : x = Consumer \/ (x \in ToSet(links) /\ x # arg)
    BY <1>1, <1>2 DEF All, ListOK
  <2> HIDE DEF k
  <2> QED
    BY <1>3, <1>5, <1>11, <2>1, <2>2, <2>3
<1>13. Wiring'
  <2>1. \A r \in All : Joins(~astray, Rank', in, on, r, input[r])
    BY <1>1, <1>10, <1>12, Reordered DEF Wiring
  <2>2. \A r \in All : Joins(~astray', Rank', in, on, r, input[r])
    BY <1>1, <2>1, Settled
  <2>3. Wired(on, All)'
    BY <1>1, <2>2 DEF Wired, All
  <2> QED
    BY <1>1, <2>3 DEF Wiring
<1>14. Typed'
  BY <1>1, <1>9, NoneLeft DEF Typed, Stream
<1>15. Progress' /\ Workers'
  BY <1>1 DEF Progress, Workers, Entering
<1> QED
  BY <1>10, <1>13, <1>14, <1>15 DEF ChainInv

\* Operations end with the wiring they have left.
LEMMA ReturnStep == ASSUME ChainInv, Return PROVE ChainInv'
<1>1. CASE op = "remove"
  BY <1>1, RemoveStep
<1>2. CASE op # "remove"
  <2>1. /\ ListOK /\ Typed /\ Progress /\ Workers /\ Wiring
        /\ at = "ready" /\ at' = "ready" /\ todo = <<>> /\ todo' = <<>> /\ op' = "none"
        /\ running' \in BOOLEAN /\ before' = in /\ astray' = (astray /\ on # {})
        /\ UNCHANGED <<in, links, on, out, input, live>>
    BY <1>2 DEF ChainInv, Return, wiring, Typed
  <2>2. Rank' = Rank /\ ToSet(links)' = ToSet(links) /\ ListOK' /\ All' = All
    BY <2>1, SameList DEF ListOK, All
  <2>3. Typed'
    BY <2>1, <2>2 DEF Typed, ToSet, Stream
  <2>4. Progress' /\ Workers'
    BY <2>1, <2>2 DEF Progress, Workers, Entering
  <2>5. \A r \in All : Joins(~astray', Rank, in, on, r, input[r])
    <3>1. \A r \in All : Joins(~astray, Rank, in, on, r, input[r])
      BY <2>1 DEF Wiring, Wired
    <3> QED
      BY <2>1, <3>1, Settled
  <2>6. Wiring'
    BY <2>1, <2>2, <2>5 DEF Wiring, Wired
  <2> QED
    BY <2>2, <2>3, <2>4, <2>6 DEF ChainInv
<1> QED
  BY <1>1, <1>2

\* Every step preserves the invariant.
LEMMA ChainSteps == ChainInv /\ [ChainNext]_chainVars => ChainInv'
<1> SUFFICES ASSUME ChainInv, [ChainNext]_chainVars PROVE ChainInv'
  OBVIOUS
<1>1. ASSUME NEW b \in Block, NEW enabled \in BOOLEAN, AddBlock(b, enabled) PROVE ChainInv'
  BY <1>1, AddStep
<1>2. ASSUME NEW b \in Block, RemoveBlock(b) \/ EnableBlock(b) \/ DisableBlock(b) PROVE ChainInv'
  BY <1>2, BeginOne
<1>3. CASE EnableAllBlocks \/ DisableAllBlocks \/ Start \/ Stop
  BY <1>3, BeginAll
<1>4. ASSUME NEW s \in Source, SetInput(s) PROVE ChainInv'
  BY <1>4, SourceStep
<1>5. CASE Gather \/ RewireAfter \/ SetBlockInput \/ StartBlock \/ SwitchOn
  BY <1>5, GatherStep, RewireStep, InputStep, StartBlockStep, SwitchOnStep
<1>6. CASE ComeTo \/ StopBlock \/ SwitchOff \/ TellAfter
  BY <1>6, ComeToStep, StopBlockStep, SwitchOffStep, TellStep
<1>7. CASE StartNext \/ StopNext \/ Return
  BY <1>7, LoopStep, ReturnStep
<1>8. CASE UNCHANGED chainVars
  <2>1. /\ ListOK /\ Typed /\ Progress /\ Workers /\ Wiring /\ Steady
        /\ UNCHANGED <<running, live, op, todo, at, arg, before, after>>
    BY <1>8 DEF ChainInv, chainVars, wiring, call, Steady
  <2>2. /\ ListOK' /\ Rank' = Rank /\ ToSet(links)' = ToSet(links) /\ All' = All
        /\ in' = in /\ on' = on /\ input' = input /\ out' = out /\ astray' = astray
    BY <2>1, SteadyFacts
  <2>3. Typed'
    BY <2>1, <2>2 DEF Typed, ToSet
  <2>4. Progress' /\ Workers'
    BY <2>1, <2>2 DEF Progress, Workers, Entering
  <2>5. Wiring'
    BY <2>1, <2>2 DEF Wiring, Wired, Behind
  <2> QED
    BY <2>2, <2>3, <2>4, <2>5 DEF ChainInv
<1> QED
  BY <1>1, <1>2, <1>3, <1>4, <1>5, <1>6, <1>7, <1>8 DEF ChainNext

\* No two of the workers that run, or the consumer, read one stream.
LEMMA OneReaderHolds == ChainInv => OneReader
<1> SUFFICES ASSUME ChainInv, ~astray, NEW r \in live \cup {Consumer}, NEW q \in live \cup {Consumer}, r # q,
                    input[r] = input[q]
             PROVE  FALSE
  BY DEF OneReader
<1>1. /\ ListOK /\ Typed /\ Progress /\ Workers /\ Wiring
  BY DEF ChainInv
<1>2. /\ Ranking(Rank, Placed, Consumer) /\ ToSet(links) \subseteq Placed /\ Consumer \notin ToSet(links)
      /\ on \subseteq ToSet(links) /\ in \notin ToSet(links)
  BY <1>1, Ranked, InBlock, ChainAssumption DEF Placed, ListOK, Typed
<1>3. ASSUME NEW set \in SUBSET ToSet(links), r \in set \cup {Consumer}, q \in set \cup {Consumer},
             Joins(TRUE, Rank, in, set, r, input[r]), Joins(TRUE, Rank, in, set, q, input[q])
      PROVE  FALSE
  <2>1. /\ Ranking(Rank, Placed, Consumer) /\ set \in SUBSET Placed /\ Consumer \notin set /\ in \notin set
        /\ r \in set \cup {Consumer} /\ q \in set \cup {Consumer} /\ r # q
        /\ Joins(TRUE, Rank, in, set, r, input[r]) /\ Joins(TRUE, Rank, in, set, q, input[r])
    BY <1>2, <1>3
  <2> QED
    BY ONLY <2>1, Apart
<1>4. \A set, readers : Wired(set, readers) => \A x \in readers : Joins(TRUE, Rank, in, set, x, input[x])
  BY DEF Wired, Joins
<1>5. CASE at \in {"ready", "rewire", "stop", "off"}
  <2>1. r \in All /\ q \in All /\ Wired(on, All)
    BY <1>1, <1>5 DEF Workers, Wiring, All
  <2>2. /\ Joins(TRUE, Rank, in, on, r, input[r]) /\ Joins(TRUE, Rank, in, on, q, input[q])
        /\ on \in SUBSET ToSet(links) /\ r \in on \cup {Consumer} /\ q \in on \cup {Consumer}
    BY <1>2, <1>4, <2>1 DEF All
  <2> QED
    BY <1>3, <2>2
<1>6. CASE at = "input" \/ (at = "tell" /\ op # "setInput")
  <2>1. r \in All /\ q \in All /\ Wired(on \cup {arg}, All) /\ arg \in ToSet(links)
    BY <1>1, <1>6 DEF Workers, Wiring, All, Progress, Entering
  <2>2. /\ Joins(TRUE, Rank, in, on \cup {arg}, r, input[r]) /\ Joins(TRUE, Rank, in, on \cup {arg}, q, input[q])
        /\ on \cup {arg} \in SUBSET ToSet(links)
        /\ r \in on \cup {arg} \cup {Consumer} /\ q \in on \cup {arg} \cup {Consumer}
    BY <1>2, <1>4, <2>1 DEF All
  <2> QED
    BY <1>3, <2>2
<1>7. CASE at \in {"start", "on"}
  <2>1. /\ r \in All \cup {arg} /\ q \in All \cup {arg} /\ arg \in ToSet(links)
        /\ Wired(on \cup {arg}, All \cup {arg})
    BY <1>1, <1>7 DEF Workers, Wiring, All, Progress, Entering
  <2>2. /\ Joins(TRUE, Rank, in, on \cup {arg}, r, input[r]) /\ Joins(TRUE, Rank, in, on \cup {arg}, q, input[q])
        /\ on \cup {arg} \in SUBSET ToSet(links)
        /\ r \in on \cup {arg} \cup {Consumer} /\ q \in on \cup {arg} \cup {Consumer}
    BY <1>2, <1>4, <2>1 DEF All
  <2> QED
    BY <1>3, <2>2
<1>8. CASE at = "tell" /\ op = "setInput"
  <2>1. /\ r \in All /\ q \in All /\ after \in All /\ input[after] \in Source
        /\ Wired(on, All \ {after}) /\ \A b \in All : Rank[after] <= Rank[b]
    BY <1>1, <1>8 DEF Workers, Wiring, All
  <2>2. \A x \in All \ {after} : input[x] \notin Source
    <3> SUFFICES ASSUME NEW x \in All, x # after PROVE input[x] \notin Source
      OBVIOUS
    <3>1. /\ \A b \in All : Rank[b] \in Int /\ Rank[b] <= Rank[Consumer]
          /\ \A b, c \in All : Rank[b] = Rank[c] => b = c
      BY <1>1, InBlock, Ranked DEF Ranking
    <3>2. Rank[after] < Rank[x] /\ after \in on
      BY <2>1, <3>1 DEF All
    <3>3. Joins(~astray, Rank, in, on, x, input[x])
      BY <2>1 DEF Wired
    <3>4. input[x] \in on
      BY <3>1, <3>2, <3>3 DEF Joins, All
    <3> QED
      BY <1>1, <1>2, <3>4, InBlock, ChainAssumption
  <2>3. r # after /\ q # after
    BY <2>1, <2>2
  <2>4. /\ Joins(TRUE, Rank, in, on, r, input[r]) /\ Joins(TRUE, Rank, in, on, q, input[q])
        /\ on \in SUBSET ToSet(links) /\ r \in on \cup {Consumer} /\ q \in on \cup {Consumer}
    BY <1>2, <1>4, <2>1, <2>3 DEF All
  <2> QED
    BY <1>3, <2>4
<1> QED
  BY <1>1, <1>5, <1>6, <1>7, <1>8 DEF Progress

\* Between operations all readers are wired to the enabled processors.
LEMMA LinearHolds == ChainInv => Linear
<1> SUFFICES ASSUME ChainInv, op = "none"
             PROVE  /\ out = input[Consumer] /\ input[First] = in
                    /\ ~astray => \A r \in on \cup {Consumer} : Nearest(on, r, input[r])
  BY DEF Linear
<1>1. ListOK /\ out = input[Consumer] /\ Wired(on, All) /\ on \in SUBSET ToSet(links) /\ All \subseteq Placed
  BY InBlock DEF ChainInv, Typed, Progress, Wiring, ListOK
<1>2. input[First] = in
  <2>1. First \in All /\ \A b \in All : Rank[First] <= Rank[b] /\ Rank[b] \in Int
    BY <1>1, FirstOfAll, Ranked DEF Ranking
  <2>2. Joins(~astray, Rank, in, on, First, input[First])
    BY <1>1, <2>1 DEF Wired
  <2> QED
    BY <2>1, <2>2 DEF Joins, All
<1>3. ASSUME ~astray, NEW r \in All PROVE Nearest(on, r, input[r])
  <2>1. Joins(TRUE, Rank, in, on, r, input[r])
    BY <1>1, <1>3 DEF Wired, Joins
  <2> QED
    BY <1>1, <2>1, NearestIs
<1> QED
  BY <1>1, <1>2, <1>3 DEF All

\* The invariant holds in every reachable state (chain.h, all operations).
THEOREM ChainInvariance == ChainSpec => []ChainInv
<1>1. ChainInit => ChainInv
  BY ChainStart
<1>2. ChainInv /\ [ChainNext]_chainVars => ChainInv'
  BY ChainSteps
<1> QED
  BY <1>1, <1>2, PTL DEF ChainSpec

\* However many processors are enabled together, and until blockBefore passes over
\* one of them, no stream has two readers: at every step of every operation the
\* workers that run and the consumer read different ones (chain.h enableBlock,
\* disableBlock, setInput).
THEOREM ChainOneReader == ChainSpec => []OneReader
<1>1. ChainSpec => []ChainInv
  BY ChainInvariance
<1>2. ChainInv => OneReader
  BY OneReaderHolds
<1> QED
  BY <1>1, <1>2, PTL

\* Between operations the first reader reads the source, however many processors
\* are enabled, and until blockBefore passes over one of them they form one path
\* to the consumer in the order of the list (chain.h blockBefore, blockAfter).
THEOREM ChainLinear == ChainSpec => []Linear
<1>1. ChainSpec => []ChainInv
  BY ChainInvariance
<1>2. ChainInv => Linear
  BY LinearHolds
<1> QED
  BY <1>1, <1>2, PTL
=============================================================================
