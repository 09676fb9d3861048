------------------------ MODULE BlockLifecycleProofs ------------------------
(***************************************************************************)
(* Proofs about what runs and waits: a block with its worker and its       *)
(* control threads (BlockLifecycle), the ring between two threads          *)
(* (RingBuffer) and the block made of both (Reshaper).                     *)
(*                                                                         *)
(* The block, for any number of control threads and any nesting of         *)
(* setters: the invariant is who holds ctrlMtx or has a bracket open       *)
(* without it, and, until two such threads have met, what each place in a  *)
(* call has established.                                                   *)
(*                                                                         *)
(* The ring, for every size, latency and length of calls: NoSharedCell and *)
(* Fifo.  The invariant relates each count to the samples in the ring as   *)
(* far as its own thread has come (Sums), keeps a batch within the count   *)
(* it was taken from, which the other thread only raises (WriterOK,        *)
(* ReaderOK), and says what the cells hold (Contents).                     *)
(*                                                                         *)
(* The reshaper, for every shape: Windows.  The invariant says where the   *)
(* read in progress began (Base) and that the buffer holds consecutive     *)
(* samples up to there (ReadOK), and likewise between reads (RestOK).      *)
(***************************************************************************)
EXTENDS BlockLifecycle, Reshaper, SequenceTheorems, TLAPS

Places == {"idle", "launch", "stopInputs", "stopOutputs", "join", "clear", "change", "open"}
Stops  == {"stopInputs", "stopOutputs", "join", "clear"}

\* Who holds ctrlMtx, and who has a bracket open without it.
PlaceOK(c) == /\ pc[c] \in {"launch", "change"} => owner = c
              /\ owner = c => pc[c] \in {"launch", "change"} \cup Stops
              /\ pc[c] = "idle" => c \notin open
              /\ pc[c] = "open" => c \in open
              /\ pc[c] \in Stops /\ owner # c => c \in open
              /\ pc[c] = "launch" => nest = 0
              /\ pc[c] = "change" => nest > 0

MutexOK == /\ \A c \in Caller : PlaceOK(c)
           /\ owner = Nobody => nest = 0

\* What a thread that is alone has established so far.
Depth(c) == nest + IF c \in open THEN 1 ELSE 0
InStop(c) == /\ running /\ ~tempStopped /\ tempStopDepth = Depth(c)
             /\ tempStopDepth \in {0, 1} /\ (owner = c /\ nest = 0 => c \notin open)
             /\ (owner # c => nest = 0)
Cleared == ~readerStop /\ ~writerStop
CallOK(c) ==
    /\ pc[c] = "launch"      => /\ running /\ ~tempStopped /\ tempStopDepth = 0 /\ worker = "none" /\ Cleared
                                /\ c \notin open
    /\ pc[c] = "stopInputs"  => InStop(c) /\ Alive /\ Cleared
    /\ pc[c] = "stopOutputs" => InStop(c) /\ worker # "none"
    /\ pc[c] = "join"        => InStop(c) /\ worker # "none"
    /\ pc[c] = "clear"       => InStop(c) /\ worker = "none"
    /\ pc[c] = "change"      => /\ worker = "none" /\ Cleared /\ tempStopDepth = Depth(c)
                                /\ tempStopped <=> running
    /\ pc[c] = "open"        => /\ worker = "none" /\ Cleared /\ tempStopDepth = 1 /\ nest = 0
                                /\ tempStopped <=> running

Rest(c)  == \A d \in Caller \ {c} : pc[d] = "idle"
\* Until two threads have met, one is inside at a time.
Single == \A c, d \in Caller : c # d => pc[c] = "idle" \/ pc[d] = "idle"

Uncrossed == Single /\ \A c \in Caller : CallOK(c)

IInv == /\ TypeOK /\ MutexOK
        /\ ~crossed => Uncrossed
        /\ QuietMeansConsistent /\ NeverTerminates

USE DEF TypeOK, MutexOK, QuietMeansConsistent, NeverTerminates, InStop, Cleared, Alive, Places, Stops

-----------------------------------------------------------------------------
\* A block just constructed satisfies the invariant (block.h members).
LEMMA InitInv == Init => IInv
<1> SUFFICES ASSUME Init PROVE IInv
  OBVIOUS
<1>1. TypeOK
  <2>1. nest \in 0..MaxNest
    BY LifecycleAssumption DEF Init
  <2>2. pc \in [Caller -> Places]
    BY DEF Init
  <2>3. QED
    BY <2>1, <2>2 DEF Init
<1>2. MutexOK /\ Uncrossed
  BY LifecycleAssumption DEF Init, CallOK, PlaceOK, Uncrossed, Single
<1>3. QuietMeansConsistent /\ NeverTerminates
  BY DEF Init
<1>4. QED
  BY <1>1, <1>2, <1>3 DEF IInv

\* A thread that is not inside a call constrains nothing: while the others are not, a
\* step of c need only be followed through CallOK(c).
LEMMA Others ==
    ASSUME NEW c \in Caller, Rest(c), pc' \in [Caller -> Places],
           \A d \in Caller \ {c} : pc'[d] = pc[d],
           CallOK(c)'
    PROVE  Uncrossed'
<1>1. \A d \in Caller \ {c} : pc'[d] = "idle"
  BY DEF Rest
<1>2. \A d \in Caller \ {c} : CallOK(d)'
  BY <1>1 DEF CallOK
<1>3. Single'
  BY <1>1 DEF Single
<1>4. QED
  BY <1>2, <1>3 DEF Uncrossed

\* Worker and neighbours preserve the invariant (stream.h, processor.h run).
LEMMA WorkInv == IInv /\ (Work \/ Neighbours) => IInv'
<1> SUFFICES ASSUME IInv, Work \/ Neighbours PROVE IInv'
  OBVIOUS
<1> USE DEF block, stops, streams, control, IInv, Uncrossed, Single, CallOK, PlaceOK, Depth
<1>1. CASE Read
  BY <1>1 DEF Read
<1>2. CASE ProcessAndFlush
  BY <1>2 DEF ProcessAndFlush
<1>3. CASE Swap
  BY <1>3 DEF Swap
<1>4. CASE Neighbours
  <2>1. inFull' \in BOOLEAN /\ outFull' \in BOOLEAN
    BY <1>4 DEF Neighbours
  <2>2. UNCHANGED <<block, worker, stops, control, terminated, crossed>>
    BY <1>4 DEF Neighbours
  <2>3. TypeOK' /\ MutexOK'
    BY <2>1, <2>2
  <2>4. (~crossed => Uncrossed)' /\ QuietMeansConsistent' /\ NeverTerminates'
    BY <2>2
  <2> QED
    BY <2>3, <2>4
<1>5. QED
  BY <1>1, <1>2, <1>3, <1>4 DEF Work

Step(c) == Call(c) \/ Launch(c) \/ DoStop(c) \/ Leave(c)

\* Only c moves.
LEMMA Moves == ASSUME IInv, NEW c \in Caller, Step(c)
               PROVE  /\ pc' \in [Caller -> Places]
                      /\ \A d \in Caller \ {c} : pc'[d] = pc[d]
                      /\ crossed => crossed'
                      /\ crossed' \in BOOLEAN
<1> USE DEF Goto, Return, IInv
<1>1. CASE Start(c)
  BY <1>1 DEF Start, Meet, block, stops, streams, Acquire
<1>2. CASE Stop(c)
  BY <1>2 DEF Stop, Meet, block, stops, streams, Acquire
<1>3. CASE Enter(c)
  BY <1>3 DEF Enter, TempStop, Meet, stops, streams, Acquire
<1>4. CASE Nest(c)
  BY <1>4 DEF Nest, TempStop, stops, streams
<1>5. CASE Open(c)
  BY <1>5 DEF Open, TempStop, Meet, stops, streams
<1>6. CASE Shut(c)
  BY <1>6 DEF Shut, TempStart, DoStart, stops, streams
<1>7. CASE Launch(c)
  BY <1>7 DEF Launch, DoStart, block, stops, streams
<1>8. CASE StopInputs(c)
  BY <1>8 DEF StopInputs, block, streams
<1>9. CASE StopOutputs(c)
  BY <1>9 DEF StopOutputs, block, streams
<1>10. CASE Join(c)
  BY <1>10 DEF Join, block, stops, streams
<1>11. CASE Clear(c)
  BY <1>11 DEF Clear, Stopped, streams
<1>12. CASE Leave(c)
  BY <1>12 DEF Leave, TempStart, DoStart, stops, streams
<1> QED
  BY <1>1, <1>2, <1>3, <1>4, <1>5, <1>6, <1>7, <1>8, <1>9, <1>10, <1>11, <1>12 DEF Step, Call, DoStop

\* Types, and who holds what, whoever has met whom.
LEMMA PlaceInv == ASSUME IInv, NEW c \in Caller, Step(c)
                  PROVE  TypeOK' /\ MutexOK'
<1>m. pc' \in [Caller -> Places] /\ \A d \in Caller \ {c} : pc'[d] = pc[d]
  BY Moves
<1> USE LifecycleAssumption DEF Goto, Return, IInv, PlaceOK
<1>1. CASE Start(c)
  <2>1. TypeOK'
    BY <1>m, <1>1 DEF Start, Meet, block, stops, streams, Acquire
  <2>2. MutexOK'
    BY <1>m, <1>1 DEF Start, Meet, block, stops, streams, Acquire
  <2> QED
    BY <2>1, <2>2
<1>2. CASE Stop(c)
  <2>1. TypeOK'
    BY <1>m, <1>2 DEF Stop, Meet, block, stops, streams, Acquire
  <2>2. MutexOK'
    BY <1>m, <1>2 DEF Stop, Meet, block, stops, streams, Acquire
  <2> QED
    BY <2>1, <2>2
<1>3. CASE Enter(c)
  <2>1. TypeOK'
    BY <1>m, <1>3 DEF Enter, TempStop, Meet, stops, streams, Acquire
  <2>2. MutexOK'
    BY <1>m, <1>3 DEF Enter, TempStop, Meet, stops, streams, Acquire
  <2> QED
    BY <2>1, <2>2
<1>4. CASE Nest(c)
  <2>1. TypeOK'
    BY <1>m, <1>4 DEF Nest, TempStop, stops, streams
  <2>2. MutexOK'
    BY <1>m, <1>4 DEF Nest, TempStop, stops, streams
  <2> QED
    BY <2>1, <2>2
<1>5. CASE Open(c)
  <2>1. TypeOK'
    BY <1>m, <1>5 DEF Open, TempStop, Meet, stops, streams
  <2>2. MutexOK'
    BY <1>m, <1>5 DEF Open, TempStop, Meet, stops, streams
  <2> QED
    BY <2>1, <2>2
<1>6. CASE Shut(c)
  <2>0. tempStopDepth' \in Nat
    BY <1>6 DEF Shut, TempStart
  <2>w. /\ worker' \in {"none", "read", "process", "swap", "ended"}
        /\ terminated' \in BOOLEAN /\ tempStopped' \in BOOLEAN
    BY <1>6 DEF Shut, TempStart, DoStart
  <2>1. TypeOK'
    BY <1>m, <1>6, <2>0, <2>w DEF Shut, TempStart, stops, streams
  <2>2. MutexOK'
    BY <1>m, <1>6 DEF Shut, TempStart, DoStart, stops, streams
  <2> QED
    BY <2>1, <2>2
<1>7. CASE Launch(c)
  <2>1. TypeOK'
    BY <1>m, <1>7 DEF Launch, DoStart, block, stops, streams
  <2>2. MutexOK'
    BY <1>m, <1>7 DEF Launch, DoStart, block, stops, streams
  <2> QED
    BY <2>1, <2>2
<1>8. CASE StopInputs(c)
  <2>1. TypeOK'
    BY <1>m, <1>8 DEF StopInputs, block, streams
  <2>2. MutexOK'
    BY <1>m, <1>8 DEF StopInputs, block, streams
  <2> QED
    BY <2>1, <2>2
<1>9. CASE StopOutputs(c)
  <2>1. TypeOK'
    BY <1>m, <1>9 DEF StopOutputs, block, streams
  <2>2. MutexOK'
    BY <1>m, <1>9 DEF StopOutputs, block, streams
  <2> QED
    BY <2>1, <2>2
<1>10. CASE Join(c)
  <2>1. TypeOK'
    BY <1>m, <1>10 DEF Join, block, stops, streams
  <2>2. MutexOK'
    BY <1>m, <1>10 DEF Join, block, stops, streams
  <2> QED
    BY <2>1, <2>2
<1>11. CASE Clear(c)
  <2>1. TypeOK'
    BY <1>m, <1>11 DEF Clear, Stopped, streams
  <2>2. MutexOK'
    BY <1>m, <1>11 DEF Clear, Stopped, streams
  <2> QED
    BY <2>1, <2>2
<1>12. CASE Leave(c)
  <2>0. tempStopDepth' \in Nat
    BY <1>12 DEF Leave, TempStart
  <2>w. /\ worker' \in {"none", "read", "process", "swap", "ended"}
        /\ terminated' \in BOOLEAN /\ tempStopped' \in BOOLEAN
    BY <1>12 DEF Leave, TempStart, DoStart
  <2>n. nest' \in 0..MaxNest /\ owner' \in Caller \cup {Nobody}
    BY <1>12 DEF Leave
  <2>1. TypeOK'
    BY <1>m, <1>12, <2>0, <2>w, <2>n DEF Leave, TempStart, stops, streams
  <2>2. MutexOK'
    BY <1>m, <1>12 DEF Leave, TempStart, DoStart, stops, streams
  <2> QED
    BY <2>1, <2>2
<1> QED
  BY <1>1, <1>2, <1>3, <1>4, <1>5, <1>6, <1>7, <1>8, <1>9, <1>10, <1>11, <1>12 DEF Step, Call, DoStop

\* A step that leaves the threads uncrossed has found the others idle.
LEMMA Alone == ASSUME IInv, NEW c \in Caller, Step(c), ~crossed'
               PROVE  Rest(c) /\ ~crossed
<1>1. ~crossed /\ Single
  BY Moves DEF IInv, Uncrossed
<1>2. pc[c] # "idle" => Rest(c)
  BY <1>1 DEF Single, Rest
<1>3. pc[c] = "idle" => Rest(c)
  BY DEF Step, Call, Start, Stop, Enter, Open, Nest, Shut, Launch, DoStop, StopInputs, StopOutputs, Join, Clear, Leave, Meet, Rest
<1> QED
  BY <1>1, <1>2, <1>3

\* Every call's steps lead from what one place has established to what the next one
\* needs (block.h start, stop, tempStop, tempStart, doStart, doStop).
LEMMA CallStep == ASSUME IInv, NEW c \in Caller, Step(c), ~crossed'
                  PROVE  CallOK(c)' /\ QuietMeansConsistent' /\ ~terminated'
<1>r. Rest(c) /\ ~crossed /\ CallOK(c) /\ PlaceOK(c) /\ pc \in [Caller -> Places]
  BY Alone DEF IInv, Uncrossed
<1>m. pc' \in [Caller -> Places]
  BY Moves
<1>t. ~terminated /\ TypeOK /\ QuietMeansConsistent /\ (owner = Nobody => nest = 0)
  BY <1>r DEF IInv
<1>o. pc[c] = "idle" => owner = Nobody \/ owner \notin Caller
  BY <1>r DEF IInv, PlaceOK, Rest
<1> USE LifecycleAssumption DEF Goto, Return, CallOK, PlaceOK, Rest, Depth
<1>1. CASE Start(c)
  BY <1>r, <1>m, <1>t, <1>o, <1>1 DEF Start, Meet, block, stops, streams, Acquire
<1>2. CASE Stop(c)
  BY <1>r, <1>m, <1>t, <1>o, <1>2 DEF Stop, Meet, block, stops, streams, Acquire
<1>3. CASE Enter(c)
  BY <1>r, <1>m, <1>t, <1>o, <1>3 DEF Enter, TempStop, Meet, stops, streams, Acquire
<1>4. CASE Nest(c)
  BY <1>r, <1>m, <1>t, <1>o, <1>4 DEF Nest, TempStop, stops, streams
<1>5. CASE Open(c)
  BY <1>r, <1>m, <1>t, <1>o, <1>5 DEF Open, TempStop, Meet, stops, streams
<1>6. CASE Shut(c)
  BY <1>r, <1>m, <1>t, <1>o, <1>6 DEF Shut, TempStart, DoStart, stops, streams
<1>7. CASE Launch(c)
  BY <1>r, <1>m, <1>t, <1>o, <1>7 DEF Launch, DoStart, block, stops, streams
<1>8. CASE StopInputs(c)
  BY <1>r, <1>m, <1>t, <1>o, <1>8 DEF StopInputs, block, streams
<1>9. CASE StopOutputs(c)
  BY <1>r, <1>m, <1>t, <1>o, <1>9 DEF StopOutputs, block, streams
<1>10. CASE Join(c)
  BY <1>r, <1>m, <1>t, <1>o, <1>10 DEF Join, block, stops, streams
<1>11. CASE Clear(c)
  <2>1. InStop(c) /\ worker = "none" /\ worker' = "none" /\ Cleared' /\ ~terminated'
    BY <1>r, <1>t, <1>11 DEF Clear
  <2>2. CASE owner = c /\ nest = 0
    BY <1>r, <1>m, <1>t, <1>11, <2>1, <2>2 DEF Clear, Stopped
  <2>3. CASE owner = c /\ nest > 0
    <3>1. nest # 0
      BY <2>3
    <3>2. tempStopped' = TRUE /\ pc' = [pc EXCEPT ![c] = "change"] /\ running' = running
      BY <1>11, <2>3, <3>1, Zenon DEF Clear, Stopped
    <3>3. pc'[c] = "change" /\ tempStopped' /\ running'
      BY <1>r, <2>1, <3>2
    <3>4. Depth(c)' = Depth(c) /\ tempStopDepth' = Depth(c)
      BY <1>11, <2>1 DEF Clear
    <3>5. CallOK(c)'
      BY <2>1, <3>3, <3>4
    <3> QED
      BY <2>1, <3>3, <3>5
  <2>4. CASE owner # c
    <3>1. pc'[c] = "open" /\ tempStopped' /\ running' /\ c \in open
      BY <1>r, <1>t, <1>11, <2>1, <2>4 DEF Clear, Stopped
    <3>2. nest' = 0 /\ tempStopDepth' = 1
      BY <1>11, <2>1, <2>4, <3>1 DEF Clear
    <3> QED
      BY <1>t, <2>1, <3>1, <3>2
  <2> QED
    BY <1>t, <2>2, <2>3, <2>4
<1>12. CASE Leave(c)
  BY <1>r, <1>m, <1>t, <1>o, <1>12 DEF Leave, TempStart, DoStart, stops, streams
<1> QED
  BY <1>1, <1>2, <1>3, <1>4, <1>5, <1>6, <1>7, <1>8, <1>9, <1>10, <1>11, <1>12 DEF Step, Call, DoStop

LEMMA CallInv == ASSUME IInv, NEW c \in Caller, Step(c)
                 PROVE  IInv'
<1>1. TypeOK' /\ MutexOK'
  BY PlaceInv
<1>2. CASE crossed'
  BY <1>1, <1>2 DEF IInv
<1>3. CASE ~crossed'
  <2>1. CallOK(c)' /\ QuietMeansConsistent' /\ NeverTerminates'
    BY <1>3, CallStep
  <2>2. Uncrossed'
    BY <1>3, <2>1, Moves, Alone, Others
  <2> QED
    BY <1>1, <2>1, <2>2 DEF IInv
<1> QED
  BY <1>2, <1>3

\* The inductive invariant holds for any control threads and nesting depth.
THEOREM Invariance == Spec => []IInv
<1>1. IInv /\ [Next]_vars => IInv'
  <2> SUFFICES ASSUME IInv, [Next]_vars PROVE IInv'
    OBVIOUS
  <2>1. CASE UNCHANGED vars
    BY <2>1 DEF vars, block, stops, streams, control, IInv, CallOK, PlaceOK, Uncrossed, Single, Depth
  <2>2. QED
    BY <2>1, WorkInv, CallInv DEF Next, Step
<1>2. QED
  BY InitInv, <1>1, PTL DEF Spec

\* The types of the block's members (block.h).
THEOREM Typing == Spec => []TypeOK
<1>1. IInv => TypeOK
  BY DEF IInv
<1> HIDE DEF TypeOK
<1>2. QED
  BY <1>1, Invariance, PTL

\* Parameters change only while no worker thread exists, for any nesting of setters and
\* any number of callers, until two of them meet in a bracket without the mutex
\* (block.h tempStop, tempStart).
THEOREM Reconfiguration == Spec => []ReconfigExclusive
<1>1. IInv => ReconfigExclusive
  BY DEF IInv, ReconfigExclusive, CallOK, Uncrossed
<1>2. QED
  BY <1>1, Invariance, PTL

\* A joinable thread is never assigned to, so the program is never terminated by
\* starting a block, with the same exception (block.h doStart, doStop).
THEOREM NoTermination == Spec => []NeverTerminates
<1>1. IInv => NeverTerminates
  BY DEF IInv
<1> HIDE DEF NeverTerminates
<1>2. QED
  BY <1>1, Invariance, PTL

\* Whenever no call is in progress the flags, the streams' stop flags and the
\* thread agree (block.h start, stop, tempStop, tempStart).
THEOREM Quiescence == Spec => []QuietMeansConsistent
<1>1. IInv => QuietMeansConsistent
  BY DEF IInv
<1> HIDE DEF QuietMeansConsistent
<1>2. QED
  BY <1>1, Invariance, PTL

-----------------------------------------------------------------------------
(* The ring.                                                               *)

Index == 0..Size-1

\* The samples in the ring, and how many of them the counts do not show yet.
Used    == written - consumed
Copied  == InFlight(wpc, {"readable", "writable"}, wbatch)
Unknown == InFlight(wpc, {"readable"}, wbatch) + InFlight(rpc, {"writable"}, rbatch)

RingTyped == /\ buffer \in [Index -> Nat] /\ readc \in Index /\ maxLatency \in Nat
             /\ readable \in Nat /\ writable \in Nat /\ written \in Nat /\ consumed \in Nat
             /\ wbatch \in Nat /\ wleft \in Nat /\ seen \in Nat
             /\ rbatch \in Nat /\ rleft \in Nat /\ sleft \in Nat

\* The two counts, each as far as its thread has come.
Sums == readable = Used - Unknown /\ writable = Size - Used + Copied

\* A batch is within the count it was taken from, which the other thread only raises.
WriterOK == /\ wpc = "sum" => seen <= writable
            /\ wpc \in {"copy", "readable", "writable"} => wbatch <= writable /\ wbatch <= Size
            /\ wpc = "copy" => wbatch <= wleft
ReaderOK == /\ rpc \in {"copy", "readable"} => rbatch <= readable
            /\ rpc = "copy" => rbatch <= IF rleft > 0 THEN rleft ELSE sleft

\* From the reader's place on, the ring holds what was written and not read.
Contents == /\ writec = Cell(readc, Used - Copied)
            /\ \A i \in 0..Used-1 : buffer[Cell(readc, i)] = consumed + i + 1

RingInv == RingTyped /\ Sums /\ WriterOK /\ ReaderOK /\ Contents

-----------------------------------------------------------------------------
\* The ring is not empty.
LEMMA SizeType == Size \in Nat /\ Size > 0
  BY RingAssumption

\* A place in the ring without modulus, one turn forward or back.
LEMMA CellIs == ASSUME NEW c \in Index, NEW i \in -Size..Size
                PROVE  /\ Cell(c, i) = IF c + i < 0 THEN c + i + Size ELSE IF c + i < Size THEN c + i ELSE c + i - Size
                       /\ Cell(c, i) \in Index
<1> DEFINE n == c + i
<1>1. n \in -Size..2*Size-1 /\ n \in Int /\ Size \in Nat /\ Size > 0
  BY SizeType DEF Index
<1>2. n % Size = IF n < 0 THEN n + Size ELSE IF n < Size THEN n ELSE n - Size
  BY <1>1
<1> QED
  BY <1>1, <1>2 DEF Index, Cell

\* Going on twice is going on by the sum.
LEMMA CellAdds == ASSUME NEW c \in Index, NEW i \in -Size..Size, NEW j \in -Size..Size,
                         i + j \in -Size..Size
                  PROVE  Cell(Cell(c, i), j) = Cell(c, i + j)
<1>1. /\ Cell(c, i) = IF c + i < 0 THEN c + i + Size ELSE IF c + i < Size THEN c + i ELSE c + i - Size
      /\ Cell(c, i) \in Index
  BY CellIs
<1>2. Cell(c, i + j) = IF c + (i + j) < 0 THEN c + (i + j) + Size
                       ELSE IF c + (i + j) < Size THEN c + (i + j) ELSE c + (i + j) - Size
  BY CellIs
<1> DEFINE d == Cell(c, i)
<1> HIDE DEF d
<1>3. d \in Index
  BY <1>1 DEF d
<1>4. d \in Int
  BY <1>3, SizeType DEF Index
<1>5. Cell(d, j) = IF d + j < 0 THEN d + j + Size ELSE IF d + j < Size THEN d + j ELSE d + j - Size
  BY <1>3, CellIs
<1>6. d = IF c + i < 0 THEN c + i + Size ELSE IF c + i < Size THEN c + i ELSE c + i - Size
  BY <1>1 DEF d
<1>7. Cell(d, j) = Cell(c, i + j)
  BY <1>2, <1>4, <1>5, <1>6, SizeType DEF Index
<1> QED
  BY <1>7 DEF d

\* Within the ring, different distances are different cells.
LEMMA CellApart == ASSUME NEW c \in Index, NEW i \in Index, NEW j \in Index, Cell(c, i) = Cell(c, j)
                   PROVE  i = j
<1>1. /\ i \in -Size..Size /\ j \in -Size..Size
      /\ i \in Int /\ j \in Int /\ c \in Int /\ ~(c + i < 0) /\ ~(c + j < 0)
  BY SizeType DEF Index
<1>2. Cell(c, i) = IF c + i < Size THEN c + i ELSE c + i - Size
  BY <1>1, CellIs
<1>3. Cell(c, j) = IF c + j < Size THEN c + j ELSE c + j - Size
  BY <1>1, CellIs
<1>4. (IF c + i < Size THEN c + i ELSE c + i - Size) = (IF c + j < Size THEN c + j ELSE c + j - Size)
  BY <1>2, <1>3
<1> QED
  BY <1>4, SizeType DEF Index

\* The distance of a cell from another.
LEMMA CellBack == ASSUME NEW c \in Index, NEW i \in Index
                  PROVE  (Cell(c, i) - c + Size) % Size = i
<1> DEFINE n == Cell(c, i) - c + Size
<1>1. i \in -Size..Size
  BY SizeType DEF Index
<1>2. Cell(c, i) = IF c + i < 0 THEN c + i + Size ELSE IF c + i < Size THEN c + i ELSE c + i - Size
  BY <1>1, CellIs
<1>3. (n = i \/ n = i + Size) /\ n \in 0..2*Size-1
  BY <1>2, SizeType DEF Index
<1> HIDE DEF n
<1>4. n % Size = IF n < Size THEN n ELSE n - Size
  BY <1>3, SizeType
<1>5. n % Size = i
  BY <1>3, <1>4, SizeType DEF Index
<1> QED
  BY <1>5 DEF n

\* getWritable never answers more than is writable.
LEMMA RoomIs == ASSUME NEW w \in Nat, NEW r \in Nat, maxLatency \in Nat
                PROVE  Room(w, r) \in Nat /\ Room(w, r) <= w
  BY DEF Room, Most, Least

\* What both counts say of the samples in the ring.
LEMMA UsedIs == ASSUME RingTyped, Sums, WriterOK, ReaderOK
                PROVE  /\ Used \in 0..Size /\ Copied \in 0..Size /\ Unknown \in 0..Used
                       /\ rpc = "writable" => rbatch <= Used
<1>1. Copied \in Nat /\ Unknown \in Nat /\ (Copied = 0 \/ Copied <= writable)
  BY DEF Copied, Unknown, InFlight, RingTyped, WriterOK
<1>2. Used \in Int /\ Used >= Unknown
  BY <1>1, SizeType DEF RingTyped, Sums, Used
<1>3. Used <= Size
  BY <1>1, <1>2, SizeType DEF RingTyped, Sums
<1>4. Copied <= Size
  BY SizeType DEF RingTyped, WriterOK, Copied, InFlight
<1>5. rpc = "writable" => rbatch <= Unknown
  BY DEF Unknown, InFlight, RingTyped
<1> QED
  BY <1>1, <1>2, <1>3, <1>4, <1>5, SizeType DEF RingTyped

\* A batch that begins is no longer than the ring.
LEMMA RoomLeft == ASSUME RingInv, wpc \notin {"readable", "writable"} PROVE writable <= Size
  BY UsedIs, SizeType DEF RingInv, RingTyped, Sums, Copied, InFlight

\* The ring that init has made (ring_buffer.h init).
LEMMA RingStart == RingInit => RingInv
<1> SUFFICES ASSUME RingInit PROVE RingInv
  OBVIOUS
<1>1. 0 \in Index /\ 0 \in 0..Size
  BY SizeType DEF Index
<1>2. Used = 0 /\ Copied = 0 /\ Unknown = 0
  BY DEF RingInit, Used, Copied, Unknown, InFlight
<1>3. RingTyped
  <2>1. buffer \in [Index -> Nat] /\ maxLatency \in Nat
    BY RingAssumption DEF RingInit, Index
  <2> QED
    BY <1>1, <2>1, SizeType DEF RingInit, RingTyped
<1>4. Cell(0, 0) = 0
  BY <1>1, CellIs, SizeType
<1> QED
  BY <1>2, <1>3, <1>4, SizeType DEF RingInit, RingInv, Sums, WriterOK, ReaderOK, Contents

-----------------------------------------------------------------------------
(* Steps that move neither samples nor counts.                             *)

\* The writer's batch and the reader's, where they are in use.
LEMMA Settled == ASSUME RingInv,
                        UNCHANGED <<buffer, readc, writec, readable, writable, written, consumed>>,
                        maxLatency' \in Nat, wleft' \in Nat, wbatch' \in Nat, seen' \in Nat,
                        rleft' \in Nat, sleft' \in Nat, rbatch' \in Nat,
                        Copied' = Copied, Unknown' = Unknown, WriterOK', ReaderOK'
                 PROVE  RingInv'
<1>1. RingTyped' /\ Used' = Used
  BY DEF RingInv, RingTyped, Used
<1>2. Sums' /\ Contents'
  BY <1>1 DEF RingInv, Sums, Contents, Cell
<1> QED
  BY <1>1, <1>2 DEF RingInv

\* The writer's steps but for those that move data or a count.
LEMMA WriterSteps ==
  ASSUME RingInv, \/ CheckWriter \/ PeekWritable \/ SumWritable \/ WaitWritable \/ WriterSleeps \/ NotifyReadable
                  \/ \E len \in Nat : BeginWrite(len)
  PROVE  RingInv'
<1> USE DEF counts, flags, read, InFlight
<1>1. CASE CheckWriter \/ PeekWritable \/ WriterSleeps \/ \E len \in Nat : BeginWrite(len)
  <2>1. /\ UNCHANGED <<buffer, readc, writec, readable, writable, written, consumed, rpc, rleft, sleft, rbatch,
                       maxLatency, wbatch>>
        /\ wleft' \in Nat /\ seen' \in Nat
    BY <1>1 DEF CheckWriter, PeekWritable, WriterSleeps, BeginWrite, RingInv, RingTyped
  <2>2. Copied' = Copied /\ Unknown' = Unknown
    BY <1>1, <2>1 DEF CheckWriter, PeekWritable, WriterSleeps, BeginWrite, Copied, Unknown
  <2>3. WriterOK' /\ ReaderOK'
    BY <1>1, <2>1 DEF CheckWriter, PeekWritable, WriterSleeps, BeginWrite, WriterOK, ReaderOK, RingInv, RingTyped
  <2> QED
    BY <2>1, <2>2, <2>3, Settled DEF RingInv, RingTyped
<1>2. CASE SumWritable
  <2>1. /\ UNCHANGED <<buffer, readc, writec, readable, writable, written, consumed, rpc, rleft, sleft, rbatch,
                       maxLatency, wleft>>
        /\ seen' = 0 /\ wpc = "sum" /\ wpc' \in {"copy", "wait"}
    BY <1>2 DEF SumWritable, StartWrite
  <2>2. Room(seen, readable) \in Nat /\ Room(seen, readable) <= writable
    <3>1. Room(seen, readable) \in Nat /\ Room(seen, readable) <= seen
      BY RoomIs DEF RingInv, RingTyped
    <3>2. seen \in Nat /\ writable \in Nat /\ seen <= writable
      BY <2>1 DEF RingInv, RingTyped, WriterOK
    <3> QED
      BY <3>1, <3>2
  <2>3. wbatch' \in Nat /\ (wpc' = "copy" => wbatch' <= wleft /\ wbatch' <= writable)
    BY <1>2, <2>2 DEF SumWritable, StartWrite, Least, RingInv, RingTyped
  <2>4. Copied' = Copied /\ Unknown' = Unknown
    BY <2>1 DEF Copied, Unknown
  <2>5. wbatch' <= Size \/ wpc' # "copy"
    BY <2>1, <2>3, RoomLeft, SizeType DEF RingInv, RingTyped
  <2>6. WriterOK' /\ ReaderOK'
    BY <2>1, <2>3, <2>5 DEF WriterOK, ReaderOK, RingInv
  <2> QED
    BY <2>1, <2>3, <2>4, <2>6, Settled DEF RingInv, RingTyped
<1>3. CASE WaitWritable
  <2>1. /\ UNCHANGED <<buffer, readc, writec, readable, writable, written, consumed, rpc, rleft, sleft, rbatch,
                       maxLatency, seen>>
        /\ wpc = "wait" /\ wpc' \in {"copy", "idle", "doze"} /\ wleft' \in Nat
    BY <1>3 DEF WaitWritable, StartWrite, RingInv, RingTyped
  <2>2. Room(writable, readable) \in Nat /\ Room(writable, readable) <= writable
    BY RoomIs DEF RingInv, RingTyped
  <2>3. wbatch' \in Nat /\ (wpc' = "copy" => wbatch' <= wleft' /\ wbatch' <= writable)
    BY <1>3, <2>2 DEF WaitWritable, StartWrite, Least, RingInv, RingTyped
  <2>4. Copied' = Copied /\ Unknown' = Unknown
    BY <2>1 DEF Copied, Unknown
  <2>5. wbatch' <= Size \/ wpc' # "copy"
    BY <2>1, <2>3, RoomLeft, SizeType DEF RingInv, RingTyped
  <2>6. WriterOK' /\ ReaderOK'
    BY <2>1, <2>3, <2>5 DEF WriterOK, ReaderOK, RingInv
  <2> QED
    BY <2>1, <2>3, <2>4, <2>6, Settled DEF RingInv, RingTyped
<1>4. CASE NotifyReadable
  <2>1. /\ UNCHANGED <<buffer, readc, writec, readable, writable, written, consumed, rleft, sleft, rbatch,
                       maxLatency, seen, wleft>>
        /\ wpc = "notify" /\ wpc' \in {"check", "idle"} /\ wbatch' = 0
        /\ rpc' = rpc \/ (rpc = "asleep" /\ rpc' = "wait")
    BY <1>4 DEF NotifyReadable, WakeReader
  <2>2. Copied' = Copied /\ Unknown' = Unknown
    BY <2>1 DEF Copied, Unknown
  <2>3. WriterOK' /\ ReaderOK'
    BY <2>1 DEF WriterOK, ReaderOK, RingInv
  <2> QED
    BY <2>1, <2>2, <2>3, Settled DEF RingInv, RingTyped
<1> QED
  BY <1>1, <1>2, <1>3, <1>4

\* The reader's steps but for those that change a count; reading copies, and
\* changes nothing in the ring.
LEMMA ReaderSteps ==
  ASSUME RingInv, \/ CheckReader \/ PeekReadable \/ WaitReadable \/ ReaderSleeps \/ CopyOut \/ NotifyWritable \/ EndRead
                  \/ \E len, over \in Nat : BeginRead(len, over)
  PROVE  RingInv'
<1> USE DEF counts, flags, write, InFlight
<1>1. CASE CheckReader \/ ReaderSleeps \/ EndRead \/ \E len, over \in Nat : BeginRead(len, over)
  <2>1. /\ UNCHANGED <<buffer, readc, writec, readable, writable, written, consumed, wpc, wleft, wbatch, seen,
                       maxLatency, rbatch>>
        /\ rleft' \in Nat /\ sleft' \in Nat
        /\ rpc \notin {"copy", "readable", "writable"} /\ rpc' \notin {"copy", "readable", "writable"}
    <3>1. CASE CheckReader
      BY <3>1 DEF CheckReader, RingInv, RingTyped
    <3>2. CASE ReaderSleeps
      BY <3>2 DEF ReaderSleeps, RingInv, RingTyped
    <3>3. CASE EndRead
      BY <3>3 DEF EndRead, RingInv, RingTyped
    <3>4. CASE \E len, over \in Nat : BeginRead(len, over)
      BY <3>4 DEF BeginRead, RingInv, RingTyped
    <3> QED
      BY <1>1, <3>1, <3>2, <3>3, <3>4
  <2>2. Copied' = Copied /\ Unknown' = Unknown
    BY <2>1 DEF Copied, Unknown
  <2>3. WriterOK' /\ ReaderOK'
    BY <2>1 DEF WriterOK, ReaderOK, RingInv
  <2> QED
    BY <2>1, <2>2, <2>3, Settled DEF RingInv, RingTyped
<1>2. CASE PeekReadable \/ WaitReadable
  <2>1. /\ UNCHANGED <<buffer, readc, writec, readable, writable, written, consumed, wpc, wleft, wbatch, seen,
                       maxLatency, rleft, sleft>>
        /\ rpc \in {"peek", "wait"} /\ rpc' \in {"copy", "wait", "stopped", "doze"}
    BY <1>2 DEF PeekReadable, WaitReadable, StartRead
  <2>2. /\ rbatch' \in Nat
        /\ rpc' = "copy" => rbatch' <= readable /\ rbatch' <= IF rleft > 0 THEN rleft ELSE sleft
    BY <1>2 DEF PeekReadable, WaitReadable, StartRead, Least, RingInv, RingTyped
  <2>3. Copied' = Copied /\ Unknown' = Unknown
    BY <2>1 DEF Copied, Unknown
  <2>4. WriterOK' /\ ReaderOK'
    BY <2>1, <2>2 DEF WriterOK, ReaderOK, RingInv
  <2> QED
    BY <2>1, <2>2, <2>3, <2>4, Settled DEF RingInv, RingTyped
<1>3. CASE CopyOut
  <2>1. /\ UNCHANGED <<buffer, readc, writec, readable, writable, written, consumed, wpc, wleft, wbatch, seen,
                       maxLatency, rbatch>>
        /\ rpc = "copy" /\ rpc' = "readable"
    BY <1>3 DEF CopyOut
  <2>2. rleft' \in Nat /\ sleft' \in Nat
    BY <1>3, <2>1 DEF CopyOut, RingInv, RingTyped, ReaderOK
  <2>3. Copied' = Copied /\ Unknown' = Unknown
    BY <2>1 DEF Copied, Unknown
  <2>4. WriterOK' /\ ReaderOK'
    BY <2>1 DEF WriterOK, ReaderOK, RingInv
  <2> QED
    BY <2>1, <2>2, <2>3, <2>4, Settled DEF RingInv, RingTyped
<1>4. CASE NotifyWritable
  <2>1. /\ UNCHANGED <<buffer, readc, writec, readable, writable, written, consumed, rleft, sleft, wbatch,
                       maxLatency, seen, wleft>>
        /\ rpc = "notify" /\ rpc' \in {"check", "done"} /\ rbatch' = 0
        /\ wpc' = wpc \/ (wpc = "asleep" /\ wpc' = "wait")
    BY <1>4 DEF NotifyWritable, WakeWriter
  <2>2. Copied' = Copied /\ Unknown' = Unknown
    BY <2>1 DEF Copied, Unknown
  <2>3. WriterOK' /\ ReaderOK'
    BY <2>1 DEF WriterOK, ReaderOK, RingInv
  <2> QED
    BY <2>1, <2>2, <2>3, Settled DEF RingInv, RingTyped
<1> QED
  BY <1>1, <1>2, <1>3, <1>4

\* At most one thread wakes up another, or the latency changes.
LEMMA Woken == ASSUME RingInv, rpc' = rpc \/ (rpc = "asleep" /\ rpc' = "wait"),
                      wpc' = wpc \/ (wpc = "asleep" /\ wpc' = "wait"), maxLatency' \in Nat,
                      UNCHANGED <<buffer, readc, writec, readable, writable, written, consumed, rleft, sleft,
                                  wbatch, seen, wleft, rbatch>>
               PROVE  RingInv'
<1>1. Copied' = Copied /\ Unknown' = Unknown
  BY DEF Copied, Unknown, InFlight
<1>2. WriterOK' /\ ReaderOK'
  BY DEF WriterOK, ReaderOK, RingInv
<1> QED
  BY <1>1, <1>2, Settled DEF RingInv, RingTyped

\* Stopping, and the latency.
LEMMA OtherSteps ==
  ASSUME RingInv, StopReader \/ StopWriter \/ NotifyStop \/ ClearStops \/ \E l \in Nat : SetMaxLatency(l)
  PROVE  RingInv'
<1> USE DEF counts, flags, write, read, InFlight, WakeReader, WakeWriter
<1>1. /\ UNCHANGED <<buffer, readc, writec, readable, writable, written, consumed, rleft, sleft, wbatch, seen, wleft, rbatch>>
      /\ maxLatency' \in Nat
      /\ rpc' = rpc \/ (rpc = "asleep" /\ rpc' = "wait")
      /\ wpc' = wpc \/ (wpc = "asleep" /\ wpc' = "wait")
  BY DEF StopReader, StopWriter, NotifyStop, ClearStops, SetMaxLatency, RingInv, RingTyped
<1> QED
  BY <1>1, Woken

-----------------------------------------------------------------------------
(* Steps that move samples or counts.                                      *)

\* A batch is copied to the free cells behind what is in the ring.
LEMMA CopyInStep == ASSUME RingInv, CopyIn PROVE RingInv'
<1> USE DEF counts, flags, read
<1>1. /\ wpc = "copy" /\ wpc' = "readable" /\ written' = written + wbatch /\ wleft' = wleft - wbatch
      /\ UNCHANGED <<readc, writec, readable, writable, maxLatency, wbatch, seen, rpc, rleft, sleft, rbatch, consumed>>
  BY DEF CopyIn
<1>2. /\ wbatch \in Nat /\ wleft \in Nat /\ written \in Nat /\ consumed \in Nat /\ wbatch <= wleft
      /\ wbatch <= writable /\ wbatch <= Size /\ readable \in Nat /\ writable \in Nat
  BY <1>1 DEF RingInv, RingTyped, WriterOK
<1>3. /\ Used \in 0..Size /\ Copied = 0
      /\ Used' = Used + wbatch /\ Copied' = wbatch /\ Unknown' = Unknown + wbatch
  BY <1>1, <1>2, UsedIs DEF RingInv, Used, Copied, Unknown, InFlight, RingTyped
<1>4. Sums'
  BY <1>1, <1>2, <1>3, SizeType DEF RingInv, Sums, RingTyped, Unknown, InFlight
<1>5. Used + wbatch <= Size
  BY <1>2, <1>3, SizeType DEF RingInv, Sums
<1>6. WriterOK' /\ ReaderOK'
  BY <1>1, <1>2 DEF RingInv, WriterOK, ReaderOK
<1>7. writec = Cell(readc, Used) /\ readc \in Index /\ writec \in Index
  BY <1>3, CellIs, SizeType DEF RingInv, Contents, RingTyped
<1>8. \A c \in Index : buffer'[c] = IF c \in Cells(writec, wbatch) THEN written + 1 + ((c - writec + Size) % Size)
                                                                     ELSE buffer[c]
  BY DEF CopyIn, Index
<1>9. \A i \in 0..wbatch-1 : Cell(writec, i) = Cell(readc, Used + i)
  <2> TAKE i \in 0..wbatch-1
  <2>1. i \in -Size..Size /\ Used \in -Size..Size /\ Used + i \in -Size..Size
    BY <1>2, <1>3, <1>5, SizeType
  <2> QED
    BY <2>1, <1>7, CellAdds
<1>10. ASSUME NEW i \in 0..Used'-1 PROVE buffer'[Cell(readc, i)] = consumed + i + 1
  <2>1. i \in Index /\ i \in -Size..Size /\ Cell(readc, i) \in Index
    <3>1. i \in Index /\ i \in -Size..Size
      BY <1>2, <1>3, <1>5, SizeType DEF Index
    <3> QED
      BY <3>1, <1>7, CellIs
  <2>2. CASE i < Used
    <3>1. Cell(readc, i) \notin Cells(writec, wbatch)
      <4> SUFFICES ASSUME NEW j \in 0..wbatch-1, Cell(readc, i) = Cell(writec, j) PROVE FALSE
        BY DEF Cells
      <4>1. Cell(readc, i) = Cell(readc, Used + j)
        BY <1>9
      <4>2. Used + j \in Index
        BY <1>2, <1>3, <1>5, SizeType DEF Index
      <4>3. i = Used + j
        BY <4>1, <4>2, <2>1, <1>7, CellApart
      <4> QED
        BY <4>3, <2>2, <1>3
    <3>2. i \in 0..Used-1
      BY <2>2, <1>2, <1>3
    <3> QED
      BY <3>1, <3>2, <2>1, <1>8 DEF RingInv, Contents
  <2>3. CASE i >= Used
    <3> DEFINE j == i - Used
    <3>1. j \in 0..wbatch-1 /\ j \in Index /\ i = Used + j
      BY <2>3, <1>2, <1>3, <1>5, SizeType DEF Index
    <3> HIDE DEF j
    <3>2. Cell(readc, i) = Cell(writec, j)
      BY <3>1, <1>9
    <3>3. Cell(readc, i) \in Cells(writec, wbatch)
      BY <3>1, <3>2 DEF Cells
    <3>4. (Cell(readc, i) - writec + Size) % Size = j
      BY <3>1, <3>2, <1>7, CellBack
    <3>5. buffer'[Cell(readc, i)] = written + 1 + j
      BY <3>3, <3>4, <2>1, <1>8
    <3> QED
      BY <3>1, <3>5, <1>2 DEF Used
  <2>4. i \in Int /\ Used \in Int
    BY <1>2, <1>3
  <2> QED
    BY <2>2, <2>3, <2>4
<1>11. Contents'
  <2>1. writec' = Cell(readc, Used' - Copied')
    BY <1>1, <1>2, <1>3, <1>7
  <2> QED
    BY <1>1, <1>10, <2>1 DEF Contents, Cell
<1>12. RingTyped'
  <2>1. buffer' \in [Index -> Nat]
    <3>1. \A c \in Index : (c - writec + Size) % Size \in Nat
      <4> TAKE c \in Index
      <4>1. c - writec + Size \in Int /\ Size \in Nat /\ Size > 0
        BY <1>7, SizeType DEF Index
      <4> QED
        BY <4>1
    <3>2. buffer' = [c \in Index |-> IF c \in Cells(writec, wbatch) THEN written + 1 + ((c - writec + Size) % Size)
                                                                       ELSE buffer[c]]
      BY DEF CopyIn, Index
    <3> QED
      BY <3>1, <3>2, <1>2 DEF RingInv, RingTyped
  <2> QED
    BY <2>1, <1>1, <1>2 DEF RingInv, RingTyped
<1> QED
  BY <1>4, <1>6, <1>11, <1>12 DEF RingInv

\* The reader learns of the batch.
LEMMA AddReadableStep == ASSUME RingInv, AddReadable PROVE RingInv'
<1> USE DEF counts, flags, read
<1>1. /\ wpc = "readable" /\ wpc' = "writable" /\ readable' = readable + wbatch
      /\ UNCHANGED <<buffer, readc, writec, writable, maxLatency, wbatch, wleft, seen, rpc, rleft, sleft, rbatch,
                     written, consumed>>
  BY DEF AddReadable
<1>2. RingTyped' /\ Used' = Used /\ Copied' = Copied /\ Unknown' = Unknown - wbatch
  BY <1>1 DEF RingInv, RingTyped, Used, Copied, Unknown, InFlight
<1>3. Sums'
  BY <1>1, <1>2, UsedIs DEF RingInv, Sums, RingTyped
<1>4. WriterOK' /\ ReaderOK'
  BY <1>1 DEF RingInv, WriterOK, ReaderOK, RingTyped
<1>5. Contents'
  BY <1>1, <1>2 DEF RingInv, Contents, Cell
<1> QED
  BY <1>2, <1>3, <1>4, <1>5 DEF RingInv

\* The writer's count and cursor follow.
LEMMA SubWritableStep == ASSUME RingInv, SubWritable PROVE RingInv'
<1> USE DEF counts, flags, read
<1>1. /\ wpc = "writable" /\ wpc' = "notify" /\ writable' = writable - wbatch /\ writec' = Cell(writec, wbatch)
      /\ UNCHANGED <<buffer, readc, readable, maxLatency, wbatch, wleft, seen, rpc, rleft, sleft, rbatch, written, consumed>>
  BY DEF SubWritable
<1>2. wbatch \in Nat /\ writable \in Nat /\ wbatch <= writable /\ wbatch <= Size
  BY <1>1 DEF RingInv, RingTyped, WriterOK
<1>3. RingTyped' /\ Used' = Used /\ Copied = wbatch /\ Copied' = 0 /\ Unknown' = Unknown
  BY <1>1, <1>2 DEF RingInv, RingTyped, Used, Copied, Unknown, InFlight
<1>4. Used \in 0..Size
  BY UsedIs DEF RingInv
<1>5. Sums'
  BY <1>1, <1>2, <1>3, <1>4, SizeType DEF RingInv, Sums
<1>6. WriterOK' /\ ReaderOK'
  BY <1>1 DEF RingInv, WriterOK, ReaderOK
<1>7. writec' = Cell(readc, Used)
  <2>1. wbatch \in -Size..Size /\ Used - wbatch \in -Size..Size /\ Used - wbatch + wbatch = Used /\ Used \in -Size..Size
    BY <1>2, <1>4, SizeType
  <2>2. readc \in Index /\ writec = Cell(readc, Used - wbatch)
    BY <1>3 DEF RingInv, RingTyped, Contents
  <2>3. Cell(Cell(readc, Used - wbatch), wbatch) = Cell(readc, Used - wbatch + wbatch)
    BY <2>1, <2>2, CellAdds
  <2> QED
    BY <1>1, <2>1, <2>2, <2>3
<1>8. Contents'
  <2>1. Used - 0 = Used
    BY <1>4
  <2> QED
    BY <1>1, <1>3, <1>7, <2>1 DEF RingInv, Contents, Cell
<1> QED
  BY <1>3, <1>5, <1>6, <1>8 DEF RingInv

\* The reader takes its batch off the count.
LEMMA SubReadableStep == ASSUME RingInv, SubReadable PROVE RingInv'
<1> USE DEF counts, flags, write
<1>1. /\ rpc = "readable" /\ rpc' = "writable" /\ readable' = readable - rbatch
      /\ UNCHANGED <<buffer, readc, writec, writable, maxLatency, wpc, wbatch, wleft, seen, rleft, sleft, rbatch,
                     written, consumed>>
  BY DEF SubReadable
<1>2. rbatch \in Nat /\ readable \in Nat /\ rbatch <= readable
  BY <1>1 DEF RingInv, RingTyped, ReaderOK
<1>3. RingTyped' /\ Used' = Used /\ Copied' = Copied /\ Unknown' = Unknown + rbatch
  BY <1>1, <1>2 DEF RingInv, RingTyped, Used, Copied, Unknown, InFlight
<1>4. Sums'
  BY <1>1, <1>2, <1>3, UsedIs DEF RingInv, Sums
<1>5. WriterOK' /\ ReaderOK'
  BY <1>1 DEF RingInv, WriterOK, ReaderOK
<1>6. Contents'
  BY <1>1, <1>3 DEF RingInv, Contents, Cell
<1> QED
  BY <1>3, <1>4, <1>5, <1>6 DEF RingInv

\* The cells are given back, and the reader's place moves on.
LEMMA AddWritableStep == ASSUME RingInv, AddWritable PROVE RingInv'
<1> USE DEF counts, flags, write
<1>1. /\ rpc = "writable" /\ rpc' = "notify" /\ writable' = writable + rbatch
      /\ readc' = Cell(readc, rbatch) /\ consumed' = consumed + rbatch
      /\ UNCHANGED <<buffer, writec, readable, maxLatency, wpc, wbatch, wleft, seen, rleft, sleft, rbatch, written>>
  BY DEF AddWritable
<1>2. /\ rbatch \in Nat /\ rbatch <= Used /\ Used \in 0..Size /\ Copied \in 0..Size
      /\ readc \in Index /\ writable \in Nat /\ consumed \in Nat /\ written \in Nat
  BY <1>1, UsedIs DEF RingInv, RingTyped
<1>3. rbatch \in -Size..Size
  BY <1>2, SizeType
<1>4. Used' = Used - rbatch /\ Copied' = Copied /\ Unknown' = Unknown - rbatch
  BY <1>1, <1>2 DEF RingInv, RingTyped, Used, Copied, Unknown, InFlight
<1>5. RingTyped'
  BY <1>1, <1>2, <1>3, CellIs DEF RingInv, RingTyped
<1>6. Sums'
  BY <1>1, <1>2, <1>4, UsedIs, SizeType DEF RingInv, Sums
<1>7. WriterOK' /\ ReaderOK'
  BY <1>1, <1>2 DEF RingInv, WriterOK, ReaderOK, RingTyped
<1>8. ASSUME NEW i \in 0..Used'-1 PROVE buffer[Cell(readc', i)] = consumed' + i + 1
  <2>1. i \in -Size..Size /\ rbatch + i \in -Size..Size /\ rbatch + i \in 0..Used-1
    BY <1>2, <1>4, SizeType
  <2>2. Cell(readc', i) = Cell(readc, rbatch + i)
    BY <1>1, <1>2, <1>3, <2>1, CellAdds
  <2>3. buffer[Cell(readc, rbatch + i)] = consumed + (rbatch + i) + 1
    BY <2>1 DEF RingInv, Contents
  <2> QED
    BY <1>1, <1>2, <2>1, <2>2, <2>3
<1>9. writec = Cell(readc', Used' - Copied)
  <2> DEFINE j == Used - rbatch - Copied
  <2>1. j \in -Size..Size /\ rbatch + j = Used - Copied /\ rbatch + j \in -Size..Size /\ Used' - Copied = j
    BY <1>2, <1>4, SizeType
  <2> HIDE DEF j
  <2>2. Cell(Cell(readc, rbatch), j) = Cell(readc, rbatch + j)
    BY <1>2, <1>3, <2>1, CellAdds
  <2>3. writec = Cell(readc, Used - Copied)
    BY DEF RingInv, Contents
  <2> QED
    BY <1>1, <2>1, <2>2, <2>3
<1>10. Contents'
  BY <1>1, <1>4, <1>8, <1>9 DEF Contents, Cell
<1> QED
  BY <1>5, <1>6, <1>7, <1>10 DEF RingInv

\* Every step of the ring and its callers preserves the invariant.
LEMMA RingSteps == RingInv /\ [RingNext]_ring => RingInv'
<1> SUFFICES ASSUME RingInv, [RingNext]_ring PROVE RingInv'
  OBVIOUS
<1>1. CASE \E len \in 1..MaxCall : MoreInput(len) /\ BeginWrite(len)
  BY <1>1, WriterSteps
<1>2. CASE WriteRing
  BY <1>2, WriterSteps, CopyInStep, AddReadableStep, SubWritableStep DEF WriteRing
<1>3. CASE \E len \in 1..MaxCall, over \in 0..MaxCall : BeginRead(len, over)
  BY <1>3, ReaderSteps
<1>4. CASE ReadRing \/ EndRead
  BY <1>4, ReaderSteps, SubReadableStep, AddWritableStep DEF ReadRing
<1>5. CASE StopReader \/ StopWriter \/ NotifyStop \/ ClearStops \/ \E l \in Latencies : SetMaxLatency(l)
  BY <1>5, OtherSteps, RingAssumption
<1>6. CASE UNCHANGED ring
  <2>1. UNCHANGED <<buffer, readc, writec, readable, writable, written, consumed, wpc, rpc, wleft, wbatch, seen,
                    rleft, sleft, rbatch, maxLatency>>
    BY <1>6 DEF ring, counts, write, read
  <2>2. Copied' = Copied /\ Unknown' = Unknown /\ WriterOK' /\ ReaderOK'
    BY <2>1 DEF Copied, Unknown, InFlight, WriterOK, ReaderOK, RingInv
  <2> QED
    BY <2>1, <2>2, Settled DEF RingInv, RingTyped
<1> QED
  BY <1>1, <1>2, <1>3, <1>4, <1>5, <1>6 DEF RingNext

\* The writer's cells are beyond all that is in the ring, the reader's are in it.
LEMMA ApartNow == RingInv => NoSharedCell
<1> SUFFICES ASSUME RingInv, wpc = "copy", rpc = "copy",
                    NEW i \in 0..wbatch-1, NEW j \in 0..rbatch-1, Cell(writec, i) = Cell(readc, j)
             PROVE  FALSE
  BY DEF NoSharedCell, Cells
<1>1. /\ Used \in 0..Size /\ Copied = 0 /\ readable = Used /\ writable = Size - Used
  <2>1. Used \in 0..Size
    BY UsedIs DEF RingInv
  <2>2. Copied = 0 /\ Unknown = 0
    BY DEF Copied, Unknown, InFlight
  <2> QED
    BY <2>1, <2>2, SizeType DEF RingInv, Sums
<1>2. /\ wbatch \in Nat /\ rbatch \in Nat /\ wbatch <= Size - Used /\ rbatch <= Used
      /\ readc \in Index /\ writec = Cell(readc, Used)
  BY <1>1 DEF RingInv, RingTyped, WriterOK, ReaderOK, Contents
<1>3. /\ i \in -Size..Size /\ Used \in -Size..Size /\ Used + i \in -Size..Size
      /\ Used + i \in Index /\ j \in Index /\ Used + i # j
  BY <1>1, <1>2, SizeType DEF Index
<1>4. Cell(readc, Used + i) = Cell(readc, j)
  BY <1>2, <1>3, CellAdds
<1> QED
  BY <1>2, <1>3, <1>4, CellApart

\* The copies made outside both mutexes never meet, whatever the two callers ask
\* for (ring_buffer.h read, readAndSkip, write).
THEOREM CellsApart == RingSafety => []NoSharedCell
BY RingStart, RingSteps, ApartNow, PTL DEF RingSafety

\* What is counted as readable is part of what is in the ring.
LEMMA FifoNow == RingInv => Fifo
<1> SUFFICES ASSUME RingInv, NEW i \in 0..readable-1
             PROVE  LET ahead == InFlight(rpc, {"writable"}, rbatch)
                    IN  buffer[Cell(readc, ahead + i)] = consumed + ahead + i + 1
  BY DEF Fifo
<1> DEFINE ahead == InFlight(rpc, {"writable"}, rbatch)
<1>1. ahead \in Nat /\ ahead <= Unknown /\ Unknown \in 0..Used /\ Used \in 0..Size
  BY UsedIs DEF RingInv, RingTyped, Unknown, InFlight
<1> HIDE DEF ahead
<1>2. ahead + i \in 0..Used-1
  BY <1>1, SizeType DEF RingInv, Sums, RingTyped
<1>3. buffer[Cell(readc, ahead + i)] = consumed + (ahead + i) + 1
  BY <1>2 DEF RingInv, Contents
<1>4. consumed \in Nat /\ i \in Int
  BY DEF RingInv, RingTyped
<1>5. buffer[Cell(readc, ahead + i)] = consumed + ahead + i + 1
  BY <1>1, <1>3, <1>4
<1> QED
  BY <1>5 DEF ahead

\* The samples counted as readable are the next ones written: none is lost,
\* overwritten or read twice (ring_buffer.h write, readAndSkip).
THEOREM InOrderOnce == RingSafety => []Fifo
BY RingStart, RingSteps, FifoNow, PTL DEF RingSafety

-----------------------------------------------------------------------------
(* The reshaper on the ring.                                               *)

Stride  == keep + skip
Skipped == Most(skip, 0)
Wanted  == Least(keep + skip, keep)

\* The sample before the first one that the read in progress began with.
Pending == InFlight(rpc, {"readable", "writable"}, rbatch)
Base    == consumed + Pending + rleft + sleft - Stride

Consecutive(f, n) == \A i \in 1..n-1 : f[i] # 0 => f[i + 1] = f[i] + 1

Shaped == /\ keep \in Nat /\ keep > 0 /\ skip \in Int /\ keep + skip > 0 /\ input \in Nat
          /\ ctl = "down" => bpc = "none"
          /\ bpc # "read" => rpc = "idle"

\* What bufferWorker() has of the frame while it reads, and between two reads.
ReadOK == bpc = "read" =>
    /\ rpc # "idle" /\ (rpc = "done" => rleft = 0 /\ sleft = 0)
    /\ rleft <= Wanted /\ (rleft > 0 => sleft = Skipped)
    /\ got \in Seq(Nat) /\ Len(got) = Wanted - rleft /\ \A i \in 1..Len(got) : got[i] = Base + i
    /\ buf \in Seq(Nat) /\ Len(buf) = keep /\ Consecutive(buf, Overlap)
    /\ Overlap > 0 => buf[Overlap] \in {0, Base}
    /\ sent # <<>> => sent[keep] = Base - Skipped
RestOK ==
    /\ bpc \in {"begin", "swap"} => buf \in Seq(Nat) /\ Len(buf) = keep /\ Consecutive(buf, keep)
    /\ bpc = "begin" => /\ buf[keep] \in {0, consumed - Skipped}
                        /\ sent # <<>> => sent[keep] = consumed - Skipped
    /\ bpc = "swap"  => /\ buf[keep] = consumed - Skipped
                        /\ sent # <<>> => sent[keep] = consumed - Skipped - Stride

ShapeInv == RingInv /\ Shaped /\ ReadOK /\ RestOK

-----------------------------------------------------------------------------
\* What is read and what is carried over make a frame; what is read and what is
\* skipped make a stride.
LEMMA Shares == ASSUME Shaped
                PROVE  /\ Stride \in Nat /\ Skipped \in Nat /\ Wanted \in Nat /\ Wanted > 0 /\ Overlap \in Nat
                       /\ Wanted + Skipped = Stride /\ Wanted + Overlap = keep
                       /\ Overlap > 0 => Skipped = 0
  BY DEF Shaped, Stride, Skipped, Wanted, Overlap, Most, Least

\* A part of a frame, which may be empty.
LEMMA Part == ASSUME NEW f \in Seq(Nat), NEW m \in Nat, NEW n \in Nat, 1 <= m, m <= n + 1, n <= Len(f)
              PROVE  /\ SubSeq(f, m, n) \in Seq(Nat) /\ Len(SubSeq(f, m, n)) = n - m + 1
                     /\ \A i \in 1..n-m+1 : SubSeq(f, m, n)[i] = f[m + i - 1]
<1>1. Len(f) \in Nat
  OBVIOUS
<1> QED
  BY <1>1

\* A frame put together of two parts.
LEMMA Joint == ASSUME NEW f \in Seq(Nat), NEW g \in Seq(Nat)
               PROVE  /\ f \o g \in Seq(Nat) /\ Len(f \o g) = Len(f) + Len(g)
                      /\ \A i \in 1..Len(f) : (f \o g)[i] = f[i]
                      /\ \A i \in 1..Len(g) : (f \o g)[Len(f) + i] = g[i]
<1>1. Len(f) \in Nat /\ Len(g) \in Nat
  OBVIOUS
<1>2. f \o g \in Seq(Nat) /\ Len(f \o g) = Len(f) + Len(g)
  BY ConcatProperties
<1>3. \A i \in 1..Len(f) + Len(g) : (f \o g)[i] = IF i <= Len(f) THEN f[i] ELSE g[i - Len(f)]
  BY ConcatProperties
<1>4. \A i \in 1..Len(f) : (f \o g)[i] = f[i]
  BY <1>1, <1>3
<1>5. ASSUME NEW i \in 1..Len(g) PROVE (f \o g)[Len(f) + i] = g[i]
  <2>1. Len(f) + i \in 1..Len(f) + Len(g) /\ ~(Len(f) + i <= Len(f)) /\ Len(f) + i - Len(f) = i
    BY <1>1
  <2> QED
    BY <2>1, <1>3
<1> QED
  BY <1>2, <1>4, <1>5

\* Steps of the others, which at most wake the reader up.
LEMMA Aside == ASSUME ShapeInv, UNCHANGED <<keep, skip, bpc, buf, sent, got, rleft, sleft, rbatch, consumed>>,
                      rpc' = rpc \/ (rpc = "asleep" /\ rpc' = "wait"),
                      ctl' = "down" => ctl = "down", input' \in Nat, RingInv'
               PROVE  ShapeInv'
<1>1. UNCHANGED <<Stride, Skipped, Wanted, Overlap, Pending>>
  BY DEF Stride, Skipped, Wanted, Overlap, Most, Least, Pending, InFlight
<1>2. Base' = Base
  BY <1>1 DEF Base
<1>3. Shaped'
  BY DEF ShapeInv, Shaped, ReadOK
<1>4. ReadOK'
  BY <1>1, <1>2 DEF ShapeInv, ReadOK, Consecutive
<1>5. RestOK'
  BY <1>1 DEF ShapeInv, RestOK, Consecutive
<1> QED
  BY <1>3, <1>4, <1>5 DEF ShapeInv

\* A step of readAndSkip() other than the copy.
LEMMA ReadOn == ASSUME ShapeInv, \/ CheckReader \/ PeekReadable \/ WaitReadable \/ ReaderSleeps
                                 \/ SubReadable \/ AddWritable \/ NotifyWritable,
                       UNCHANGED shaper, RingInv'
                PROVE  ShapeInv'
<1> USE DEF ShapeInv, shaper, write
<1>1. rpc # "idle" /\ rpc # "done" /\ bpc = "read"
  BY DEF CheckReader, PeekReadable, WaitReadable, ReaderSleeps, SubReadable, AddWritable, NotifyWritable, Shaped
<1>2. /\ UNCHANGED <<keep, skip, bpc, buf, sent, got, rleft, sleft, ctl, input>> /\ rpc' # "idle"
      /\ rpc' = "done" => ~(rleft + sleft > 0)
  BY DEF CheckReader, PeekReadable, WaitReadable, StartRead, ReaderSleeps, SubReadable, AddWritable, NotifyWritable
<1>3. UNCHANGED <<Stride, Skipped, Wanted, Overlap>>
  BY <1>2 DEF Stride, Skipped, Wanted, Overlap, Most, Least
<1>4. /\ rbatch \in Nat /\ rleft \in Nat /\ sleft \in Nat /\ consumed \in Nat
      /\ rbatch' \in Nat
  BY DEF RingInv, RingTyped
<1>5. consumed' + Pending' = consumed + Pending
  <2>1. CASE CheckReader \/ PeekReadable \/ WaitReadable \/ ReaderSleeps
    BY <2>1, <1>4 DEF CheckReader, PeekReadable, WaitReadable, StartRead, ReaderSleeps, Pending, InFlight
  <2>2. CASE SubReadable
    BY <2>2, <1>4 DEF SubReadable, Pending, InFlight
  <2>3. CASE AddWritable
    BY <2>3, <1>4 DEF AddWritable, Pending, InFlight
  <2>4. CASE NotifyWritable
    BY <2>4, <1>4 DEF NotifyWritable, Pending, InFlight
  <2> QED
    BY <2>1, <2>2, <2>3, <2>4
<1>6. Base' = Base
  BY <1>2, <1>3, <1>5 DEF Base
<1>7. Shaped'
  BY <1>1, <1>2 DEF Shaped
<1>8. ReadOK'
  BY <1>1, <1>2, <1>3, <1>4, <1>6 DEF ReadOK, Consecutive
<1>9. RestOK'
  BY <1>1, <1>2 DEF RestOK
<1> QED
  BY <1>7, <1>8, <1>9

\* The copy of readAndSkip() continues the samples of this read.
LEMMA ReadCopy == ASSUME ShapeInv, CopyOut, UNCHANGED shaper, RingInv'
                  PROVE  ShapeInv'
<1> USE DEF ShapeInv, shaper, write
<1>1. /\ rpc = "copy" /\ rpc' = "readable" /\ bpc = "read"
      /\ UNCHANGED <<keep, skip, bpc, buf, sent, ctl, input, rbatch, consumed>>
  BY DEF CopyOut, Shaped
<1>2. UNCHANGED <<Stride, Skipped, Wanted, Overlap>>
  BY <1>1 DEF Stride, Skipped, Wanted, Overlap, Most, Least
<1>3. /\ rbatch \in Nat /\ rleft \in Nat /\ sleft \in Nat /\ consumed \in Nat
      /\ rbatch <= IF rleft > 0 THEN rleft ELSE sleft
  BY <1>1 DEF RingInv, RingTyped, ReaderOK
<1>4. /\ Stride \in Nat /\ Skipped \in Nat /\ Wanted \in Nat /\ Wanted + Skipped = Stride
  BY Shares
<1>5. Base = consumed + rleft + sleft - Stride /\ Base' = consumed + rbatch + rleft' + sleft' - Stride
  BY <1>1, <1>2, <1>3, <1>4 DEF Base, Pending, InFlight
<1>6. Shaped' /\ RestOK'
  BY <1>1 DEF Shaped, RestOK
<1>7. CASE rleft > 0
  <2> DEFINE more == [i \in 1..rbatch |-> buffer[Cell(readc, i - 1)]]
  <2>1. got' = got \o more /\ rleft' = rleft - rbatch /\ sleft' = sleft
    BY <1>7 DEF CopyOut
  <2>2. rbatch <= Used /\ Used \in Nat
    <3>1. /\ Used \in 0..Size /\ Unknown \in 0..Used
      BY UsedIs DEF RingInv
    <3>2. rbatch <= readable /\ readable = Used - Unknown
      BY <1>1 DEF RingInv, ReaderOK, Sums
    <3> QED
      BY <1>3, <3>1, <3>2, SizeType
  <2>3. ASSUME NEW i \in 1..rbatch PROVE more[i] = consumed + i
    <3>1. i - 1 \in 0..Used-1 /\ consumed + (i - 1) + 1 = consumed + i
      BY <1>3, <2>2
    <3> QED
      BY <3>1 DEF RingInv, Contents
  <2>4. more \in Seq(Nat) /\ Len(more) = rbatch
    <3>1. \A i \in 1..rbatch : more[i] \in Nat
      BY <1>3, <2>3
    <3> QED
      BY <3>1, <1>3
  <2> HIDE DEF more
  <2>5. /\ got \in Seq(Nat) /\ Len(got) = Wanted - rleft /\ sleft = Skipped
        /\ \A i \in 1..Len(got) : got[i] = Base + i
    BY <1>1, <1>7 DEF ReadOK
  <2>6. /\ got' \in Seq(Nat) /\ Len(got') = Len(got) + rbatch
        /\ \A i \in 1..Len(got) : got'[i] = got[i]
        /\ \A i \in 1..rbatch : got'[Len(got) + i] = more[i]
    <3>1. got \in Seq(Nat) /\ more \in Seq(Nat)
      BY <2>4, <2>5
    <3>2. /\ got \o more \in Seq(Nat) /\ Len(got \o more) = Len(got) + Len(more)
          /\ \A i \in 1..Len(got) : (got \o more)[i] = got[i]
          /\ \A i \in 1..Len(more) : (got \o more)[Len(got) + i] = more[i]
      BY ONLY <3>1, Joint
    <3> QED
      BY <2>1, <2>4, <3>2
  <2>7. Base' = Base
    BY <1>3, <1>5, <2>1
  <2>8. ASSUME NEW i \in 1..Len(got') PROVE got'[i] = Base + i
    <3>1. CASE i <= Len(got)
      BY <3>1, <2>5, <2>6
    <3>2. CASE i > Len(got)
      <4> DEFINE j == i - Len(got)
      <4>1. j \in 1..rbatch /\ i = Len(got) + j /\ j \in Int /\ Len(got) \in Int
        BY <3>2, <2>5, <2>6, <1>3
      <4> HIDE DEF j
      <4>2. got'[i] = consumed + j
        BY <4>1, <2>3, <2>6
      <4>3. consumed + j = Base + i
        BY <4>1, <1>3, <1>4, <1>5, <2>5
      <4> QED
        BY <4>2, <4>3
    <3> QED
      BY <3>1, <3>2, <2>5
  <2>9. rleft' \in Nat /\ Len(got') = Wanted - rleft'
    BY <1>3, <1>4, <1>7, <2>1, <2>5, <2>6
  <2>10. ReadOK'
    BY <1>1, <1>2, <1>3, <1>4, <2>1, <2>5, <2>6, <2>7, <2>8, <2>9 DEF ReadOK, Consecutive
  <2> QED
    BY <1>6, <2>10
<1>8. CASE ~(rleft > 0)
  <2>1. UNCHANGED <<rleft, got>> /\ sleft' = sleft - rbatch /\ rleft = 0
    BY <1>3, <1>8 DEF CopyOut
  <2>2. Base' = Base
    BY <1>3, <1>4, <1>5, <2>1
  <2>3. ReadOK'
    BY <1>1, <1>2, <2>1, <2>2 DEF ReadOK, Consecutive
  <2> QED
    BY <1>6, <2>3
<1> QED
  BY <1>7, <1>8

-----------------------------------------------------------------------------
\* The part carried over is moved to the front of the buffer.
LEMMA BeginStep == ASSUME ShapeInv, WorkerBegin, RingInv' PROVE ShapeInv'
<1> USE DEF ShapeInv, WorkerBegin, CarryOver, BeginRead, write
<1> DEFINE front == SubSeq(buf, keep - Overlap + 1, keep)
           back  == SubSeq(buf, Overlap + 1, keep)
<1>1. /\ bpc = "begin" /\ bpc' = "read" /\ rpc' = "check" /\ buf' = front \o back
      /\ rleft' = Wanted /\ sleft' = Skipped /\ got' = <<>>
      /\ UNCHANGED <<keep, skip, sent, consumed, input, ctl>>
  BY DEF Wanted, Skipped
<1>2. UNCHANGED <<Stride, Skipped, Wanted, Overlap>>
  BY <1>1 DEF Stride, Skipped, Wanted, Overlap, Most, Least
<1>3. /\ Stride \in Nat /\ Skipped \in Nat /\ Wanted \in Nat /\ Wanted > 0 /\ Overlap \in Nat
      /\ Wanted + Skipped = Stride /\ Wanted + Overlap = keep
      /\ Overlap > 0 => Skipped = 0
  BY Shares
<1>4. keep \in Nat /\ consumed \in Nat
  BY DEF Shaped, RingInv, RingTyped
<1>5. buf \in Seq(Nat) /\ Len(buf) = keep /\ Consecutive(buf, keep) /\ buf[keep] \in {0, consumed - Skipped}
  BY <1>1 DEF RestOK
<1>6. front \in Seq(Nat) /\ Len(front) = Overlap /\ \A i \in 1..Overlap : front[i] = buf[keep - Overlap + i]
  <2>1. /\ keep - Overlap + 1 \in Nat /\ 1 <= keep - Overlap + 1 /\ keep - Overlap + 1 <= keep + 1
        /\ keep <= Len(buf) /\ keep - (keep - Overlap + 1) + 1 = Overlap
        /\ \A i \in 1..Overlap : keep - Overlap + 1 + i - 1 = keep - Overlap + i
    BY <1>3, <1>4, <1>5
  <2> DEFINE m == keep - Overlap + 1
  <2> HIDE DEF m
  <2>2. m \in Nat /\ 1 <= m /\ m <= keep + 1 /\ keep - m + 1 = Overlap
        /\ \A i \in 1..Overlap : m + i - 1 = keep - Overlap + i
    BY <2>1 DEF m
  <2>3. /\ SubSeq(buf, m, keep) \in Seq(Nat) /\ Len(SubSeq(buf, m, keep)) = keep - m + 1
        /\ \A i \in 1..keep-m+1 : SubSeq(buf, m, keep)[i] = buf[m + i - 1]
    <3>1. buf \in Seq(Nat) /\ m \in Nat /\ keep \in Nat /\ 1 <= m /\ m <= keep + 1 /\ keep <= Len(buf)
      BY <1>4, <1>5, <2>1, <2>2
    <3> QED
      BY ONLY <3>1, Part
  <2> QED
    BY <2>2, <2>3 DEF m
<1>7. back \in Seq(Nat) /\ Len(back) = keep - Overlap
  <2>1. Overlap + 1 \in Nat /\ 1 <= Overlap + 1 /\ Overlap + 1 <= keep + 1 /\ keep <= Len(buf)
        /\ keep - (Overlap + 1) + 1 = keep - Overlap
    BY <1>3, <1>4, <1>5
  <2> QED
    BY <1>4, <1>5, <2>1, Part
<1> HIDE DEF front, back
<1>8. /\ buf' \in Seq(Nat) /\ Len(buf') = keep
      /\ \A i \in 1..Overlap : buf'[i] = buf[keep - Overlap + i]
  <2>1. front \in Seq(Nat) /\ back \in Seq(Nat)
    BY <1>6, <1>7
  <2>2. /\ front \o back \in Seq(Nat) /\ Len(front \o back) = Len(front) + Len(back)
        /\ \A i \in 1..Len(front) : (front \o back)[i] = front[i]
    BY ONLY <2>1, Joint
  <2> QED
    <3>1. buf' = front \o back
      BY <1>1
    <3>2. Len(front) + Len(back) = keep /\ \A i \in 1..Overlap : i \in 1..Len(front)
      BY <1>3, <1>4, <1>6, <1>7
    <3> QED
      BY <1>6, <2>2, <3>1, <3>2
<1>9. Base' = consumed
  <2>1. Pending' = 0
    BY <1>1 DEF Pending, InFlight
  <2>2. Base' = consumed + 0 + Wanted + Skipped - Stride
    BY <1>1, <1>2, <2>1 DEF Base
  <2> QED
    BY <1>3, <1>4, <2>2
<1>10. Consecutive(buf', Overlap)
  <2> SUFFICES ASSUME NEW i \in 1..Overlap-1, buf'[i] # 0 PROVE buf'[i + 1] = buf'[i] + 1
    BY DEF Consecutive
  <2>1. i \in 1..Overlap /\ i + 1 \in 1..Overlap /\ keep - Overlap + i \in 1..keep-1
        /\ keep - Overlap + (i + 1) = keep - Overlap + i + 1
    BY <1>3, <1>4
  <2> QED
    BY <2>1, <1>5, <1>8 DEF Consecutive
<1>11. Overlap > 0 => buf'[Overlap] \in {0, consumed}
  <2> SUFFICES ASSUME Overlap > 0 PROVE buf'[Overlap] \in {0, consumed}
    OBVIOUS
  <2>1. buf'[Overlap] = buf[keep]
    <3>1. Overlap \in 1..Overlap /\ keep - Overlap + Overlap = keep
      BY <1>3, <1>4
    <3> QED
      BY <3>1, <1>8
  <2> QED
    BY <2>1, <1>3, <1>4, <1>5
<1>12. Shaped' /\ RestOK'
  BY <1>1 DEF Shaped, RestOK
<1>13. ReadOK'
  <2>1. /\ Wanted <= Wanted /\ <<>> \in Seq(Nat) /\ Len(<<>>) = Wanted - Wanted
        /\ \A i \in 1..Len(<<>>) : <<>>[i] = consumed + i
    BY <1>3
  <2>2. sent # <<>> => sent[keep] = consumed - Skipped
    BY <1>1 DEF RestOK
  <2>3. Consecutive(buf', Overlap')
    BY <1>2, <1>10
  <2> HIDE DEF Consecutive
  <2> QED
    BY <1>1, <1>2, <1>8, <1>9, <1>11, <2>1, <2>2, <2>3 DEF ReadOK, Consecutive
<1> QED
  BY <1>12, <1>13

\* The samples read follow the part carried over.
LEMMA EndStep == ASSUME ShapeInv, WorkerEnd, RingInv' PROVE ShapeInv'
<1> USE DEF ShapeInv, WorkerEnd, EndRead, write
<1>1. /\ bpc = "read" /\ bpc' \in {"swap", "ended"} /\ rpc' = "idle"
      /\ UNCHANGED <<keep, skip, sent, consumed, input, ctl>>
  OBVIOUS
<1>2. Shaped' /\ ReadOK'
  BY <1>1 DEF Shaped, ReadOK
<1>3. CASE bpc' = "ended"
  BY <1>1, <1>2, <1>3 DEF RestOK
<1>4. CASE bpc' = "swap"
  <2> DEFINE front == SubSeq(buf, 1, Overlap)
  <2>1. rpc = "done" /\ buf' = front \o got
    BY <1>4
  <2>2. UNCHANGED <<Stride, Skipped, Wanted, Overlap>>
    BY <1>1 DEF Stride, Skipped, Wanted, Overlap, Most, Least
  <2>3. /\ Stride \in Nat /\ Skipped \in Nat /\ Wanted \in Nat /\ Wanted > 0 /\ Overlap \in Nat
        /\ Wanted + Skipped = Stride /\ Wanted + Overlap = keep
    BY Shares
  <2>4. keep \in Nat /\ consumed \in Nat
    BY DEF Shaped, RingInv, RingTyped
  <2>5. /\ rleft = 0 /\ sleft = 0 /\ got \in Seq(Nat) /\ Len(got) = Wanted
        /\ \A i \in 1..Wanted : got[i] = Base + i
        /\ buf \in Seq(Nat) /\ Len(buf) = keep /\ Consecutive(buf, Overlap)
        /\ Overlap > 0 => buf[Overlap] \in {0, Base}
        /\ sent # <<>> => sent[keep] = Base - Skipped
    <3>1. /\ rleft = 0 /\ sleft = 0 /\ got \in Seq(Nat) /\ Len(got) = Wanted - rleft
          /\ \A i \in 1..Len(got) : got[i] = Base + i
      BY <1>1, <2>1 DEF ReadOK
    <3>2. /\ buf \in Seq(Nat) /\ Len(buf) = keep /\ Consecutive(buf, Overlap)
          /\ Overlap > 0 => buf[Overlap] \in {0, Base}
          /\ sent # <<>> => sent[keep] = Base - Skipped
      BY <1>1 DEF ReadOK
    <3>3. Len(got) = Wanted
      BY <2>3, <3>1
    <3> QED
      BY <3>1, <3>2, <3>3
  <2>6. Base = consumed - Stride
    BY <2>1, <2>3, <2>4, <2>5 DEF Base, Pending, InFlight
  <2>7. front \in Seq(Nat) /\ Len(front) = Overlap /\ \A i \in 1..Overlap : front[i] = buf[i]
    <3>1. /\ 1 \in Nat /\ 1 <= Overlap + 1 /\ Overlap <= Len(buf) /\ Overlap - 1 + 1 = Overlap
          /\ \A i \in 1..Overlap : 1 + i - 1 = i
      BY <2>3, <2>4, <2>5
    <3>2. /\ SubSeq(buf, 1, Overlap) \in Seq(Nat) /\ Len(SubSeq(buf, 1, Overlap)) = Overlap - 1 + 1
          /\ \A i \in 1..Overlap-1+1 : SubSeq(buf, 1, Overlap)[i] = buf[1 + i - 1]
      BY <2>3, <2>5, <3>1, Part
    <3> QED
      BY <3>1, <3>2
  <2> HIDE DEF front
  <2>8. /\ buf' \in Seq(Nat) /\ Len(buf') = keep
        /\ \A i \in 1..Overlap : buf'[i] = buf[i]
        /\ \A i \in 1..Wanted : buf'[Overlap + i] = Base + i
    <3>1. front \in Seq(Nat) /\ got \in Seq(Nat)
      BY <2>5, <2>7
    <3>2. /\ front \o got \in Seq(Nat) /\ Len(front \o got) = Len(front) + Len(got)
          /\ \A i \in 1..Len(front) : (front \o got)[i] = front[i]
          /\ \A i \in 1..Len(got) : (front \o got)[Len(front) + i] = got[i]
      BY ONLY <3>1, Joint
    <3> QED
      <4>1. Len(front) + Len(got) = keep /\ Len(front) = Overlap /\ Len(got) = Wanted
        BY <2>3, <2>4, <2>5, <2>7
      <4>2. buf' = front \o got
        BY <2>1
      <4>3. \A i \in 1..Overlap : front[i] = buf[i]
        BY <2>7
      <4>4. \A i \in 1..Wanted : got[i] = Base + i
        BY <2>5
      <4> QED
        BY <3>2, <4>1, <4>2, <4>3, <4>4
  <2>9. Consecutive(buf', keep)
    <3> SUFFICES ASSUME NEW i \in 1..keep-1, buf'[i] # 0 PROVE buf'[i + 1] = buf'[i] + 1
      BY DEF Consecutive
    <3>1. CASE i < Overlap
      <4>1. i \in 1..Overlap-1 /\ i \in 1..Overlap /\ i + 1 \in 1..Overlap
        BY <3>1, <2>3
      <4> QED
        BY <4>1, <2>5, <2>8 DEF Consecutive
    <3>2. CASE i = Overlap
      <4>1. i \in 1..Overlap /\ 1 \in 1..Wanted /\ Overlap > 0
        BY <3>2, <2>3
      <4>2. buf'[i] = Base /\ buf'[i + 1] = Base + 1
        BY <4>1, <3>2, <2>5, <2>8
      <4> QED
        BY <4>2
    <3>3. CASE i > Overlap
      <4> DEFINE j == i - Overlap
      <4>1. j \in 1..Wanted /\ j + 1 \in 1..Wanted /\ i = Overlap + j /\ i + 1 = Overlap + (j + 1) /\ j \in Int
        BY <3>3, <2>3, <2>4
      <4> HIDE DEF j
      <4>2. buf'[i] = Base + j /\ buf'[i + 1] = Base + (j + 1)
        BY <4>1, <2>8
      <4> QED
        BY <4>1, <4>2, <2>3, <2>4, <2>6
    <3> QED
      BY <3>1, <3>2, <3>3, <2>3
  <2>10. buf'[keep] = consumed - Skipped
    <3>1. Wanted \in 1..Wanted /\ Overlap + Wanted = keep
      BY <2>3
    <3>2. buf'[keep] = Base + Wanted
      BY <3>1, <2>8
    <3> QED
      BY <3>2, <2>3, <2>4, <2>6
  <2>11. sent # <<>> => sent[keep] = consumed - Skipped - Stride
    BY <2>3, <2>4, <2>5, <2>6
  <2>12. RestOK'
    <3>1. Consecutive(buf', keep')
      BY <1>1, <2>9
    <3> QED
      BY <1>1, <1>4, <2>2, <2>8, <3>1, <2>10, <2>11 DEF RestOK
  <2> QED
    BY <1>2, <2>12
<1> QED
  BY <1>1, <1>3, <1>4

\* The frame is sent, or the worker ends.
LEMMA SwapStep == ASSUME ShapeInv, WorkerSwap PROVE ShapeInv'
<1> USE DEF ShapeInv, WorkerSwap, ring, counts, flags, write, read
<1>1. UNCHANGED <<keep, skip, consumed, input, ctl, rpc, buf>> /\ bpc = "swap" /\ bpc' \in {"ended", "begin"}
  OBVIOUS
<1>2. UNCHANGED <<Stride, Skipped>>
  BY <1>1 DEF Stride, Skipped, Most
<1>3. RingInv'
  BY RingSteps
<1>4. Shaped' /\ ReadOK'
  BY <1>1 DEF Shaped, ReadOK
<1>5. RestOK'
  <2>1. CASE bpc' = "ended"
    BY <2>1 DEF RestOK
  <2>2. CASE bpc' = "begin"
    <3>1. sent' = buf
      BY <2>2
    <3> QED
      BY <1>1, <1>2, <2>2, <3>1 DEF RestOK, Consecutive
  <2> QED
    BY <1>1, <2>1, <2>2
<1> QED
  BY <1>3, <1>4, <1>5

\* doStart(): the buffer is new, no frame has been sent.
LEMMA StartStep == ASSUME ShapeInv, StartShaper PROVE ShapeInv'
<1> USE DEF ShapeInv, StartShaper, ring, counts, flags, write, read
<1>1. /\ UNCHANGED <<keep, skip, consumed, input, rpc>> /\ bpc' = "begin" /\ ctl' = "up" /\ sent' = <<>>
      /\ buf' = [i \in 1..keep |-> 0] /\ bpc = "none"
  BY DEF Shaped
<1>2. RingInv'
  BY RingSteps
<1>3. Shaped' /\ ReadOK'
  BY <1>1 DEF Shaped, ReadOK
<1>4. keep \in Nat /\ keep > 0
  BY DEF Shaped
<1>5. buf' \in Seq(Nat) /\ Len(buf') = keep /\ \A i \in 1..keep : buf'[i] = 0
  BY <1>1, <1>4
<1>6. Consecutive(buf', keep) /\ buf'[keep] = 0
  BY <1>4, <1>5 DEF Consecutive
<1>7. RestOK'
  <2>1. Consecutive(buf', keep')
    BY <1>1, <1>6
  <2> QED
    BY <1>1, <1>5, <1>6, <2>1 DEF RestOK
<1> QED
  BY <1>2, <1>3, <1>7

\* setKeep() and setSkip() find no worker.
LEMMA ShapeStep == ASSUME ShapeInv, NEW s \in Shapes, SetShape(s) PROVE ShapeInv'
<1> USE DEF ShapeInv, SetShape
<1>1. s[1] \in Nat /\ s[1] > 0 /\ s[2] \in Int /\ s[1] + s[2] > 0 /\ s[1] * 2 \in Nat
  BY ShapesAssumption, RingAssumption
<1>2. RingInv'
  BY <1>1, OtherSteps
<1>3. bpc = "none" /\ bpc' = "none" /\ rpc' = rpc /\ ctl' = ctl /\ input' = input
  BY DEF SetMaxLatency, read, Shaped
<1>4. Shaped' /\ ReadOK' /\ RestOK'
  BY <1>1, <1>3 DEF Shaped, ReadOK, RestOK
<1> QED
  BY <1>2, <1>4

\* run() and the neighbours, and doStop(): they touch neither the frame nor the
\* read in progress.
LEMMA OthersStep ==
  ASSUME ShapeInv, \/ \E len \in 1..MaxCall : Arrive(len)
                   \/ Drain \/ Run \/ StopInput \/ StopRingRead \/ StopOutput \/ StopRingWrite \/ NotifyWriter
  PROVE  ShapeInv'
<1> USE DEF ShapeInv
<1>1. ASSUME UNCHANGED ring PROVE RingInv'
  BY <1>1, RingSteps
<1>2. CASE Drain \/ RunFlush \/ StopInput \/ (\E len \in 1..MaxCall : Arrive(len)) \/ (RunRead /\ UNCHANGED ring)
  <2>1. UNCHANGED ring /\ UNCHANGED <<keep, skip, bpc, buf, sent>> /\ (ctl' = "down" => ctl = "down")
    BY <1>2 DEF Drain, RunFlush, StopInput, Control, Arrive, RunRead
  <2>2. input' \in Nat
    BY <1>2, RingAssumption DEF Drain, RunFlush, StopInput, Control, Arrive, RunRead, Shaped
  <2> QED
    BY <1>1, <2>1, <2>2, Aside DEF ring, read
<1>3. CASE RunRead /\ BeginWrite(input)
  <2>1. RingInv'
    BY <1>3, WriterSteps DEF Shaped
  <2> QED
    BY <1>3, <2>1, Aside DEF RunRead, BeginWrite, read, Shaped
<1>4. CASE RunWrite
  <2>1. RingInv'
    BY <1>4, WriterSteps, CopyInStep, AddReadableStep, SubWritableStep DEF RunWrite, WriteRing
  <2>2. /\ UNCHANGED <<got, rleft, sleft, rbatch, consumed>> /\ (rpc' = rpc \/ (rpc = "asleep" /\ rpc' = "wait"))
    BY <1>4 DEF RunWrite, WriteRing, CheckWriter, PeekWritable, SumWritable, WaitWritable, WriterSleeps, CopyIn,
                AddReadable, SubWritable, NotifyReadable, WakeReader, read
  <2> QED
    BY <1>4, <2>1, <2>2, Aside DEF RunWrite, shaper, Shaped
<1>5. CASE StopRingRead \/ StopRingWrite
  <2>1. RingInv'
    BY <1>5, OtherSteps DEF StopRingRead, StopRingWrite
  <2> QED
    BY <1>5, <2>1, Aside DEF StopRingRead, StopRingWrite, Control, StopReader, StopWriter, read, Shaped
<1>6. CASE StopOutput \/ NotifyWriter
  <2>1. RingInv'
    <3>1. maxLatency \in Nat
      BY DEF RingInv, RingTyped
    <3>2. /\ rpc' = rpc \/ (rpc = "asleep" /\ rpc' = "wait")
          /\ wpc' = wpc \/ (wpc = "asleep" /\ wpc' = "wait")
          /\ UNCHANGED <<buffer, readc, writec, readable, writable, maxLatency, written, consumed, rleft, sleft,
                         wbatch, seen, wleft, rbatch>>
      BY <1>6 DEF StopOutput, NotifyWriter, WakeReader, WakeWriter, counts, write, read
    <3> QED
      BY <3>1, <3>2, Woken
  <2> QED
    BY <1>6, <2>1, Aside DEF StopOutput, NotifyWriter, Control, WakeReader, read, Shaped
<1> QED
  BY <1>2, <1>3, <1>4, <1>5, <1>6 DEF Run, RunRead

\* doStop() has joined both threads.
LEMMA JoinStep == ASSUME ShapeInv, JoinBoth PROVE ShapeInv'
<1> USE DEF ShapeInv, JoinBoth, ClearStops, read
<1>1. RingInv'
  BY OtherSteps
<1>2. bpc' = "none" /\ rpc' = "idle" /\ UNCHANGED <<keep, skip, input>>
  OBVIOUS
<1> QED
  BY <1>1, <1>2 DEF Shaped, ReadOK, RestOK

\* Every step of the reshaper preserves the invariant.
LEMMA ShapeSteps == ShapeInv /\ [ShaperNext]_shaperVars => ShapeInv'
<1> SUFFICES ASSUME ShapeInv, [ShaperNext]_shaperVars PROVE ShapeInv'
  OBVIOUS
<1>1. CASE Worker
  <2>1. CASE WorkerBegin
    <3>1. Least(keep + skip, keep) \in Nat /\ Most(skip, 0) \in Nat
      BY Shares DEF ShapeInv, Wanted, Skipped
    <3>2. RingInv'
      BY <2>1, <3>1, ReaderSteps DEF WorkerBegin, ShapeInv
    <3> QED
      BY <2>1, <3>2, BeginStep
  <2>2. CASE WorkerRead
    <3>1. RingInv'
      BY <2>2, ReaderSteps, SubReadableStep, AddWritableStep DEF WorkerRead, ReadRing, ShapeInv
    <3> QED
      BY <2>2, <3>1, ReadOn, ReadCopy DEF WorkerRead, ReadRing
  <2>3. CASE WorkerEnd
    <3>1. RingInv'
      BY <2>3, ReaderSteps DEF WorkerEnd, ShapeInv
    <3> QED
      BY <2>3, <3>1, EndStep
  <2> QED
    BY <1>1, <2>1, <2>2, <2>3, SwapStep DEF Worker
<1>2. CASE StopShaper
  BY <1>2, OthersStep, JoinStep DEF StopShaper
<1>3. CASE \E s \in Shapes : SetShape(s)
  BY <1>3, ShapeStep
<1>4. CASE UNCHANGED shaperVars
  <2>1. RingInv'
    BY <1>4, RingSteps DEF shaperVars, ShapeInv
  <2> QED
    BY <1>4, <2>1, Aside DEF shaperVars, ring, shaper, read, ShapeInv, Shaped
<1> QED
  BY <1>1, <1>2, <1>3, <1>4, OthersStep, StartStep DEF ShaperNext

\* A reshaper that has just been constructed, with any of its shapes.
LEMMA ShapeStart == ShaperInit => ShapeInv
<1> SUFFICES ASSUME ShaperInit PROVE ShapeInv
  OBVIOUS
<1>1. RingInv
  BY RingStart DEF ShaperInit
<1>2. Shaped
  BY ShapesAssumption, RingAssumption DEF ShaperInit, RingInit, Shaped
<1>3. ReadOK /\ RestOK
  BY DEF ShaperInit, ReadOK, RestOK
<1> QED
  BY <1>1, <1>2, <1>3 DEF ShapeInv

\* How often the sample at each place was divided by ten.
FadeOK ==
    bpc \in {"begin", "read", "swap"} =>
       /\ faded \in [1..keep -> Nat]
       /\ ~Fades => \A i \in 1..keep : faded[i] = 0
       /\ bpc = "read" /\ Fades => \A i \in 1..Overlap : i <= keep => faded[i] > 0
       /\ bpc = "swap" => \A i \in 1..keep : faded[i] > 0 <=> Fades /\ i <= Overlap

\* Only the samples carried over are divided, and all of them are.
LEMMA FadeSteps == ShapeInv /\ FadeOK /\ [ShaperNext]_shaperVars => FadeOK'
<1> SUFFICES ASSUME ShapeInv, FadeOK, [ShaperNext]_shaperVars PROVE FadeOK'
  OBVIOUS
<1>1. /\ keep \in Nat /\ keep > 0 /\ Overlap \in Nat /\ Overlap < keep /\ Fades \in BOOLEAN
      /\ ctl = "down" => bpc = "none"
  BY Shares, ShapesAssumption DEF ShapeInv, Shaped
<1>2. ASSUME UNCHANGED <<keep, skip, faded>>, bpc' = bpc \/ bpc' \notin {"begin", "read", "swap"}
      PROVE  FadeOK'
  BY <1>2 DEF FadeOK, Overlap, Most
<1>3. CASE WorkerBegin
  <2>1. /\ bpc = "begin" /\ bpc' = "read" /\ UNCHANGED <<keep, skip>> /\ Overlap' = Overlap
        /\ faded' = [i \in 1..keep |-> IF i > Overlap THEN faded[i]
                                        ELSE faded[keep - Overlap + i] + IF Fades THEN 1 ELSE 0]
    BY <1>3 DEF WorkerBegin, CarryOver, Overlap, Most
  <2>2. \A i \in 1..keep : i <= Overlap => keep - Overlap + i \in 1..keep
    BY <1>1
  <2>3. /\ faded \in [1..keep -> Nat]
        /\ ~Fades => \A i \in 1..keep : faded[i] = 0
    BY <2>1 DEF FadeOK
  <2>4. faded' \in [1..keep -> Nat]
    BY <1>1, <2>1, <2>2, <2>3
  <2>5. ~Fades => \A i \in 1..keep : faded'[i] = 0
    BY <1>1, <2>1, <2>2, <2>3
  <2>6. Fades => \A i \in 1..Overlap : i <= keep => faded'[i] > 0
    BY <1>1, <2>1, <2>2, <2>3
  <2> QED
    BY <2>1, <2>4, <2>5, <2>6 DEF FadeOK
<1>4. CASE WorkerEnd
  <2>1. CASE bpc' = "ended"
    BY <2>1 DEF FadeOK
  <2>2. CASE bpc' = "swap"
    <3>1. /\ bpc = "read" /\ UNCHANGED <<keep, skip>> /\ Overlap' = Overlap
          /\ faded' = [i \in 1..keep |-> IF i > Overlap THEN 0 ELSE faded[i]]
      BY <1>4, <2>2 DEF WorkerEnd, Overlap, Most
    <3>2. /\ faded \in [1..keep -> Nat]
          /\ ~Fades => \A i \in 1..keep : faded[i] = 0
          /\ Fades => \A i \in 1..Overlap : i <= keep => faded[i] > 0
      BY <3>1 DEF FadeOK
    <3>3. faded' \in [1..keep -> Nat]
      BY <1>1, <3>1, <3>2
    <3>4. \A i \in 1..keep : faded'[i] > 0 <=> Fades /\ i <= Overlap
      BY <1>1, <3>1, <3>2
    <3>5. ~Fades => \A i \in 1..keep : faded'[i] = 0
      BY <1>1, <3>1, <3>2
    <3> QED
      BY <2>2, <3>1, <3>3, <3>4, <3>5 DEF FadeOK
  <2> QED
    BY <1>4, <2>1, <2>2 DEF WorkerEnd
<1>5. CASE WorkerSwap
  <2>1. UNCHANGED <<keep, skip, faded>> /\ bpc = "swap" /\ bpc' \in {"begin", "ended"}
    BY <1>5 DEF WorkerSwap
  <2> QED
    BY <1>1, <2>1 DEF FadeOK, Overlap, Most
<1>6. CASE StartShaper
  <2>1. UNCHANGED <<keep, skip>> /\ bpc' = "begin" /\ faded' = [i \in 1..keep |-> 0]
    BY <1>6 DEF StartShaper
  <2> QED
    BY <1>1, <2>1 DEF FadeOK
<1>7. CASE \E s \in Shapes : SetShape(s)
  BY <1>1, <1>7 DEF SetShape, FadeOK
<1>8. CASE WorkerRead \/ Run \/ Drain \/ (\E len \in 1..MaxCall : Arrive(len)) \/ UNCHANGED shaperVars
  <2>1. UNCHANGED <<keep, skip, faded, bpc>>
    BY <1>8 DEF WorkerRead, Run, RunRead, RunWrite, RunFlush, Drain, Arrive, shaperVars, shaper
  <2> QED
    BY <1>2, <2>1
<1>9. CASE StopInput \/ StopShaper
  <2>1. UNCHANGED <<keep, skip, faded>> /\ (bpc' = bpc \/ bpc' = "none")
    BY <1>9 DEF StopInput, StopShaper, StopRingRead, StopOutput, StopRingWrite, NotifyWriter, JoinBoth, Control
  <2> QED
    BY <1>2, <2>1
<1> QED
  BY <1>3, <1>4, <1>5, <1>6, <1>7, <1>8, <1>9 DEF ShaperNext, Worker

\* Frames are consecutive samples, keep + skip apart, however the ring hands out
\* the samples and for every shape, and only what overlaps the frame before comes
\* attenuated (reshaper.h bufferWorker).
THEOREM FramesAreWindows == ShaperSpec => Windows
<1>1. ShapeInv /\ FadeOK /\ [ShaperNext]_shaperVars => [(sent' # sent /\ sent' # <<>>) =>
          /\ \A i \in 1..keep-1 : sent'[i] # 0 => sent'[i+1] = sent'[i] + 1
          /\ sent # <<>> => sent'[keep] = sent[keep] + keep + skip
          /\ \A i \in 1..keep : faded[i] > 0 <=> Fades /\ i <= Overlap]_shaperVars
  <2> SUFFICES ASSUME ShapeInv, FadeOK, ShaperNext, sent' # sent, sent' # <<>>
               PROVE  /\ \A i \in 1..keep-1 : sent'[i] # 0 => sent'[i+1] = sent'[i] + 1
                      /\ sent # <<>> => sent'[keep] = sent[keep] + keep + skip
                      /\ \A i \in 1..keep : faded[i] > 0 <=> Fades /\ i <= Overlap
    BY DEF shaperVars, shaper
  <2>1. bpc = "swap" /\ sent' = buf
    BY DEF ShaperNext, Arrive, Drain, Run, RunRead, RunWrite, RunFlush, Worker, WorkerBegin, WorkerRead, WorkerEnd,
           WorkerSwap, StartShaper, StopInput, StopShaper, StopRingRead, StopOutput, StopRingWrite, NotifyWriter, JoinBoth,
           Control, SetShape, shaper
  <2>2. /\ Consecutive(buf, keep) /\ buf[keep] = consumed - Skipped
        /\ sent # <<>> => sent[keep] = consumed - Skipped - Stride
    BY <2>1 DEF ShapeInv, RestOK
  <2>3. Skipped \in Nat /\ consumed \in Nat /\ keep \in Nat /\ skip \in Int
    BY Shares DEF ShapeInv, RingInv, RingTyped, Shaped
  <2>4. \A i \in 1..keep : faded[i] > 0 <=> Fades /\ i <= Overlap
    BY <2>1 DEF FadeOK
  <2> QED
    BY <2>1, <2>2, <2>3, <2>4 DEF Consecutive, Stride
<1>2. ShaperInit => FadeOK
  BY DEF ShaperInit, FadeOK
<1> QED
  BY ShapeStart, ShapeSteps, FadeSteps, <1>1, <1>2, PTL DEF ShaperSpec, Windows

\* The copies of the reshaper's two threads never meet (reshaper.h run,
\* bufferWorker).
THEOREM ReshapedApart == ShaperSpec => []NoSharedCell
<1>1. ShapeInv => NoSharedCell
  BY ApartNow DEF ShapeInv
<1> QED
  BY ShapeStart, ShapeSteps, <1>1, PTL DEF ShaperSpec

\* The ring gives bufferWorker() what run() has written, in order and once
\* (reshaper.h run, bufferWorker).
THEOREM ReshapedInOrder == ShaperSpec => []Fifo
<1>1. ShapeInv => Fifo
  BY FifoNow DEF ShapeInv
<1> QED
  BY ShapeStart, ShapeSteps, <1>1, PTL DEF ShaperSpec

=============================================================================
