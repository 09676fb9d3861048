---------------------------- MODULE RecorderProofs ----------------------------
(***************************************************************************)
(* OpenWhileRecording and Seamless for every size of the ring and of a     *)
(* file.                                                                   *)
(*                                                                         *)
(* OpenWhileRecording: stop() takes no mutex.  What keeps it from start()  *)
(* is that start() gives up while the recorder records and stop() while it *)
(* does not, and one stop() from another is isStopping.                    *)
(*                                                                         *)
(* Seamless: up to the first clear() that meets push() or pop() (torn),    *)
(* the ring holds the blocks that were kept, in order; what the writer     *)
(* gets after them is the block in hand.  The one break a file may have is *)
(* between the two.                                                        *)
(***************************************************************************)
EXTENDS Recorder, FiniteSetTheorems, SequenceTheorems, TLAPS

Opening == {"open", "record"}
Closing == {"clear", "clear.tail", "restore", "restore.tail", "stopped"}
Stopping == Closing \cup {"check", "close", "leave"}
Places  == Outside \cup Opening \cup Stopping \cup {"started"}

TypeOK == /\ cpc \in [Caller -> Places]
          /\ open \in BOOLEAN /\ recording \in BOOLEAN /\ stopping \in BOOLEAN

\* A start() holds recMtx.
OneStart == \A c \in Caller : cpc[c] \in Opening \cup {"started"} => recMtx = c

\* Of the stops only one is past the test of isStopping.
OneStop == \A c \in Caller : cpc[c] \in Stopping =>
               stopping /\ \A d \in Caller : cpc[d] \in Stopping => d = c

\* What start() has opened is not being recorded yet.
NotYet == \A c \in Caller : /\ cpc[c] \in Opening => ~recording
                            /\ cpc[c] = "open" => ~open
                            /\ cpc[c] = "record" => open

\* What stop() has closed is still being recorded.
Still == \A c \in Caller : /\ cpc[c] \in Closing \cup {"close"} => recording
                           /\ cpc[c] \in Closing => ~open
                           /\ cpc[c] = "close" => open

\* Flag and file differ only there.
Agree == /\ open /\ ~recording => \E c \in Caller : cpc[c] = "record"
         /\ recording /\ ~open => \E c \in Caller : cpc[c] \in Closing

Ordered == TypeOK /\ OneStart /\ OneStop /\ NotYet /\ Still /\ Agree

\* The recorder starts idle.
LEMMA OrderedInit == Init => Ordered
  BY DEF Init, Ordered, TypeOK, OneStart, OneStop, NotYet, Still, Agree, Opening, Closing, Stopping, Places, Outside,
     Caller

\* The variables that the property is about.
subject == <<cpc, recMtx, open, recording, stopping>>

\* What the bookkeeping speaks of does not change.
LEMMA OrderedStutter == Ordered /\ UNCHANGED subject => Ordered'
  BY DEF Ordered, TypeOK, OneStart, OneStop, NotYet, Still, Agree, subject

\* monoHandler, and a caller that decides to call or sees the recorder.
LEMMA OrderedHandler == Arrive \/ Handler => UNCHANGED subject
  BY DEF Arrive, Handler, ToRing, PushLoad, PushStore, ToDrain, PopLoad, PopStore, WritePrefix, WriteSpill, HoldBack,
     Disarm,
     WriteBlock, CheckMax, subject, handler, ring, pre, writer, state, again, callers, ghosts

\* A caller that decides to call or sees the recorder.
LEMMA OrderedCalls == Ordered /\ (UserStarts \/ UserStops \/ Info) => Ordered'
<1> SUFFICES ASSUME Ordered, UserStarts \/ UserStops \/ Info PROVE Ordered'
  OBVIOUS
<1>1. PICK c \in Caller, place \in Outside : Goto(c, "idle", place)
  BY DEF UserStarts, UserStops, Info, InfoStarts, InfoRestarts, Caller, Outside
<1>2. UNCHANGED <<recMtx, open, recording, stopping>>
  BY DEF UserStarts, UserStops, Info, InfoStarts, InfoRestarts, writer, state
<1> QED
  BY <1>1, <1>2 DEF Goto, Ordered, TypeOK, OneStart, OneStop, NotYet, Still, Agree, Opening, Closing, Stopping, Places,
     Outside

\* start(): recMtx excludes another one, and a stop() finds nothing to stop.
LEMMA OrderedStart == ASSUME NEW c \in Caller, Ordered, Start(c) PROVE Ordered'
<1> USE DEF Ordered, TypeOK, OneStart, OneStop, NotYet, Still, Agree, Opening, Closing, Stopping, Places, Outside, Caller,
        Goto, Unlock, Nobody, handler, ring, pre, writer, state, again, ghosts
<1>1. CASE StartLock(c)
  BY <1>1 DEF StartLock
<1>2. CASE OpenFile(c)
  BY <1>2 DEF OpenFile
<1>3. CASE OpenFails(c)
  BY <1>3 DEF OpenFails
<1>4. CASE Record(c)
  BY <1>4 DEF Record
<1>5. CASE Started(c)
  BY <1>5 DEF Started
<1> QED
  BY <1>1, <1>2, <1>3, <1>4, <1>5 DEF Start

\* stop(): isStopping excludes another one, and a start() gives up.
LEMMA OrderedStop == ASSUME NEW c \in Caller, Ordered, Stop(c) PROVE Ordered'
<1> USE DEF Ordered, TypeOK, OneStart, OneStop, NotYet, Still, Agree, Opening, Closing, Stopping, Places, Outside, Caller,
        Goto, handler, ring, pre, writer, state, again, ghosts
<1>1. CASE EnterStop(c)
  BY <1>1 DEF EnterStop
<1>2. CASE StopCheck(c)
  BY <1>2 DEF StopCheck
<1>3. CASE CloseFile(c)
  BY <1>3 DEF CloseFile
<1>4. CASE ClearRing(c)
  BY <1>4 DEF ClearRing, ClearHead, ClearTail
<1>5. CASE RestoreRing(c)
  BY <1>5 DEF RestoreRing, ClearHead, ClearTail
<1>6. CASE Stopped(c)
  BY <1>6 DEF Stopped
<1>7. CASE Leave(c)
  BY <1>7 DEF Leave
<1> QED
  BY <1>1, <1>2, <1>3, <1>4, <1>5, <1>6, <1>7 DEF Stop

\* start(), stop() and the audio thread leave the bookkeeping in order.
LEMMA OrderedNext == Ordered /\ [Next]_vars => Ordered'
<1> SUFFICES ASSUME Ordered, [Next]_vars PROVE Ordered'
  OBVIOUS
<1>1. CASE Arrive \/ Handler
  BY <1>1, OrderedHandler, OrderedStutter
<1>2. CASE UserStarts \/ UserStops \/ Info
  BY <1>2, OrderedCalls
<1>3. CASE \E c \in Caller : Start(c) \/ Stop(c)
  BY <1>3, OrderedStart, OrderedStop
<1>4. CASE UNCHANGED vars
  BY <1>4, OrderedStutter DEF vars, subject, writer, state, callers
<1> QED
  BY <1>1, <1>2, <1>3, <1>4 DEF Next

\* While neither start() nor stop() is running, the file is open exactly while the
\* recorder says it records, and start() never meets an open writer, whatever the
\* audio thread does and however long the files are.
THEOREM FileFollowsFlag == Spec => []OpenWhileRecording
<1>1. Ordered => OpenWhileRecording
  BY DEF Ordered, TypeOK, NotYet, Agree, OpenWhileRecording, Outside, Closing
<1> QED
  BY OrderedInit, OrderedNext, <1>1, PTL DEF Spec

-----------------------------------------------------------------------------
(* Seamless: the inductive invariant                                        *)

\* Types.
HandlerPlaces == {"idle", "keep?", "push", "pushed", "drain?", "pop", "popped", "prefix", "spill", "disarm", "write",
                  "max"}
Index == 0..Capacity-1

DataOK == /\ block \in Nat /\ hpc \in HandlerPlaces
          /\ idx \in Index /\ head \in Index /\ tail \in Index
          /\ cell \in [Index -> Nat] /\ temp \in Seq(Nat) /\ file \in Seq(Nat)
          /\ armed \in BOOLEAN /\ drained \in BOOLEAN /\ torn \in BOOLEAN

\* In a file b may come right after a.
Meets(S, a, b) == a < b /\ (a+1)..(b-1) \subseteq S
Joined(S, s) == \A i \in 1..Len(s)-1 : Meets(S, s[i], s[i+1])
EndOf(s) == s[Len(s)]

\* What the ring holds, from the oldest block to the newest.
Between(h, t) == (t - h + Capacity) % Capacity
Place(h, i) == (h + i) % Capacity
Count == Between(head, tail)
Held(i) == cell[Place(head, i)]
Newest == Held(Count - 1)

\* A file is opened before the blocks of the ring are written.
FlagsOK == /\ hpc \in {"push", "pushed", "pop", "popped"} => armed
           /\ hpc \in {"pop", "popped", "prefix"} /\ open => Len(file) <= 1
           /\ hpc \in {"push", "pushed"} /\ open => file = <<>>
           /\ hpc = "write" /\ open /\ armed => file = <<>>
           /\ armed /\ open => Len(file) <= 1 \/ hpc \in {"spill", "disarm"}
           /\ armed /\ drained => hpc \in {"pop", "popped", "prefix", "spill", "disarm"}

\* What push() and pop() loaded is still there when they store; half cleared, the head
\* is back at the start and the handler is not between two steps of the ring.
CursorsOK == /\ hpc = "pushed" => idx = tail /\ Next1(tail) # head
             /\ hpc = "popped" => idx = head /\ head # tail /\ temp # <<>> /\ EndOf(temp) = cell[head]
             /\ HalfCleared => head = 0 /\ hpc \notin {"pushed", "pop", "popped"}
             /\ ~HalfCleared /\ (~armed \/ hpc \in {"prefix", "spill", "disarm"}) => head = tail
             /\ hpc \notin {"pop", "popped", "prefix", "spill", "disarm"} => temp = <<>>

\* Each block of the ring may come right after the one before.
RingOK == ~HalfCleared => \A i \in 0..Count-2 : Meets(skipped, Held(i), Held(i+1))

\* The newest block of the ring and the block in hand.  What is pushed between close()
\* and clear() is lost.
Lost == \E c \in Caller : cpc[c] = "clear"
NewestOK == ~HalfCleared /\ Count > 0 =>
               /\ hpc \in {"keep?", "push", "pushed"} => Meets(skipped, Newest, block)
               /\ hpc \in {"idle", "max", "write"} /\ ~Lost => Meets(skipped, Newest, block + 1)
               /\ hpc = "drain?" /\ ~Lost => /\ Meets(skipped, Newest, block + 1) \/ (open /\ Meets(skipped, Newest, block))
                                             /\ Newest = block /\ open => file = <<>>

\* What pop() has taken goes on in the ring, and the last of it ends before the block in
\* hand, or is that block and then the only thing written.
Ends(z) == Meets(skipped, z, block) \/ (z = block /\ (open => file = <<>>))
Taken == IF hpc = "popped" THEN 1 ELSE 0
TempOK == /\ hpc \in {"pop", "popped", "prefix"} => Joined(skipped, temp)
          /\ hpc \in {"pop", "popped"} /\ temp # <<>> /\ Count > Taken => Meets(skipped, EndOf(temp), Held(Taken))
          /\ hpc \in {"pop", "popped"} /\ Count > Taken => Ends(Newest)
          /\ hpc \in {"pop", "popped", "prefix"} /\ temp # <<>> /\ (hpc = "prefix" \/ Count = Taken) => Ends(EndOf(temp))

\* A file has one break at most, and its end meets the next block to be written; between
\* prefix and block in hand the break is the next one.
OneBreak(S, s) == \E k \in Nat : \A i \in 1..Len(s)-1 : i # k => Meets(S, s[i], s[i+1])
Due == IF hpc \in {"idle", "max", "disarm"} THEN block + 1 ELSE block
EndOK == open /\ file # <<>> => IF hpc = "spill" THEN Joined(skipped, file) \/ Meets(skipped, EndOf(file), block)
                                                 ELSE Meets(skipped, EndOf(file), Due)

\* The clear of a ring that the handler is using tears it: nothing is said after that.
Woven == FlagsOK /\ CursorsOK /\ RingOK /\ NewestOK /\ TempOK /\ OneBreak(skipped, file) /\ EndOK
Seam == DataOK /\ (~torn => Woven)

-----------------------------------------------------------------------------
\* The ring has room for one block at least.
LEMMA CapacityType == Capacity \in Nat /\ Capacity > 1
  BY RecorderAssumption DEF Capacity

\* The remainder of a sum of two indexes.
LEMMA WrapIs == \A i \in 0..2*Capacity-1 : i % Capacity = IF i < Capacity THEN i ELSE i - Capacity
  BY CapacityType

\* ... of the index after another
LEMMA Next1Is == \A i \in Index : /\ Next1(i) = IF i = Capacity - 1 THEN 0 ELSE i + 1
                                 /\ Next1(i) \in Index
  BY CapacityType, WrapIs DEF Index, Next1

\* ... of the distance from head to tail
LEMMA BetweenIs == ASSUME NEW h \in Index, NEW t \in Index
                   PROVE  /\ Between(h, t) = IF h <= t THEN t - h ELSE t - h + Capacity
                          /\ Between(h, t) \in Index
<1> DEFINE n == t - h + Capacity
<1>1. n \in 0..2*Capacity-1
  BY CapacityType DEF Index
<1>2. Between(h, t) = IF n < Capacity THEN n ELSE n - Capacity
  BY <1>1, WrapIs DEF Between
<1> QED
  BY <1>2, CapacityType DEF Index

\* ... and of a place of the ring.
LEMMA PlaceIs == ASSUME NEW h \in Index, NEW i \in Index
                 PROVE  /\ Place(h, i) = IF h + i < Capacity THEN h + i ELSE h + i - Capacity
                        /\ Place(h, i) \in Index
<1> DEFINE j == h + i
<1>1. j \in 0..2*Capacity-1
  BY CapacityType DEF Index
<1>2. Place(h, i) = IF j < Capacity THEN j ELSE j - Capacity
  BY <1>1, WrapIs DEF Place
<1> QED
  BY <1>2, CapacityType DEF Index

\* One block more: the rest keeps its place.
LEMMA OneMore == ASSUME NEW h \in Index, NEW t \in Index, Next1(t) # h
                 PROVE  /\ Between(h, Next1(t)) = Between(h, t) + 1
                        /\ Place(h, Between(h, t)) = t
                        /\ \A i \in 0..Between(h, t)-1 : Place(h, i) # t
<1> DEFINE n == Next1(t)   m == Between(h, t)
<1>1. h \in Int /\ t \in Int /\ 0 <= h /\ h < Capacity /\ 0 <= t /\ t < Capacity /\ Capacity \in Nat
  BY CapacityType DEF Index
<1>2. n \in Index /\ n # h /\ n = IF t = Capacity - 1 THEN 0 ELSE t + 1
  BY Next1Is
<1>3. m = (IF h <= t THEN t - h ELSE t - h + Capacity) /\ m \in Index
  BY BetweenIs
<1>4. Between(h, n) = IF h <= n THEN n - h ELSE n - h + Capacity
  BY <1>2, BetweenIs
<1> HIDE DEF n, m
<1>5. Between(h, n) = m + 1
  BY <1>1, <1>2, <1>3, <1>4
<1>6. Place(h, m) = t
  BY <1>1, <1>3, PlaceIs
<1>7. ASSUME NEW i \in 0..m-1 PROVE Place(h, i) # t
  <2>1. i \in Index /\ i \in Int /\ 0 <= i /\ i < m
    BY <1>1, <1>3 DEF Index
  <2> QED
    BY <1>1, <1>3, <2>1, PlaceIs
<1> QED
  BY <1>5, <1>6, <1>7 DEF n, m

\* One block less: the rest moves down.
LEMMA OneLess == ASSUME NEW h \in Index, NEW t \in Index, h # t
                 PROVE  /\ Between(Next1(h), t) = Between(h, t) - 1
                        /\ Place(h, 0) = h
                        /\ \A i \in 0..Between(h, t)-2 : Place(Next1(h), i) = Place(h, i + 1)
<1> DEFINE n == Next1(h)   m == Between(h, t)
<1>1. h \in Int /\ t \in Int /\ 0 <= h /\ h < Capacity /\ 0 <= t /\ t < Capacity /\ Capacity \in Nat
  BY CapacityType DEF Index
<1>2. n \in Index /\ n \in Int /\ n = IF h = Capacity - 1 THEN 0 ELSE h + 1
  BY <1>1, Next1Is
<1>3. m = (IF h <= t THEN t - h ELSE t - h + Capacity) /\ m \in Index
  BY BetweenIs
<1>4. Between(n, t) = IF n <= t THEN t - n ELSE t - n + Capacity
  BY <1>2, BetweenIs
<1> HIDE DEF n, m
<1>5. Between(n, t) = m - 1
  BY <1>1, <1>2, <1>3, <1>4
<1>6. Place(h, 0) = h
  <2>1. 0 \in Index
    BY CapacityType DEF Index
  <2> QED
    BY <1>1, <2>1, PlaceIs
<1>7. ASSUME NEW i \in 0..m-2 PROVE Place(n, i) = Place(h, i + 1)
  <2>1. i \in Index /\ i + 1 \in Index /\ i \in Int /\ 0 <= i /\ i < m - 1
    BY <1>1, <1>3 DEF Index
  <2>2. Place(n, i) = IF n + i < Capacity THEN n + i ELSE n + i - Capacity
    BY <1>2, <2>1, PlaceIs
  <2>3. Place(h, i + 1) = IF h + (i + 1) < Capacity THEN h + (i + 1) ELSE h + (i + 1) - Capacity
    BY <2>1, PlaceIs
  <2>4. CASE h = Capacity - 1
    BY <1>1, <1>2, <1>3, <2>1, <2>2, <2>3, <2>4 DEF Index
  <2>5. CASE h # Capacity - 1
    BY <1>1, <1>2, <2>1, <2>2, <2>3, <2>5
  <2> QED
    BY <2>4, <2>5
<1> QED
  BY <1>5, <1>6, <1>7 DEF n, m

\* An empty ring is one whose head meets its tail.
LEMMA NoneLeft == ASSUME NEW h \in Index, NEW t \in Index
                  PROVE  /\ h = t => Between(h, t) = 0
                         /\ h # t => Between(h, t) > 0
<1>1. h \in Int /\ t \in Int /\ 0 <= h /\ h < Capacity /\ 0 <= t /\ t < Capacity /\ Capacity \in Nat
  BY CapacityType DEF Index
<1> QED
  BY <1>1, BetweenIs

\* Meets: a larger set of blocks left out
LEMMA MeetsGrow == ASSUME NEW S, NEW T, S \subseteq T, NEW a, NEW b, Meets(S, a, b)
                   PROVE  Meets(T, a, b)
  BY DEF Meets

\* ... the next block
LEMMA MeetsNext == ASSUME NEW S, NEW a \in Nat
                   PROVE  Meets(S, a, a + 1)
  BY DEF Meets

\* ... the order
LEMMA MeetsLess == ASSUME NEW S, NEW a, NEW b, Meets(S, a, b)
                   PROVE  a < b
  BY DEF Meets

\* ... and the block before the last.
LEMMA MeetsBack == ASSUME NEW S, NEW a \in Nat, NEW b \in Nat, Meets(S, a, b + 1), a # b
                   PROVE  Meets(S, a, b)
  BY DEF Meets

\* The block that is left out may stand between.
LEMMA MeetsSkip == ASSUME NEW S, NEW a \in Nat, NEW b \in Nat, Meets(S, a, b)
                   PROVE  Meets(S \cup {b}, a, b + 1)
  BY DEF Meets

\* A step that leaves all but the callers alone.
data == <<block, handler, ring, pre, writer, ghosts>>

\* A step that leaves the data alone, whoever takes it.
LEMMA SeamKeeps == ASSUME Seam, UNCHANGED data,
                          HalfCleared' => HalfCleared, HalfCleared => HalfCleared', Lost => Lost'
                   PROVE  Seam'
<1> USE DEF data, handler, ring, pre, writer, ghosts
<1>1. DataOK'
  BY DEF Seam, DataOK
<1>2. ASSUME Woven, ~torn' PROVE Woven'
  <2>1. FlagsOK' /\ CursorsOK'
    BY <1>2 DEF Woven, FlagsOK, CursorsOK
  <2>2. RingOK' /\ NewestOK'
    BY <1>2 DEF Woven, RingOK, NewestOK, Newest, Held, Count
  <2>3. TempOK'
    BY <1>2 DEF Woven, TempOK, Ends, Taken, Newest, Held, Count
  <2>4. OneBreak(skipped, file)' /\ EndOK'
    BY <1>2 DEF Woven, OneBreak, EndOK, Due
  <2> QED
    BY <2>1, <2>2, <2>3, <2>4 DEF Woven
<1> QED
  BY <1>1, <1>2 DEF Seam

\* The callers do not move: neither do the two conditions about them.
LEMMA CallersStay == ASSUME UNCHANGED callers
                     PROVE  /\ HalfCleared' => HalfCleared
                            /\ HalfCleared => HalfCleared'
                            /\ Lost => Lost'
                            /\ Lost' => Lost
  BY DEF callers, HalfCleared, Lost

\* What is typed.
LEMMA HeldType == ASSUME DataOK
                  PROVE  /\ Count \in Index
                         /\ \A i \in Index : Held(i) \in Nat
                         /\ Count > 0 => Newest \in Nat
                         /\ head = tail => Count = 0
                         /\ head # tail => Count > 0
<1>1. head \in Index /\ tail \in Index /\ cell \in [Index -> Nat]
  BY DEF DataOK
<1>2. Count \in Index
  BY <1>1, BetweenIs DEF Count
<1>3. \A i \in Index : Held(i) \in Nat
  BY <1>1, PlaceIs DEF Held
<1>4. Count > 0 => Count - 1 \in Index
  BY <1>2, CapacityType DEF Index
<1> QED
  BY <1>1, <1>2, <1>3, <1>4, NoneLeft DEF Newest, Count

\* The last block of a file.
LEMMA EndType == ASSUME DataOK
                 PROVE  /\ file # <<>> => EndOf(file) \in Nat /\ Len(file) \in Nat /\ Len(file) > 0
                        /\ temp # <<>> => EndOf(temp) \in Nat /\ Len(temp) \in Nat /\ Len(temp) > 0
  BY DEF DataOK, EndOf

\* A block arrives: it comes right after the last one that was kept.
LEMMA SeamArrive == ASSUME Seam, Ordered, Arrive PROVE Seam'
<1> USE DEF handler, ring, pre, writer, state, again
<1>0. /\ HalfCleared' => HalfCleared
      /\ HalfCleared => HalfCleared'
      /\ Lost => Lost'
      /\ Lost' => Lost
  BY CallersStay DEF Arrive
<1>1. DataOK'
  BY DEF Seam, DataOK, Arrive, HandlerPlaces
<1>2. ASSUME Woven, ~torn' PROVE Woven'
  <2>1. DataOK
    BY DEF Seam
  <2>2. \A a, b : Meets(skipped, a, b) => Meets(skipped', a, b)
    <3>1. skipped \subseteq skipped'
      BY DEF Arrive
    <3> QED
      BY <3>1, MeetsGrow
  <2>3. Joined(skipped, file) => Joined(skipped', file)
    BY <2>2 DEF Joined
  <2>4. hpc = "idle" /\ UNCHANGED <<cell, head, tail, temp, file, open, armed, drained, idx>>
    BY DEF Arrive
  <2>5. \/ hpc' = "idle" /\ \A a \in Nat : Meets(skipped, a, block + 1) => Meets(skipped', a, block' + 1)
        \/ hpc' = "keep?" /\ block' = block + 1 /\ ~Lost /\ ~HalfCleared
    <3>1. CASE stopping \/ restart
      <4>1. block + 1 \in Nat /\ block' = block + 1 /\ skipped' = skipped \cup {block + 1} /\ hpc' = "idle"
        BY <3>1, <2>1, <2>4 DEF Arrive, DataOK
      <4>2. \A a \in Nat : Meets(skipped, a, block + 1) => Meets(skipped', a, (block + 1) + 1)
        BY <4>1, MeetsSkip
      <4> QED
        BY <4>1, <4>2
    <3>2. CASE ~(stopping \/ restart)
      BY <3>2 DEF Arrive, Ordered, OneStop, Stopping, Closing, Lost, HalfCleared
    <3> QED
      BY <3>1, <3>2
  <2>6. FlagsOK' /\ CursorsOK'
    BY <1>0, <1>2, <2>4, <2>5 DEF Woven, FlagsOK, CursorsOK
  <2>7. RingOK'
    BY <1>0, <1>2, <2>2, <2>4 DEF Woven, RingOK, Held, Count
  <2>8. NewestOK'
    <3>1. Count > 0 => Newest \in Nat
      BY <2>1, HeldType
    <3> QED
      BY <1>0, <1>2, <2>2, <2>4, <2>5, <3>1 DEF Woven, NewestOK, Newest, Held, Count
  <2>9. TempOK'
    BY <2>4, <2>5 DEF TempOK
  <2>10. OneBreak(skipped, file)'
    BY <1>0, <1>2, <2>2, <2>4 DEF Woven, OneBreak
  <2>11. EndOK'
    <3>1. file # <<>> => EndOf(file) \in Nat
      BY <2>1, EndType
    <3> QED
      BY <1>0, <1>2, <2>2, <2>4, <2>5, <3>1 DEF Woven, EndOK, Due
  <2> QED
    BY <2>6, <2>7, <2>8, <2>9, <2>10, <2>11 DEF Woven
<1> QED
  BY <1>1, <1>2 DEF Seam, Arrive, handler

\* The block goes to the ring while the pre-record is armed and no file is open.
LEMMA SeamToRing == ASSUME Seam, ToRing PROVE Seam'
<1> USE DEF ring, pre, writer, state, again, ghosts
<1>0. /\ HalfCleared' => HalfCleared
      /\ HalfCleared => HalfCleared'
      /\ Lost => Lost'
      /\ Lost' => Lost
  BY CallersStay DEF ToRing
<1>1. DataOK'
  BY DEF Seam, DataOK, ToRing, HandlerPlaces
<1>2. ASSUME Woven, ~torn' PROVE Woven'
  <2>1. DataOK
    BY DEF Seam
  <2>2. /\ hpc = "keep?" /\ hpc' = (IF armed /\ ~open THEN "push" ELSE "drain?")
        /\ UNCHANGED <<block, cell, head, tail, temp, file, open, armed, drained, idx, skipped>>
    BY DEF ToRing
  <2>3. FlagsOK' /\ CursorsOK'
    BY <1>0, <1>2, <2>2 DEF Woven, FlagsOK, CursorsOK
  <2>4. RingOK'
    BY <1>0, <1>2, <2>2 DEF Woven, RingOK, Held, Count
  <2>5. NewestOK'
    <3>1. CASE hpc' = "push"
      BY <1>0, <1>2, <2>2, <3>1 DEF Woven, NewestOK, Newest, Held, Count
    <3>2. CASE ~HalfCleared /\ Count > 0 /\ hpc' = "drain?"
      <4>1. armed /\ open
        BY <1>2, <2>1, <2>2, <3>2, HeldType DEF Woven, CursorsOK
      <4>2. Meets(skipped, Newest, block)
        BY <1>2, <2>2, <3>2 DEF Woven, NewestOK
      <4>3. Newest # block
        BY <4>2, <3>2, <2>1, HeldType, MeetsLess DEF DataOK
      <4> QED
        BY <1>0, <2>2, <3>2, <4>1, <4>2, <4>3 DEF NewestOK, Newest, Held, Count
    <3> QED
      BY <1>0, <2>2, <3>1, <3>2 DEF NewestOK, Count
  <2>6. TempOK' /\ OneBreak(skipped, file)' /\ EndOK'
    BY <1>2, <2>2 DEF Woven, TempOK, OneBreak, EndOK, Due
  <2> QED
    BY <2>3, <2>4, <2>5, <2>6 DEF Woven
<1> QED
  BY <1>1, <1>2 DEF Seam, ToRing

\* push() reads tail and head: a full ring drops the block.
LEMMA SeamPushLoad == ASSUME Seam, PushLoad PROVE Seam'
<1> USE DEF ring, pre, writer, state, again
<1>0. /\ HalfCleared' => HalfCleared
      /\ HalfCleared => HalfCleared'
      /\ Lost => Lost'
      /\ Lost' => Lost
  BY CallersStay DEF PushLoad
<1>1. DataOK'
  BY DEF Seam, DataOK, PushLoad, HandlerPlaces
<1>2. ASSUME Woven, ~torn' PROVE Woven'
  <2>1. DataOK /\ ~HalfCleared /\ hpc = "push"
    BY <1>2 DEF Seam, PushLoad
  <2>2. UNCHANGED <<block, cell, head, tail, temp, file, open, armed, drained>>
    BY DEF PushLoad
  <2>3. CASE Next1(tail) = head
    <3>1. hpc' = "drain?" /\ skipped' = skipped \cup {block}
      BY <2>3 DEF PushLoad
    <3>2. \A a, b : Meets(skipped, a, b) => Meets(skipped', a, b)
      BY <3>1, MeetsGrow
    <3>3. Joined(skipped, file) => Joined(skipped', file)
      BY <3>2 DEF Joined
    <3>4. NewestOK'
      <4>1. CASE Count > 0
        <5>1. Newest \in Nat /\ block \in Nat
          BY <2>1, <4>1, HeldType DEF DataOK
        <5>2. Meets(skipped, Newest, block)
          BY <1>2, <2>1, <4>1 DEF Woven, NewestOK
        <5>3. Meets(skipped', Newest, block + 1) /\ Newest # block
          BY <3>1, <5>1, <5>2, MeetsSkip, MeetsLess
        <5> QED
          BY <2>1, <2>2, <3>1, <4>1, <5>3 DEF NewestOK, Newest, Held, Count
      <4> QED
        BY <2>2, <4>1 DEF NewestOK, Count
    <3>5. FlagsOK' /\ CursorsOK'
      BY <1>0, <1>2, <2>1, <2>2, <3>1 DEF Woven, FlagsOK, CursorsOK
    <3>6. RingOK'
      BY <1>2, <2>1, <2>2, <3>2 DEF Woven, RingOK, Held, Count
    <3>7. TempOK' /\ OneBreak(skipped, file)' /\ EndOK'
      BY <1>2, <2>1, <2>2, <3>1, <3>2, <3>3 DEF Woven, TempOK, OneBreak, EndOK, Due
    <3> QED
      BY <3>4, <3>5, <3>6, <3>7 DEF Woven
  <2>4. CASE Next1(tail) # head
    <3>1. hpc' = "pushed" /\ idx' = tail /\ skipped' = skipped
      BY <2>4 DEF PushLoad
    <3>2. FlagsOK' /\ CursorsOK'
      BY <1>0, <1>2, <2>1, <2>2, <2>4, <3>1 DEF Woven, FlagsOK, CursorsOK, Next1
    <3>3. RingOK' /\ NewestOK'
      BY <1>2, <2>1, <2>2, <3>1 DEF Woven, RingOK, NewestOK, Newest, Held, Count
    <3>4. TempOK' /\ OneBreak(skipped, file)' /\ EndOK'
      BY <1>2, <2>1, <2>2, <3>1 DEF Woven, TempOK, OneBreak, EndOK, Due
    <3> QED
      BY <3>2, <3>3, <3>4 DEF Woven
  <2> QED
    BY <2>3, <2>4
<1> QED
  BY <1>1, <1>2 DEF Seam, PushLoad

\* push() stores the block and moves tail.
LEMMA SeamPushStore == ASSUME Seam, PushStore PROVE Seam'
<1> USE DEF pre, writer, state, again
<1>0. /\ HalfCleared' => HalfCleared
      /\ HalfCleared => HalfCleared'
      /\ Lost => Lost'
      /\ Lost' => Lost
  BY CallersStay DEF PushStore
<1>1. DataOK'
  <2>1. DataOK /\ idx \in Index /\ Next1(idx) \in Index /\ 0 \in Index
    BY Next1Is, CapacityType DEF Seam, DataOK, Index
  <2> QED
    BY <2>1 DEF DataOK, PushStore, HandlerPlaces
<1>2. ASSUME Woven, ~torn' PROVE Woven'
  <2>1. DataOK /\ ~HalfCleared /\ hpc = "pushed" /\ idx = tail /\ Next1(tail) # head
    BY <1>2 DEF Seam, PushStore, Woven, CursorsOK
  <2>2. /\ UNCHANGED <<block, head, temp, file, open, armed, drained, skipped>>
        /\ cell' = [cell EXCEPT ![tail] = block] /\ tail' = Next1(tail) /\ hpc' = "drain?"
    BY <2>1 DEF PushStore
  <2>3. /\ head \in Index /\ tail \in Index /\ cell \in [Index -> Nat] /\ block \in Nat
    BY <2>1 DEF DataOK
  <2>4. /\ Count' = Count + 1
        /\ cell'[Place(head', Count)] = block
        /\ \A i \in 0..Count-1 : Held(i)' = Held(i)
    <3>1. Count' = Count + 1
      BY <2>1, <2>2, <2>3, OneMore DEF Count
    <3>2. cell'[Place(head', Count)] = block
      BY <2>1, <2>2, <2>3, OneMore DEF Count
    <3>3. ASSUME NEW i \in 0..Count-1 PROVE Held(i)' = Held(i)
      <4>1. i \in Index
        BY <2>1, HeldType, CapacityType DEF Index
      <4>2. Place(head, i) # tail /\ Place(head, i) \in Index
        BY <2>1, <2>3, <4>1, OneMore, PlaceIs DEF Count
      <4> QED
        BY <2>2, <2>3, <4>2 DEF Held
    <3> QED
      BY <3>1, <3>2, <3>3
  <2>5. FlagsOK' /\ CursorsOK'
    BY <1>0, <1>2, <2>1, <2>2 DEF Woven, FlagsOK, CursorsOK
  <2>6. Count \in Nat /\ (Count > 0 => Newest \in Nat)
    BY <2>1, HeldType, CapacityType DEF Index
  <2>7. RingOK'
    <3>1. ASSUME NEW i \in 0..Count'-2 PROVE Meets(skipped', Held(i)', Held(i+1)')
      <4>1. i \in Nat /\ i + 1 <= Count
        BY <2>4, <2>6
      <4>2. CASE i + 1 < Count
        BY <1>2, <2>1, <2>2, <2>4, <2>6, <4>1, <4>2 DEF Woven, RingOK
      <4>3. CASE i + 1 = Count
        <5>1. Count > 0 /\ i = Count - 1 /\ Held(i)' = Newest
          BY <2>4, <2>6, <4>1, <4>3 DEF Newest
        <5>2. Meets(skipped, Newest, block)
          BY <1>2, <2>1, <5>1 DEF Woven, NewestOK
        <5> QED
          BY <2>2, <2>4, <4>3, <5>1, <5>2 DEF Held
      <4> QED
        BY <2>6, <4>1, <4>2, <4>3
    <3> QED
      BY <3>1 DEF RingOK
  <2>8. NewestOK'
    <3>1. Newest' = block
      BY <2>4, <2>6 DEF Newest, Held
    <3>2. Meets(skipped', block, block + 1)
      BY <2>3, MeetsNext
    <3>3. open => file = <<>>
      BY <1>2, <2>1 DEF Woven, FlagsOK
    <3> QED
      BY <2>2, <3>1, <3>2, <3>3 DEF NewestOK
  <2>9. TempOK' /\ OneBreak(skipped, file)' /\ EndOK'
    BY <1>2, <2>1, <2>2 DEF Woven, TempOK, OneBreak, EndOK, Due
  <2> QED
    BY <2>5, <2>7, <2>8, <2>9 DEF Woven
<1> QED
  BY <1>1, <1>2 DEF Seam, PushStore

\* The first block of a recording empties the ring; a later one is written.
LEMMA SeamToDrain == ASSUME Seam, Ordered, ToDrain PROVE Seam'
<1> USE DEF ring, writer, state, again, ghosts
<1>0. /\ HalfCleared' => HalfCleared
      /\ HalfCleared => HalfCleared'
      /\ Lost => Lost'
      /\ Lost' => Lost
  BY CallersStay DEF ToDrain
<1>1. DataOK'
  BY DEF Seam, DataOK, ToDrain, HandlerPlaces
<1>2. ASSUME Woven, ~torn' PROVE Woven'
  <2>1. DataOK /\ hpc = "drain?" /\ temp = <<>>
    BY <1>2 DEF Seam, ToDrain, Woven, CursorsOK
  <2>2. UNCHANGED <<block, cell, head, tail, temp, file, open, armed, idx, skipped>>
    BY DEF ToDrain
  <2>3. RingOK' /\ OneBreak(skipped, file)'
    BY <1>0, <1>2, <2>2 DEF Woven, RingOK, Held, Count, OneBreak
  <2>4. CASE armed /\ ~drained /\ open
    <3>1. hpc' = "pop" /\ drained'
      BY <2>4 DEF ToDrain
    <3>2. ~HalfCleared /\ ~Lost
      BY <2>4 DEF Ordered, Still, Closing, HalfCleared, Lost
    <3>3. FlagsOK' /\ CursorsOK'
      BY <1>0, <1>2, <2>1, <2>2, <2>4, <3>1, <3>2 DEF Woven, FlagsOK, CursorsOK
    <3>4. Count > 0 => Ends(Newest)
      <4> SUFFICES ASSUME Count > 0, Newest # block PROVE Meets(skipped, Newest, block)
        BY <1>2, <2>1, <3>2 DEF Woven, NewestOK, Ends
      <4>1. Newest \in Nat /\ block \in Nat
        BY <2>1, HeldType DEF DataOK
      <4> QED
        BY <1>2, <2>1, <3>2, <4>1, MeetsBack DEF Woven, NewestOK
    <3>5. TempOK'
      BY <2>1, <2>2, <3>1, <3>4 DEF TempOK, Joined, Taken, Ends, Newest, Held, Count
    <3>6. NewestOK' /\ EndOK'
      BY <1>2, <2>1, <2>2, <3>1 DEF Woven, NewestOK, EndOK, Due
    <3> QED
      BY <2>3, <3>3, <3>5, <3>6 DEF Woven
  <2>5. CASE ~(armed /\ ~drained /\ open)
    <3>1. hpc' = "write" /\ UNCHANGED drained
      BY <2>5 DEF ToDrain
    <3>2. armed => ~open
      BY <1>2, <2>1, <2>5 DEF Woven, FlagsOK
    <3>3. FlagsOK' /\ CursorsOK'
      BY <1>0, <1>2, <2>1, <2>2, <3>1, <3>2 DEF Woven, FlagsOK, CursorsOK
    <3>4. ~HalfCleared /\ Count > 0 => armed
      BY <1>2, <2>1, HeldType DEF Woven, CursorsOK
    <3>5. NewestOK'
      BY <1>0, <1>2, <2>1, <2>2, <3>1, <3>2, <3>4 DEF Woven, NewestOK, Newest, Held, Count
    <3>6. TempOK' /\ EndOK'
      BY <1>2, <2>1, <2>2, <3>1 DEF Woven, TempOK, EndOK, Due
    <3> QED
      BY <2>3, <3>3, <3>5, <3>6 DEF Woven
  <2> QED
    BY <2>4, <2>5
<1> QED
  BY <1>1, <1>2 DEF Seam, ToDrain

\* pop() reads head and tail and the oldest block, or finds nothing left.
LEMMA SeamPopLoad == ASSUME Seam, PopLoad PROVE Seam'
<1> USE DEF ring, pre, writer, state, again
<1>0. /\ HalfCleared' => HalfCleared
      /\ HalfCleared => HalfCleared'
      /\ Lost => Lost'
      /\ Lost' => Lost
  BY CallersStay DEF PopLoad
<1>1. DataOK'
  <2>1. head \in Index /\ temp \in Seq(Nat) /\ cell[head] \in Nat
    BY DEF Seam, DataOK
  <2>2. Append(temp, cell[head]) \in Seq(Nat)
    BY <2>1
  <2>3. temp' \in Seq(Nat) /\ idx' \in Index /\ hpc' \in {"prefix", "popped"} /\ torn' \in BOOLEAN
    BY <2>1, <2>2 DEF Seam, DataOK, PopLoad
  <2> QED
    BY <2>3 DEF Seam, DataOK, PopLoad, HandlerPlaces
<1>2. ASSUME Woven, ~torn' PROVE Woven'
  <2>1. DataOK /\ ~HalfCleared /\ hpc = "pop"
    BY <1>2 DEF Seam, PopLoad
  <2>2. UNCHANGED <<block, cell, head, tail, file, open, armed, drained, skipped>>
    BY DEF PopLoad
  <2>3. RingOK' /\ OneBreak(skipped, file)'
    BY <1>0, <1>2, <2>2 DEF Woven, RingOK, Held, Count, OneBreak
  <2>4. CASE head = tail
    <3>1. hpc' = "prefix" /\ UNCHANGED temp
      BY <2>4 DEF PopLoad
    <3>2. Count = 0
      BY <2>1, <2>4, HeldType
    <3>3. FlagsOK' /\ CursorsOK' /\ NewestOK' /\ EndOK'
      BY <1>0, <1>2, <2>1, <2>2, <2>4, <3>1 DEF Woven, FlagsOK, CursorsOK, NewestOK, EndOK, Due
    <3>4. TempOK'
      BY <1>2, <2>1, <2>2, <3>1, <3>2 DEF Woven, TempOK, Taken, Ends
    <3> QED
      BY <2>3, <3>3, <3>4 DEF Woven
  <2>5. CASE head # tail
    <3>1. hpc' = "popped" /\ temp' = Append(temp, cell[head]) /\ idx' = head
      BY <2>5 DEF PopLoad
    <3>2. /\ temp \in Seq(Nat) /\ head \in Index /\ tail \in Index /\ cell[head] \in Nat
      BY <2>1 DEF DataOK
    <3>3. /\ Len(temp') = Len(temp) + 1 /\ temp' # <<>> /\ Len(temp) \in Nat
          /\ \A i \in 1..Len(temp) : temp'[i] = temp[i]
          /\ EndOf(temp') = cell[head]
      BY <3>1, <3>2 DEF EndOf
    <3>4. Count > 0 /\ Count \in Nat /\ Held(0) = cell[head]
      BY <2>1, <2>5, <3>2, HeldType, OneLess, CapacityType DEF Index, Held
    <3>5. FlagsOK' /\ CursorsOK'
      BY <1>0, <1>2, <2>1, <2>2, <2>5, <3>1, <3>3 DEF Woven, FlagsOK, CursorsOK
    <3>6. NewestOK' /\ EndOK'
      BY <1>2, <2>1, <2>2, <3>1 DEF Woven, NewestOK, EndOK, Due
    <3>7. Joined(skipped', temp')
      <4>1. temp # <<>> => Meets(skipped, EndOf(temp), Held(0))
        BY <1>2, <2>1, <3>4 DEF Woven, TempOK, Taken
      <4>2. ASSUME NEW i \in 1..Len(temp')-1 PROVE Meets(skipped', temp'[i], temp'[i+1])
        <5>1. CASE i < Len(temp)
          BY <1>2, <2>1, <2>2, <3>3, <5>1 DEF Woven, TempOK, Joined
        <5>2. CASE i = Len(temp)
          BY <2>2, <3>2, <3>3, <3>4, <4>1, <5>2 DEF EndOf
        <5> QED
          BY <3>3, <5>1, <5>2
      <4> QED
        BY <4>2 DEF Joined
    <3>8. TempOK'
      <4>1. Count > 1 => Meets(skipped, Held(0), Held(1))
        BY <1>2, <2>1, <3>4 DEF Woven, RingOK
      <4>2. Ends(Newest)
        BY <1>2, <2>1, <3>4 DEF Woven, TempOK, Taken
      <4>3. Count = 1 => Newest = Held(0)
        BY DEF Newest
      <4>4. Taken' = 1 /\ hpc' = "popped"
        BY <3>1 DEF Taken
      <4>5. Count' = Count /\ Newest' = Newest /\ Held(1)' = Held(1)
        BY <2>2 DEF Newest, Held, Count
      <4>6. Ends(Newest)'
        BY <2>2, <4>2, <4>5 DEF Ends
      <4>7. Count' > Taken' => Meets(skipped', EndOf(temp'), Held(Taken)')
        BY <2>2, <3>3, <3>4, <4>1, <4>4, <4>5 DEF Held
      <4>8. Count' = Taken' => Ends(EndOf(temp))'
        BY <2>2, <3>3, <3>4, <4>2, <4>3, <4>4, <4>5 DEF Ends
      <4> QED
        BY <3>7, <4>4, <4>6, <4>7, <4>8 DEF TempOK
    <3> QED
      BY <2>3, <3>5, <3>6, <3>8 DEF Woven
  <2> QED
    BY <2>4, <2>5
<1> QED
  BY <1>1, <1>2 DEF Seam, PopLoad

\* pop() moves head.
LEMMA SeamPopStore == ASSUME Seam, PopStore PROVE Seam'
<1> USE DEF pre, writer, state, again
<1>0. /\ HalfCleared' => HalfCleared
      /\ HalfCleared => HalfCleared'
      /\ Lost => Lost'
      /\ Lost' => Lost
  BY CallersStay DEF PopStore
<1>1. DataOK'
  <2>1. DataOK /\ idx \in Index /\ Next1(idx) \in Index /\ 0 \in Index
    BY Next1Is, CapacityType DEF Seam, DataOK, Index
  <2> QED
    BY <2>1 DEF DataOK, PopStore, HandlerPlaces
<1>2. ASSUME Woven, ~torn' PROVE Woven'
  <2>1. /\ DataOK /\ ~HalfCleared /\ hpc = "popped" /\ idx = head /\ head # tail
        /\ temp # <<>> /\ EndOf(temp) = cell[head]
    BY <1>2 DEF Seam, PopStore, Woven, CursorsOK
  <2>2. /\ UNCHANGED <<block, cell, tail, temp, file, open, armed, drained, skipped>>
        /\ head' = Next1(head) /\ hpc' = "pop"
    BY <2>1 DEF PopStore
  <2>3. head \in Index /\ tail \in Index
    BY <2>1 DEF DataOK
  <2>4. /\ Count' = Count - 1
        /\ \A i \in 0..Count-2 : Held(i)' = Held(i + 1)
    BY <2>1, <2>2, <2>3, OneLess DEF Count, Held
  <2>5. Count \in Nat /\ Count > 0
    BY <2>1, HeldType, CapacityType DEF Index
  <2>6. FlagsOK' /\ CursorsOK'
    BY <1>0, <1>2, <2>1, <2>2 DEF Woven, FlagsOK, CursorsOK
  <2>7. RingOK'
    <3>1. ASSUME NEW i \in 0..Count'-2 PROVE Meets(skipped', Held(i)', Held(i+1)')
      <4>1. i + 1 \in 0..Count-2 /\ i \in 0..Count-2
        BY <2>4, <2>5
      <4>2. Held(i)' = Held(i + 1) /\ Held(i + 1)' = Held((i + 1) + 1)
        BY <2>4, <4>1
      <4> QED
        BY <1>2, <2>1, <2>2, <4>1, <4>2 DEF Woven, RingOK
    <3> QED
      BY <3>1 DEF RingOK
  <2>8. NewestOK' /\ OneBreak(skipped, file)' /\ EndOK'
    BY <1>2, <2>1, <2>2 DEF Woven, NewestOK, OneBreak, EndOK, Due
  <2>9. TempOK'
    <3>1. Taken = 1 /\ Taken' = 0
      BY <2>1, <2>2 DEF Taken
    <3>2. Joined(skipped', temp')
      BY <1>2, <2>1, <2>2 DEF Woven, TempOK
    <3>3. Count' > 0 => /\ Newest' = Newest /\ Ends(Newest)
                        /\ Held(0)' = Held(1) /\ Meets(skipped, EndOf(temp), Held(1))
      <4> SUFFICES ASSUME Count' > 0 PROVE /\ Newest' = Newest /\ Ends(Newest)
                                          /\ Held(0)' = Held(1) /\ Meets(skipped, EndOf(temp), Held(1))
        OBVIOUS
      <4>1. Count > 1 /\ 0 \in 0..Count-2 /\ Count' - 1 \in 0..Count-2
        BY <2>4, <2>5
      <4>2. Newest' = Newest
        BY <2>2, <2>3, <2>4, <2>5, <4>1, OneLess DEF Newest, Held, Count
      <4> QED
        BY <1>2, <2>1, <2>4, <3>1, <4>1, <4>2 DEF Woven, TempOK
    <3>4. Count' = 0 => Ends(EndOf(temp))
      BY <1>2, <2>1, <2>4, <2>5, <3>1 DEF Woven, TempOK
    <3>5. /\ Count' > 0 => Ends(Newest)'
          /\ Count' = 0 => Ends(EndOf(temp))'
      BY <2>2, <3>3, <3>4 DEF Ends
    <3> QED
      BY <2>2, <3>1, <3>2, <3>3, <3>5 DEF TempOK
  <2> QED
    BY <2>6, <2>7, <2>8, <2>9 DEF Woven
<1> QED
  BY <1>1, <1>2 DEF Seam, PopStore

\* A block at the end of a file.
LEMMA BlockAtEnd == ASSUME NEW s \in Seq(Nat), NEW b \in Nat
                    PROVE  /\ s \o <<b>> \in Seq(Nat) /\ s \o <<b>> # <<>>
                           /\ Len(s \o <<b>>) = Len(s) + 1
                           /\ \A i \in 1..Len(s) : (s \o <<b>>)[i] = s[i]
                           /\ (s \o <<b>>)[Len(s) + 1] = b
                           /\ EndOf(s \o <<b>>) = b
  BY DEF EndOf

LEMMA BreakAtEnd == ASSUME NEW S, NEW s \in Seq(Nat), NEW b \in Nat, OneBreak(S, s),
                           s # <<>> => Joined(S, s) \/ Meets(S, EndOf(s), b)
                    PROVE  OneBreak(S, s \o <<b>>)
<1> DEFINE t == s \o <<b>>
<1>1. /\ Len(t) = Len(s) + 1 /\ Len(s) \in Nat
      /\ \A i \in 1..Len(s) : t[i] = s[i]
      /\ t[Len(s) + 1] = b
  BY BlockAtEnd
<1>2. s # <<>> => Len(s) > 0
  OBVIOUS
<1> SUFFICES OneBreak(S, t)
  OBVIOUS
<1> HIDE DEF t
<1>3. CASE Len(s) = 0
  BY <1>1, <1>3 DEF OneBreak
<1>4. CASE s # <<>> /\ Joined(S, s)
  <2> DEFINE k == Len(s)
  <2>1. k \in Nat /\ \A i \in 1..Len(t)-1 : i # k => Meets(S, t[i], t[i+1])
    BY <1>1, <1>4 DEF Joined
  <2> HIDE DEF k
  <2> QED
    BY <2>1 DEF OneBreak
<1>5. CASE s # <<>> /\ Meets(S, EndOf(s), b)
  <2>1. PICK k \in Nat : \A i \in 1..Len(s)-1 : i # k => Meets(S, s[i], s[i+1])
    BY DEF OneBreak
  <2>2. ASSUME NEW i \in 1..Len(t)-1, i # k PROVE Meets(S, t[i], t[i+1])
    <3>1. CASE i < Len(s)
      BY <1>1, <2>1, <2>2, <3>1
    <3>2. CASE i = Len(s)
      BY <1>1, <1>2, <1>5, <3>2 DEF EndOf
    <3> QED
      BY <1>1, <3>1, <3>2
  <2>3. \A i \in 1..Len(t)-1 : i # k => Meets(S, t[i], t[i+1])
    BY <2>2
  <2> QED
    BY <2>3 DEF OneBreak
<1> QED
  BY <1>1, <1>2, <1>3, <1>4, <1>5

\* What the ring held, at the end of a file of at most one block.
LEMMA BreakAtPrefix == ASSUME NEW S, NEW s \in Seq(Nat), NEW r \in Seq(Nat), Len(s) <= 1, Joined(S, r)
                       PROVE  /\ OneBreak(S, s \o r)
                              /\ s = <<>> => Joined(S, s \o r)
                              /\ r = <<>> => Joined(S, s \o r)
                              /\ r # <<>> => EndOf(s \o r) = EndOf(r)
<1> DEFINE t == s \o r
<1>1. /\ t \in Seq(Nat) /\ Len(t) = Len(s) + Len(r) /\ Len(s) \in Nat /\ Len(r) \in Nat
      /\ \A i \in 1..Len(s) : t[i] = s[i]
      /\ \A i \in 1..Len(r) : t[Len(s) + i] = r[i]
  OBVIOUS
<1>2. /\ s = <<>> => Len(s) = 0
      /\ r = <<>> => Len(r) = 0
      /\ r # <<>> => Len(r) > 0
  OBVIOUS
<1> HIDE DEF t
<1>3. ASSUME NEW i \in 1..Len(t)-1, i # Len(s) PROVE Meets(S, t[i], t[i+1])
  <2> DEFINE j == i - Len(s)
  <2>1. j \in 1..Len(r)-1
    <3>1. i \in Int /\ i >= 1 /\ i <= Len(s) + Len(r) - 1 /\ i # Len(s)
      BY <1>1, <1>3
    <3> QED
      BY <1>1, <3>1
  <2>2. t[i] = r[j] /\ t[i+1] = r[j+1]
    <3>1. i = Len(s) + j /\ i + 1 = Len(s) + (j + 1) /\ j \in 1..Len(r) /\ j + 1 \in 1..Len(r)
      BY <1>1, <2>1
    <3>2. t[Len(s) + j] = r[j] /\ t[Len(s) + (j + 1)] = r[j + 1]
      BY <1>1, <3>1
    <3> QED
      BY <3>1, <3>2
  <2> QED
    BY <2>1, <2>2 DEF Joined
<1>4. OneBreak(S, t)
  BY <1>1, <1>3 DEF OneBreak
<1>5. s = <<>> \/ r = <<>> => Joined(S, t)
  BY <1>1, <1>2, <1>3 DEF Joined
<1>6. r # <<>> => EndOf(t) = EndOf(r)
  BY <1>1, <1>2 DEF EndOf
<1> QED
  BY <1>4, <1>5, <1>6 DEF t

\* What the ring held is written,
LEMMA SeamWritePrefix == ASSUME Seam, WritePrefix PROVE Seam'
<1> USE DEF ring, pre, state, again, ghosts
<1>0. /\ HalfCleared' => HalfCleared
      /\ HalfCleared => HalfCleared'
      /\ Lost => Lost'
      /\ Lost' => Lost
  BY CallersStay DEF WritePrefix
<1>1. DataOK'
  <2>1. file \in Seq(Nat) /\ temp \in Seq(Nat)
    BY DEF Seam, DataOK
  <2>2. file' \in Seq(Nat)
    BY <2>1 DEF WritePrefix, Written
  <2> QED
    BY <2>2 DEF Seam, DataOK, WritePrefix, HandlerPlaces
<1>2. ASSUME Woven, ~torn' PROVE Woven'
  <2>1. /\ DataOK /\ hpc = "prefix" /\ hpc' = "spill" /\ Joined(skipped, temp)
        /\ UNCHANGED <<block, cell, head, tail, temp, open, armed, drained, idx, skipped>>
    BY <1>2 DEF Seam, WritePrefix, Woven, TempOK
  <2>2. file \in Seq(Nat) /\ temp \in Seq(Nat)
    BY <2>1 DEF DataOK
  <2>3. /\ open => Len(file) <= 1 /\ file' = file \o temp
        /\ ~open => file' = file
    BY <1>2, <2>1 DEF Woven, FlagsOK, WritePrefix, Written
  <2>4. FlagsOK' /\ CursorsOK'
    BY <1>0, <1>2, <2>1 DEF Woven, FlagsOK, CursorsOK
  <2>5. RingOK' /\ NewestOK' /\ TempOK'
    BY <1>0, <1>2, <2>1 DEF Woven, RingOK, NewestOK, TempOK, Held, Count
  <2>6. OneBreak(skipped, file)'
    BY <1>2, <2>1, <2>2, <2>3, BreakAtPrefix DEF Woven
  <2>7. EndOK'
    <3> SUFFICES ASSUME open PROVE Joined(skipped, file') \/ Meets(skipped, EndOf(file'), block)
      BY <2>1 DEF EndOK
    <3>1. temp # <<>> => Meets(skipped, EndOf(temp), block) \/ file = <<>>
      BY <1>2, <2>1 DEF Woven, TempOK, Ends
    <3>2. Len(file) <= 1 /\ file' = file \o temp /\ Joined(skipped, temp)
      BY <2>1, <2>3
    <3>3. /\ file = <<>> => Joined(skipped, file \o temp)
          /\ temp = <<>> => Joined(skipped, file \o temp)
          /\ temp # <<>> => EndOf(file \o temp) = EndOf(temp)
      BY <2>2, <3>2, BreakAtPrefix
    <3> QED
      BY <3>1, <3>2, <3>3
  <2> QED
    BY <2>4, <2>5, <2>6, <2>7 DEF Woven
<1> QED
  BY <1>1, <1>2 DEF Seam, WritePrefix

\* ... then the block in hand,
LEMMA SeamWriteSpill == ASSUME Seam, WriteSpill PROVE Seam'
<1> USE DEF ring, pre, state, again, ghosts
<1>0. /\ HalfCleared' => HalfCleared
      /\ HalfCleared => HalfCleared'
      /\ Lost => Lost'
      /\ Lost' => Lost
  BY CallersStay DEF WriteSpill
<1>1. DataOK'
  <2>1. file \in Seq(Nat) /\ block \in Nat
    BY DEF Seam, DataOK
  <2>2. file' \in Seq(Nat)
    BY <2>1, BlockAtEnd DEF WriteSpill, Written
  <2> QED
    BY <2>2 DEF Seam, DataOK, WriteSpill, HandlerPlaces
<1>2. ASSUME Woven, ~torn' PROVE Woven'
  <2>1. /\ DataOK /\ hpc = "spill" /\ hpc' = "disarm"
        /\ UNCHANGED <<block, cell, head, tail, temp, open, armed, drained, idx, skipped>>
    BY <1>2 DEF Seam, WriteSpill
  <2>2. file \in Seq(Nat) /\ block \in Nat
    BY <2>1 DEF DataOK
  <2>3. /\ open => file' = file \o <<block>>
        /\ ~open => file' = file
    BY DEF WriteSpill, Written
  <2>4. FlagsOK' /\ CursorsOK'
    BY <1>0, <1>2, <2>1 DEF Woven, FlagsOK, CursorsOK
  <2>5. RingOK' /\ NewestOK' /\ TempOK'
    BY <1>0, <1>2, <2>1 DEF Woven, RingOK, NewestOK, TempOK, Held, Count
  <2>6. OneBreak(skipped, file)'
    <3>1. open /\ file # <<>> => Joined(skipped, file) \/ Meets(skipped, EndOf(file), block)
      BY <1>2, <2>1 DEF Woven, EndOK
    <3> QED
      BY <1>2, <2>1, <2>2, <2>3, <3>1, BreakAtEnd DEF Woven
  <2>7. EndOK'
    <3>1. open => EndOf(file') = block
      BY <2>2, <2>3, BlockAtEnd
    <3>2. Meets(skipped, block, block + 1)
      BY <2>2, MeetsNext
    <3> QED
      BY <2>1, <3>1, <3>2 DEF EndOK, Due
  <2> QED
    BY <2>4, <2>5, <2>6, <2>7 DEF Woven
<1> QED
  BY <1>1, <1>2 DEF Seam, WriteSpill

\* A later block is written.
LEMMA SeamWriteBlock == ASSUME Seam, WriteBlock PROVE Seam'
<1> USE DEF ring, pre, state, again, ghosts
<1>0. /\ HalfCleared' => HalfCleared
      /\ HalfCleared => HalfCleared'
      /\ Lost => Lost'
      /\ Lost' => Lost
  BY CallersStay DEF WriteBlock
<1>1. DataOK'
  <2>1. file \in Seq(Nat) /\ block \in Nat
    BY DEF Seam, DataOK
  <2>2. file' \in Seq(Nat)
    BY <2>1, BlockAtEnd DEF WriteBlock, Written
  <2> QED
    BY <2>2 DEF Seam, DataOK, WriteBlock, HandlerPlaces
<1>2. ASSUME Woven, ~torn' PROVE Woven'
  <2>1. /\ DataOK /\ hpc = "write" /\ hpc' = "max"
        /\ UNCHANGED <<block, cell, head, tail, temp, open, armed, drained, idx, skipped>>
    BY <1>2 DEF Seam, WriteBlock
  <2>2. file \in Seq(Nat) /\ block \in Nat
    BY <2>1 DEF DataOK
  <2>3. /\ open => file' = file \o <<block>>
        /\ ~open => file' = file
    BY DEF WriteBlock, Written
  <2>4. open /\ armed => Len(file') <= 1
    <3>1. open /\ armed => file = <<>>
      BY <1>2, <2>1 DEF Woven, FlagsOK
    <3>2. file = <<>> => Len(file) = 0
      OBVIOUS
    <3>3. open => Len(file') = Len(file) + 1
      BY <2>2, <2>3, BlockAtEnd
    <3> QED
      BY <3>1, <3>2, <3>3
  <2>5. FlagsOK' /\ CursorsOK'
    BY <1>0, <1>2, <2>1, <2>4 DEF Woven, FlagsOK, CursorsOK
  <2>6. RingOK' /\ NewestOK' /\ TempOK'
    BY <1>0, <1>2, <2>1 DEF Woven, RingOK, NewestOK, TempOK, Newest, Held, Count
  <2>7. OneBreak(skipped, file)'
    <3>1. open /\ file # <<>> => Meets(skipped, EndOf(file), block)
      BY <1>2, <2>1 DEF Woven, EndOK, Due
    <3> QED
      BY <1>2, <2>1, <2>2, <2>3, <3>1, BreakAtEnd DEF Woven
  <2>8. EndOK'
    <3>1. open => EndOf(file') = block
      BY <2>2, <2>3, BlockAtEnd
    <3>2. Meets(skipped, block, block + 1)
      BY <2>2, MeetsNext
    <3> QED
      BY <2>1, <3>1, <3>2 DEF EndOK, Due
  <2> QED
    BY <2>5, <2>6, <2>7, <2>8 DEF Woven
<1> QED
  BY <1>1, <1>2 DEF Seam, WriteBlock

\* ... or neither of the two,
LEMMA SeamHoldBack == ASSUME Seam, HoldBack PROVE Seam'
<1> USE DEF ring, pre, writer, state, again
<1>0. /\ HalfCleared' => HalfCleared
      /\ HalfCleared => HalfCleared'
      /\ Lost => Lost'
      /\ Lost' => Lost
  BY CallersStay DEF HoldBack
<1>1. DataOK'
  BY DEF Seam, DataOK, HoldBack, HandlerPlaces
<1>2. ASSUME Woven, ~torn' PROVE Woven'
  <2>1. /\ DataOK /\ hpc = "prefix" /\ hpc' = "disarm"
        /\ UNCHANGED <<block, cell, head, tail, temp, file, open, armed, drained, idx>>
    BY <1>2 DEF Seam, HoldBack
  <2>2. skipped \subseteq skipped' /\ skipped \cup {block} \subseteq skipped'
    BY DEF HoldBack
  <2>3. \A a, b : Meets(skipped, a, b) => Meets(skipped', a, b)
    BY <2>2, MeetsGrow
  <2>4. FlagsOK' /\ CursorsOK'
    BY <1>0, <1>2, <2>1 DEF Woven, FlagsOK, CursorsOK
  <2>5. ~HalfCleared => Count = 0
    BY <1>2, <2>1, HeldType DEF Woven, CursorsOK
  <2>6. RingOK' /\ NewestOK' /\ TempOK'
    BY <1>0, <1>2, <2>1, <2>3, <2>5 DEF Woven, RingOK, NewestOK, TempOK, Held, Count
  <2>7. OneBreak(skipped, file)'
    BY <1>2, <2>1, <2>3 DEF Woven, OneBreak
  <2>8. EndOK'
    <3> SUFFICES ASSUME open, file # <<>> PROVE Meets(skipped', EndOf(file), block + 1)
      BY <2>1 DEF EndOK, Due
    <3>1. Meets(skipped, EndOf(file), block)
      BY <1>2, <2>1 DEF Woven, EndOK, Due
    <3>2. EndOf(file) \in Nat /\ block \in Nat
      BY <2>1, EndType DEF DataOK
    <3>3. Meets(skipped \cup {block}, EndOf(file), block + 1)
      BY <3>1, <3>2, MeetsSkip
    <3> QED
      BY <2>2, <3>3, MeetsGrow
  <2> QED
    BY <2>4, <2>6, <2>7, <2>8 DEF Woven
<1> QED
  BY <1>1, <1>2 DEF Seam, HoldBack

\* ... and the ring is off until the recorder stops.
LEMMA SeamDisarm == ASSUME Seam, Disarm PROVE Seam'
<1> USE DEF ring, writer, state, again, ghosts
<1>0. /\ HalfCleared' => HalfCleared
      /\ HalfCleared => HalfCleared'
      /\ Lost => Lost'
      /\ Lost' => Lost
  BY CallersStay DEF Disarm
<1>1. DataOK'
  <2>1. temp' \in Seq(Nat)
    BY DEF Disarm
  <2> QED
    BY <2>1 DEF Seam, DataOK, Disarm, HandlerPlaces
<1>2. ASSUME Woven, ~torn' PROVE Woven'
  <2>1. /\ DataOK /\ hpc = "disarm" /\ hpc' = "idle" /\ temp' = <<>> /\ armed' = FALSE
        /\ UNCHANGED <<block, cell, head, tail, file, open, drained, idx, skipped>>
    BY <1>2 DEF Seam, Disarm
  <2>2. FlagsOK' /\ CursorsOK'
    BY <1>0, <1>2, <2>1 DEF Woven, FlagsOK, CursorsOK
  <2>3. ~HalfCleared => Count = 0
    BY <1>2, <2>1, HeldType DEF Woven, CursorsOK
  <2>4. RingOK' /\ NewestOK'
    BY <1>0, <1>2, <2>1, <2>3 DEF Woven, RingOK, NewestOK, Held, Count
  <2>5. TempOK' /\ OneBreak(skipped, file)' /\ EndOK'
    BY <1>2, <2>1 DEF Woven, TempOK, EndOK, Due
  <2> QED
    BY <2>2, <2>4, <2>5 DEF Woven
<1> QED
  BY <1>1, <1>2 DEF Seam, Disarm

\* The test for a full file changes neither ring nor file.
LEMMA SeamCheckMax == ASSUME Seam, CheckMax PROVE Seam'
<1> USE DEF ring, pre, writer, state, ghosts
<1>0. /\ HalfCleared' => HalfCleared
      /\ HalfCleared => HalfCleared'
      /\ Lost => Lost'
      /\ Lost' => Lost
  BY CallersStay DEF CheckMax
<1>1. DataOK'
  BY DEF Seam, DataOK, CheckMax, HandlerPlaces
<1>2. ASSUME Woven, ~torn' PROVE Woven'
  <2>1. /\ hpc = "max" /\ hpc' = "idle"
        /\ UNCHANGED <<block, cell, head, tail, temp, armed, file, open, drained, idx, skipped>>
    BY <1>2 DEF Seam, CheckMax
  <2>2. FlagsOK' /\ CursorsOK'
    BY <1>0, <1>2, <2>1 DEF Woven, FlagsOK, CursorsOK
  <2>3. RingOK' /\ NewestOK'
    BY <1>0, <1>2, <2>1 DEF Woven, RingOK, NewestOK, Newest, Held, Count
  <2>4. TempOK' /\ OneBreak(skipped, file)' /\ EndOK'
    BY <1>2, <2>1 DEF Woven, TempOK, EndOK, Due
  <2> QED
    BY <2>2, <2>3, <2>4 DEF Woven
<1> QED
  BY <1>1, <1>2 DEF Seam, CheckMax

\* Places of a caller that the ring has to do with.
Middle == {"clear", "clear.tail", "restore.tail"}

\* A caller that moves between places other than those of clear().
LEMMA CallerMoves == ASSUME NEW c \in Caller, NEW from, NEW to, Goto(c, from, to),
                            from \notin Middle, to \notin Middle, cpc \in [Caller -> Places]
                     PROVE  /\ HalfCleared' => HalfCleared
                            /\ HalfCleared => HalfCleared'
                            /\ Lost => Lost'
  BY DEF Goto, HalfCleared, Lost, Middle

\* A caller that decides to call or sees the recorder, and what moves only flags.
LEMMA SeamCalls == ASSUME Seam, Ordered, UserStarts \/ UserStops \/ Info PROVE Seam'
<1>1. PICK c \in Caller, place \in Outside : Goto(c, "idle", place)
  BY DEF UserStarts, UserStops, Info, InfoStarts, InfoRestarts, Caller, Outside
<1>2. UNCHANGED data
  BY DEF UserStarts, UserStops, Info, InfoStarts, InfoRestarts, data
<1>3. cpc \in [Caller -> Places]
  BY DEF Ordered, TypeOK
<1> QED
  BY <1>1, <1>2, <1>3, CallerMoves, SeamKeeps DEF Outside, Middle

\* start(): a new file is empty.
LEMMA SeamStart == ASSUME NEW c \in Caller, Seam, Ordered, Start(c) PROVE Seam'
<1>1. cpc \in [Caller -> Places]
  BY DEF Ordered, TypeOK
<1>2. CASE StartLock(c)
  <2>1. UNCHANGED data /\ (Goto(c, "start", "idle") \/ Goto(c, "start", "open"))
    BY <1>2 DEF StartLock, data
  <2> QED
    BY <1>1, <2>1, CallerMoves, SeamKeeps DEF Middle
<1>3. CASE OpenFails(c)
  <2>1. Goto(c, "open", "idle") /\ ~open /\ open' = open /\ file' \in {file, <<>>}
    BY <1>3 DEF OpenFails, Goto, Ordered, NotYet
  <2>2. UNCHANGED <<block, hpc, idx, temp, cell, head, tail, armed, drained, skipped, torn>>
    BY <1>3 DEF OpenFails, handler, ring, pre, ghosts
  <2>3. CASE file' = file
    <3>1. UNCHANGED data
      BY <2>1, <2>2, <2>3 DEF data, handler, ring, pre, writer, ghosts
    <3> QED
      BY <1>1, <2>1, <3>1, CallerMoves, SeamKeeps DEF Middle
  <2>4. CASE file' = <<>>
    <3>1. /\ HalfCleared' => HalfCleared
          /\ HalfCleared => HalfCleared'
          /\ Lost => Lost'
      BY <1>1, <2>1, CallerMoves DEF Middle
    <3>2. DataOK'
      BY <2>2, <2>4 DEF Seam, DataOK
    <3>3. ASSUME Woven, ~torn' PROVE Woven'
      <4>1. FlagsOK' /\ CursorsOK'
        BY <2>1, <2>2, <3>1, <3>3 DEF Woven, FlagsOK, CursorsOK
      <4>2. RingOK' /\ NewestOK'
        BY <2>1, <2>2, <3>1, <3>3 DEF Woven, RingOK, NewestOK, Newest, Held, Count
      <4>3. TempOK'
        BY <2>1, <2>2, <3>3 DEF Woven, TempOK, Ends, Taken, Newest, Held, Count
      <4>4. OneBreak(skipped, file)' /\ EndOK'
        BY <2>4 DEF OneBreak, EndOK
      <4> QED
        BY <4>1, <4>2, <4>3, <4>4 DEF Woven
    <3> QED
      BY <2>2, <3>2, <3>3 DEF Seam
  <2> QED
    BY <2>1, <2>3, <2>4
<1>4. CASE Started(c)
  <2>1. UNCHANGED data /\ Goto(c, "started", "idle")
    BY <1>4 DEF Started, data
  <2> QED
    BY <1>1, <2>1, CallerMoves, SeamKeeps DEF Middle
<1>5. CASE OpenFile(c)
  <2>1. Goto(c, "open", "record") /\ open' = TRUE /\ file' = <<>>
    BY <1>5 DEF OpenFile
  <2>2. UNCHANGED <<block, hpc, idx, temp, cell, head, tail, armed, drained, skipped, torn>>
    BY <1>5 DEF OpenFile, handler, ring, pre, ghosts
  <2>3. /\ HalfCleared' => HalfCleared
        /\ HalfCleared => HalfCleared'
        /\ Lost => Lost'
    BY <1>1, <2>1, CallerMoves DEF Middle
  <2>4. DataOK'
    BY <2>1, <2>2 DEF Seam, DataOK
  <2>5. ASSUME Woven, ~torn' PROVE Woven'
    <3>1. ~open
      BY <2>1 DEF Ordered, NotYet, Goto
    <3>2. FlagsOK' /\ CursorsOK'
      BY <2>1, <2>2, <2>3, <2>5 DEF Woven, FlagsOK, CursorsOK
    <3>3. RingOK' /\ NewestOK'
      BY <2>1, <2>2, <2>3, <2>5, <3>1 DEF Woven, RingOK, NewestOK, Newest, Held, Count
    <3>4. TempOK'
      BY <2>1, <2>2, <2>5 DEF Woven, TempOK, Ends, Taken, Newest, Held, Count
    <3>5. OneBreak(skipped, file)' /\ EndOK'
      BY <2>1 DEF OneBreak, EndOK
    <3> QED
      BY <3>2, <3>3, <3>4, <3>5 DEF Woven
  <2> QED
    BY <2>2, <2>4, <2>5 DEF Seam
<1>6. CASE Record(c)
  <2>1. Goto(c, "record", "started") /\ drained' = (drained /\ ~armed)
    BY <1>6 DEF Record
  <2>2. UNCHANGED <<block, hpc, idx, temp, cell, head, tail, armed, open, file, skipped, torn>>
    BY <1>6 DEF Record, handler, ring, writer, ghosts
  <2>3. /\ HalfCleared' => HalfCleared
        /\ HalfCleared => HalfCleared'
        /\ Lost => Lost'
    BY <1>1, <2>1, CallerMoves DEF Middle
  <2>4. DataOK'
    BY <2>1, <2>2 DEF Seam, DataOK
  <2>5. ASSUME Woven, ~torn' PROVE Woven'
    <3>1. FlagsOK' /\ CursorsOK'
      BY <2>1, <2>2, <2>3, <2>5 DEF Woven, FlagsOK, CursorsOK
    <3>2. RingOK' /\ NewestOK'
      BY <2>2, <2>3, <2>5 DEF Woven, RingOK, NewestOK, Newest, Held, Count
    <3>3. TempOK'
      BY <2>2, <2>5 DEF Woven, TempOK, Ends, Taken, Newest, Held, Count
    <3>4. OneBreak(skipped, file)' /\ EndOK'
      BY <2>2, <2>5 DEF Woven, EndOK, Due
    <3> QED
      BY <3>1, <3>2, <3>3, <3>4 DEF Woven
  <2> QED
    BY <2>2, <2>4, <2>5 DEF Seam
<1> QED
  BY <1>2, <1>3, <1>4, <1>5, <1>6 DEF Start

\* clear(): the head first; the handler is not in the ring, or the ring is torn.
LEMMA SeamClearHead ==
  ASSUME NEW c \in Caller, Seam, Ordered, NEW from \in {"clear", "restore"},
         NEW half \in {"clear.tail", "restore.tail"},
         NEW then \in {"restore", "stopped"}, NEW isArmed \in BOOLEAN, isArmed => armed,
         ClearHead(c, from, half, then, isArmed)
  PROVE  Seam'
<1>1. /\ cpc \in [Caller -> Places] /\ cpc[c] = from /\ ~open
      /\ UNCHANGED <<block, hpc, idx, temp, cell, tail, drained, open, file, skipped>>
  BY DEF ClearHead, Goto, Ordered, TypeOK, Still, Closing, handler, writer
<1>2. \A d \in Caller : cpc[d] \in Stopping => d = c
  BY <1>1 DEF Ordered, OneStop, Stopping, Closing
<1>3. ~HalfCleared
  BY <1>1, <1>2 DEF HalfCleared, Stopping, Closing
<1>4. CASE armed
  <2>1. cpc' = [cpc EXCEPT ![c] = half] /\ head' = 0 /\ armed' = isArmed /\ torn' = (torn \/ InRing)
    BY <1>4 DEF ClearHead, Goto
  <2>2. HalfCleared'
    BY <1>1, <2>1 DEF HalfCleared
  <2>3. DataOK'
    BY <1>1, <2>1, CapacityType DEF Seam, DataOK, Index
  <2>4. ASSUME Woven, ~torn' PROVE Woven'
    <3>1. hpc \notin {"push", "pushed", "pop", "popped"}
      BY <2>1, <2>4 DEF InRing
    <3>2. FlagsOK' /\ CursorsOK'
      BY <1>1, <2>1, <2>2, <2>4, <3>1 DEF Woven, FlagsOK, CursorsOK
    <3>3. RingOK' /\ NewestOK'
      BY <2>2 DEF RingOK, NewestOK
    <3>4. TempOK' /\ OneBreak(skipped, file)' /\ EndOK'
      BY <1>1, <2>4, <3>1 DEF Woven, TempOK, Ends, EndOK
    <3> QED
      BY <3>2, <3>3, <3>4 DEF Woven
  <2> QED
    BY <2>1, <2>3, <2>4 DEF Seam
<1>5. CASE ~armed
  <2>1. cpc' = [cpc EXCEPT ![c] = then] /\ UNCHANGED <<head, armed, torn>>
    BY <1>5 DEF ClearHead, Goto
  <2>2. ~HalfCleared'
    BY <1>1, <1>3, <2>1 DEF HalfCleared
  <2>3. DataOK'
    BY <1>1, <2>1 DEF Seam, DataOK
  <2>4. ASSUME Woven, ~torn' PROVE Woven'
    <3>1. Count = 0
      BY <1>3, <1>5, <2>4, HeldType DEF Woven, CursorsOK, Seam
    <3>2. FlagsOK' /\ CursorsOK'
      BY <1>1, <1>3, <2>1, <2>2, <2>4 DEF Woven, FlagsOK, CursorsOK
    <3>3. RingOK' /\ NewestOK'
      BY <1>1, <2>1, <3>1 DEF RingOK, NewestOK, Count
    <3>4. TempOK' /\ OneBreak(skipped, file)' /\ EndOK'
      BY <1>1, <2>1, <2>4 DEF Woven, TempOK, Ends, Taken, Newest, Held, Count, EndOK
    <3> QED
      BY <3>2, <3>3, <3>4 DEF Woven
  <2> QED
    BY <2>1, <2>3, <2>4 DEF Seam
<1> QED
  BY <1>4, <1>5

\* ... then the tail: the ring is empty.
LEMMA SeamClearTail ==
  ASSUME NEW c \in Caller, Seam, Ordered, NEW half \in {"clear.tail", "restore.tail"},
         NEW then \in {"restore", "stopped"}, ClearTail(c, half, then)
  PROVE  Seam'
<1>1. /\ cpc \in [Caller -> Places] /\ cpc[c] = half /\ ~open
      /\ cpc' = [cpc EXCEPT ![c] = then]
      /\ tail' = 0 /\ drained' = FALSE /\ armed' = TRUE /\ torn' = (torn \/ InRing)
      /\ UNCHANGED <<block, hpc, idx, temp, cell, head, open, file, skipped>>
  BY DEF ClearTail, Goto, Ordered, TypeOK, Still, Closing, handler, writer
<1>2. HalfCleared
  BY <1>1 DEF HalfCleared
<1>3. DataOK'
  <2>1. 0 \in Index
    BY CapacityType DEF Index
  <2>2. InRing \in BOOLEAN
    BY DEF InRing
  <2>3. torn' \in BOOLEAN
    BY <1>1, <2>2 DEF Seam, DataOK
  <2> QED
    BY <1>1, <2>1, <2>3 DEF Seam, DataOK
<1>4. ASSUME Woven, ~torn' PROVE Woven'
  <2>1. hpc \notin {"push", "pushed", "pop", "popped"} /\ head' = tail'
    BY <1>1, <1>2, <1>4 DEF InRing, Woven, CursorsOK
  <2>2. ~HalfCleared'
    <3>1. \A d \in Caller : cpc[d] \in Stopping => d = c
      BY <1>1 DEF Ordered, OneStop, Stopping, Closing
    <3> QED
      BY <1>1, <3>1 DEF HalfCleared, Stopping, Closing
  <2>3. FlagsOK' /\ CursorsOK'
    BY <1>1, <1>4, <2>1, <2>2 DEF Woven, FlagsOK, CursorsOK
  <2>4. Count' = 0
    BY <1>3, <2>1, NoneLeft DEF DataOK, Count
  <2>5. RingOK' /\ NewestOK'
    BY <2>4 DEF RingOK, NewestOK
  <2>6. TempOK' /\ OneBreak(skipped, file)' /\ EndOK'
    BY <1>1, <1>4, <2>1 DEF Woven, TempOK, Ends, EndOK
  <2> QED
    BY <2>3, <2>5, <2>6 DEF Woven
<1> QED
  BY <1>1, <1>3, <1>4 DEF Seam

\* stop(): after the file is closed the ring is cleared, twice.
LEMMA SeamStop == ASSUME NEW c \in Caller, Seam, Ordered, Stop(c) PROVE Seam'
<1>1. cpc \in [Caller -> Places]
  BY DEF Ordered, TypeOK
<1>2. CASE EnterStop(c) \/ StopCheck(c) \/ Stopped(c) \/ Leave(c)
  <2>1. UNCHANGED data
    BY <1>2 DEF EnterStop, StopCheck, Stopped, Leave, data
  <2>2. PICK from \in Places \ Middle, to \in Places \ Middle : Goto(c, from, to)
    BY <1>2 DEF EnterStop, StopCheck, Stopped, Leave, Places, Middle, Outside, Opening, Stopping, Closing
  <2> QED
    BY <1>1, <2>1, <2>2, CallerMoves, SeamKeeps
<1>3. CASE CloseFile(c)
  <2>1. Goto(c, "close", "clear") /\ open' = FALSE
    BY <1>3 DEF CloseFile
  <2>2. UNCHANGED <<block, hpc, idx, temp, cell, head, tail, armed, drained, file, skipped, torn>>
    BY <1>3 DEF CloseFile, handler, ring, pre, ghosts
  <2>3. /\ HalfCleared' => HalfCleared
        /\ HalfCleared => HalfCleared'
        /\ Lost'
    BY <1>1, <2>1 DEF Goto, HalfCleared, Lost
  <2>4. DataOK'
    BY <2>1, <2>2 DEF Seam, DataOK
  <2>5. ASSUME Woven, ~torn' PROVE Woven'
    <3>1. FlagsOK' /\ CursorsOK'
      BY <2>1, <2>2, <2>3, <2>5 DEF Woven, FlagsOK, CursorsOK
    <3>2. RingOK' /\ NewestOK'
      BY <2>2, <2>3, <2>5 DEF Woven, RingOK, NewestOK, Newest, Held, Count
    <3>3. TempOK'
      BY <2>1, <2>2, <2>5 DEF Woven, TempOK, Ends, Taken, Newest, Held, Count
    <3>4. OneBreak(skipped, file)' /\ EndOK'
      BY <2>1, <2>2, <2>5 DEF Woven, EndOK
    <3> QED
      BY <3>1, <3>2, <3>3, <3>4 DEF Woven
  <2> QED
    BY <2>2, <2>4, <2>5 DEF Seam
<1>4. CASE ClearRing(c)
  <2>1. armed \in BOOLEAN
    BY DEF Seam, DataOK
  <2> QED
    BY <1>4, <2>1, SeamClearHead, SeamClearTail DEF ClearRing
<1>5. CASE RestoreRing(c)
  BY <1>5, SeamClearHead, SeamClearTail DEF RestoreRing
<1> QED
  BY <1>2, <1>3, <1>4, <1>5 DEF Stop

\* The ring and the file are empty at first.
LEMMA SeamInit == Init => Seam
<1> SUFFICES ASSUME Init PROVE Seam
  OBVIOUS
<1>1. DataOK
  <2>1. 0 \in Index
    BY CapacityType DEF Index
  <2>2. cell \in [Index -> Nat]
    <3> HIDE DEF Capacity
    <3> QED
      BY DEF Init, Index
  <2>3. temp \in Seq(Nat) /\ file \in Seq(Nat)
    BY DEF Init
  <2> QED
    BY <2>1, <2>2, <2>3 DEF Init, DataOK, HandlerPlaces
<1>2. ~HalfCleared
  BY DEF Init, HalfCleared
<1>3. Count = 0
  BY <1>1, HeldType DEF Init
<1>4. FlagsOK /\ CursorsOK
  BY <1>2 DEF Init, FlagsOK, CursorsOK
<1>5. RingOK /\ NewestOK /\ TempOK
  BY <1>3 DEF Init, RingOK, NewestOK, TempOK
<1>6. OneBreak(skipped, file) /\ EndOK
  BY DEF Init, OneBreak, EndOK
<1> QED
  BY <1>1, <1>4, <1>5, <1>6 DEF Seam, Woven

\* One break at most: the set of breaks is within a singleton.
LEMMA AtMostOne == ASSUME file \in Seq(Nat), OneBreak(skipped, file) PROVE Cardinality(Breaks) <= 1
<1>1. PICK k \in Nat : \A i \in 1..Len(file)-1 : i # k => Meets(skipped, file[i], file[i+1])
  BY DEF OneBreak
<1>2. Breaks \subseteq {k}
  BY <1>1 DEF Breaks, Follows, Meets
<1>3. IsFiniteSet({k}) /\ Cardinality({k}) = 1
  BY FS_Singleton
<1> QED
  BY <1>2, <1>3, FS_Subset

\* The start of a recording is seamless but for the block in hand, for every size of
\* the ring and of a file, as long as clear() never meets push() or pop().
THEOREM SeamlessStart == Spec => []Seamless
<1>1. Init => Seam /\ Ordered
  BY SeamInit, OrderedInit
<1>2. Seam /\ Ordered /\ [Next]_vars => Seam' /\ Ordered'
  <2> SUFFICES ASSUME Seam, Ordered, [Next]_vars PROVE Seam'
    BY OrderedNext
  <2>1. CASE Arrive
    BY <2>1, SeamArrive
  <2>2. CASE Handler
    BY <2>2, SeamToRing, SeamPushLoad, SeamPushStore, SeamToDrain, SeamPopLoad, SeamPopStore, SeamWritePrefix,
       SeamWriteSpill, SeamHoldBack, SeamDisarm, SeamWriteBlock, SeamCheckMax DEF Handler
  <2>3. CASE UserStarts \/ UserStops \/ Info
    BY <2>3, SeamCalls
  <2>4. CASE \E c \in Caller : Start(c) \/ Stop(c)
    BY <2>4, SeamStart, SeamStop
  <2>5. CASE UNCHANGED vars
    BY <2>5, SeamKeeps, CallersStay DEF vars, data, callers
  <2> QED
    BY <2>1, <2>2, <2>3, <2>4, <2>5 DEF Next
<1>3. Seam => Seamless
  BY AtMostOne DEF Seam, Woven, DataOK, Seamless
<1> QED
  BY <1>1, <1>2, <1>3, PTL DEF Spec
=============================================================================
