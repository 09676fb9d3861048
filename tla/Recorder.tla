------------------------------- MODULE Recorder -------------------------------
(***************************************************************************)
(* The recorder of one channel C1..C8 in mono audio mode, with its         *)
(* pre-record ring.  monoSink's thread hands every block of samples to     *)
(* monoHandler; the user (or a scanner, through the module interface) and  *)
(* the module's own workerInfo thread start and stop the recording.        *)
(*                                                                         *)
(* A block is one number and fills one cell of the ring.  The AKF analysis *)
(* (use_akf is false in start()), file names and the sound levels are left *)
(* out; the audio path runs all the time, as it does once a stream has     *)
(* been selected.  Two stores of one thread are one step where no other    *)
(* thread reads the first between them.                                    *)
(***************************************************************************)
EXTENDS Integers, Sequences, FiniteSets, Functions

CONSTANTS RingSize,     \* the size monoPreBuffer is made with
          MaxFile,      \* the length of a file at maxRecDuration
          MaxBlock      \* bound: blocks 1..MaxBlock arrive

ASSUME RecorderAssumption == /\ RingSize \in Nat \ {0}
                             /\ MaxFile \in Nat \ {0} /\ MaxBlock \in Nat

Caller == {"user", "info"}
Nobody == "nobody"

VARIABLES block, hpc, idx, temp,        \* monoHandler: its block, place and locals
          cell, head, tail,             \* LockFreeRingBuffer
          armed, drained,               \* isPreRecord, preBufferDrained
          open, file,                   \* the writer: isOpen(), the samples written
          recording, stopping,          \* recording, isStopping
          restart, pending,             \* _restart, restart_pending
          cpc, recMtx,                  \* the two callers of start() and stop()
          skipped, torn                 \* history: blocks left out; clear() met push() or pop()

handler == <<hpc, idx, temp>>
ring    == <<cell, head, tail>>
pre     == <<armed, drained>>
writer  == <<open, file>>
state   == <<recording, stopping>>
again   == <<restart, pending>>
callers == <<cpc, recMtx>>
ghosts  == <<skipped, torn>>
vars    == <<block, handler, ring, pre, writer, state, again, callers, ghosts>>

Capacity == RingSize + 1
Next1(i) == (i + 1) % Capacity

Init == /\ block = 0 /\ hpc = "idle" /\ idx = 0 /\ temp = <<>>
        /\ cell = [i \in 0..Capacity-1 |-> 0] /\ head = 0 /\ tail = 0
        /\ armed = TRUE /\ drained = FALSE
        /\ open = FALSE /\ file = <<>>
        /\ recording = FALSE /\ stopping = FALSE
        /\ restart = FALSE /\ pending = FALSE
        /\ cpc = [c \in Caller |-> "idle"] /\ recMtx = Nobody
        /\ skipped = {} /\ torn = FALSE

InRing      == hpc \in {"push", "pushed", "pop", "popped"}
HalfCleared == \E c \in Caller : cpc[c] \in {"clear.tail", "restore.tail"}

-----------------------------------------------------------------------------
(* monoHandler                                                             *)

\* A block arrives; it is dropped while the recorder stops or waits for a restart.
Arrive == /\ hpc = "idle" /\ block < MaxBlock
          /\ block' = block + 1
          /\ IF stopping \/ restart
             THEN skipped' = skipped \union {block + 1} /\ UNCHANGED hpc
             ELSE hpc' = "keep?" /\ UNCHANGED skipped
          /\ UNCHANGED <<idx, temp, ring, pre, writer, state, again, callers, torn>>

\* The writer is asked three times whether it is open: here, ...
ToRing == /\ hpc = "keep?"
          /\ hpc' = IF armed /\ ~open THEN "push" ELSE "drain?"
          /\ UNCHANGED <<block, idx, temp, ring, pre, writer, state, again, callers, ghosts>>

\* push() loads both indices, then stores the sample and the new tail.
PushLoad == /\ hpc = "push"
            /\ IF Next1(tail) = head
               THEN hpc' = "drain?" /\ skipped' = skipped \union {block} /\ UNCHANGED idx
               ELSE hpc' = "pushed" /\ idx' = tail /\ UNCHANGED skipped
            /\ torn' = (torn \/ HalfCleared)
            /\ UNCHANGED <<block, temp, ring, pre, writer, state, again, callers>>

PushStore == /\ hpc = "pushed"
             /\ cell' = [cell EXCEPT ![idx] = block]
             /\ tail' = Next1(idx)
             /\ hpc' = "drain?" /\ idx' = 0
             /\ torn' = (torn \/ HalfCleared)
             /\ UNCHANGED <<block, temp, head, pre, writer, state, again, callers, skipped>>

\* ... here, before the ring is emptied once, ...
ToDrain == /\ hpc = "drain?"
           /\ IF armed /\ ~drained /\ open
              THEN hpc' = "pop" /\ drained' = TRUE
              ELSE hpc' = "write" /\ UNCHANGED drained
           /\ UNCHANGED <<block, idx, temp, ring, armed, writer, state, again, callers, ghosts>>

PopLoad == /\ hpc = "pop"
           /\ IF head = tail
              THEN hpc' = "prefix" /\ UNCHANGED <<idx, temp>>
              ELSE hpc' = "popped" /\ idx' = head /\ temp' = Append(temp, cell[head])
           /\ torn' = (torn \/ HalfCleared)
           /\ UNCHANGED <<block, ring, pre, writer, state, again, callers, skipped>>

PopStore == /\ hpc = "popped"
            /\ head' = Next1(idx)
            /\ hpc' = "pop" /\ idx' = 0
            /\ torn' = (torn \/ HalfCleared)
            /\ UNCHANGED <<block, temp, cell, tail, pre, writer, state, again, callers, skipped>>

\* Writer::write() does nothing once the file is closed.
Written(samples) == file' = IF open THEN file \o samples ELSE file

\* Mutant: the block is written before what the ring held.
BlockFirst == /\ hpc = "prefix"
              /\ Written(<<block>> \o temp)
              /\ hpc' = "disarm"
              /\ UNCHANGED <<block, idx, temp, ring, pre, open, state, again, callers, ghosts>>

WritePrefix == /\ hpc = "prefix"
               /\ Written(temp)
               /\ hpc' = "spill"
               /\ UNCHANGED <<block, idx, temp, ring, pre, open, state, again, callers, ghosts>>

WriteSpill == /\ hpc = "spill"
              /\ Written(<<block>>)
              /\ hpc' = "disarm"
              /\ UNCHANGED <<block, idx, temp, ring, pre, open, state, again, callers, ghosts>>

\* For telephony (SignalInitCtrl is 1) neither what the ring held nor the block in hand
\* is written: the choice is made when the ring has been emptied.
HoldBack == /\ hpc = "prefix"
            /\ skipped' = skipped \union Range(temp) \union {block}
            /\ hpc' = "disarm"
            /\ UNCHANGED <<block, idx, temp, ring, pre, writer, state, again, callers, torn>>

Disarm == /\ hpc = "disarm"
          /\ armed' = FALSE
          /\ hpc' = "idle" /\ temp' = <<>>
          /\ UNCHANGED <<block, idx, ring, drained, writer, state, again, callers, ghosts>>

\* ... and here.
WriteBlock == /\ hpc = "write"
              /\ Written(<<block>>)
              /\ hpc' = "max"
              /\ UNCHANGED <<block, idx, temp, ring, pre, open, state, again, callers, ghosts>>

\* The count of samples survives close(): a closed file is as long as it was.
CheckMax == /\ hpc = "max"
            /\ restart' = (restart \/ Len(file) >= MaxFile)
            /\ hpc' = "idle"
            /\ UNCHANGED <<block, idx, temp, ring, pre, writer, state, pending, callers, ghosts>>

Handler == \/ ToRing \/ PushLoad \/ PushStore \/ ToDrain \/ PopLoad \/ PopStore
           \/ WritePrefix \/ WriteSpill \/ HoldBack \/ Disarm \/ WriteBlock \/ CheckMax

-----------------------------------------------------------------------------
(* start(), with recMtx held                                               *)

Goto(c, from, to) == cpc[c] = from /\ cpc' = [cpc EXCEPT ![c] = to]
Unlock == recMtx' = Nobody

StartLock(c) == /\ recMtx = Nobody
                /\ IF recording THEN Goto(c, "start", "idle") /\ UNCHANGED recMtx
                                ELSE Goto(c, "start", "open") /\ recMtx' = c
                /\ UNCHANGED <<block, handler, ring, pre, writer, state, again, ghosts>>

OpenFile(c) == /\ Goto(c, "open", "record")
               /\ open' = TRUE /\ file' = <<>>
               /\ UNCHANGED <<block, handler, ring, pre, state, again, recMtx, ghosts>>

\* Writer::open() sets its count to zero before it fails.
OpenFails(c) == /\ Goto(c, "open", "idle") /\ Unlock
                /\ file' \in {file, <<>>}
                /\ UNCHANGED <<block, handler, ring, pre, open, state, again, ghosts>>

Record(c) == /\ Goto(c, "record", "started")
             /\ drained' = (drained /\ ~armed)
             /\ recording' = TRUE
             /\ UNCHANGED <<block, handler, ring, armed, writer, stopping, again, recMtx, ghosts>>

Started(c) == /\ Goto(c, "started", "idle") /\ Unlock
              /\ restart' = FALSE
              /\ UNCHANGED <<block, handler, ring, pre, writer, state, pending, ghosts>>

Start(c) == StartLock(c) \/ OpenFile(c) \/ OpenFails(c) \/ Record(c) \/ Started(c)

-----------------------------------------------------------------------------
(* stop(), without recMtx                                                  *)

\* Mutant: stop() does not look whether another stop() is running.
EnterStopTwice(c) == /\ Goto(c, "stop", "check")
                     /\ stopping' = TRUE
                     /\ UNCHANGED <<block, handler, ring, pre, writer, recording, again, recMtx, ghosts>>

EnterStop(c) == /\ IF stopping THEN Goto(c, "stop", "idle") ELSE Goto(c, "stop", "check")
                /\ stopping' = TRUE
                /\ UNCHANGED <<block, handler, ring, pre, writer, recording, again, recMtx, ghosts>>

StopCheck(c) == /\ IF recording THEN Goto(c, "check", "close") /\ pending' = FALSE /\ UNCHANGED stopping
                                ELSE Goto(c, "check", "idle") /\ stopping' = FALSE /\ UNCHANGED pending
                /\ UNCHANGED <<block, handler, ring, pre, writer, recording, restart, recMtx, ghosts>>

CloseFile(c) == /\ Goto(c, "close", "clear")
                /\ open' = FALSE
                /\ UNCHANGED <<block, handler, ring, pre, file, state, again, recMtx, ghosts>>

\* clear() stores the head, ...
ClearHead(c, from, half, then, isArmed) ==
    /\ IF armed THEN /\ Goto(c, from, half)
                     /\ head' = 0 /\ armed' = isArmed /\ torn' = (torn \/ InRing)
                ELSE Goto(c, from, then) /\ UNCHANGED <<head, armed, torn>>
    /\ UNCHANGED <<block, handler, cell, tail, drained, writer, state, again, recMtx, skipped>>

\* ... then the tail; stop() goes on to arm the pre-record again.
ClearTail(c, half, then) ==
    /\ Goto(c, half, then)
    /\ tail' = 0 /\ drained' = FALSE /\ armed' = TRUE /\ torn' = (torn \/ InRing)
    /\ UNCHANGED <<block, handler, cell, head, writer, state, again, recMtx, skipped>>

\* Once after close(), ...
ClearRing(c) == ClearHead(c, "clear", "clear.tail", "restore", armed) \/ ClearTail(c, "clear.tail", "restore")

\* ... and once again, disarmed in the meantime (restorePreRecord).
RestoreRing(c) == ClearHead(c, "restore", "restore.tail", "stopped", FALSE) \/ ClearTail(c, "restore.tail", "stopped")

Stopped(c) == /\ Goto(c, "stopped", "leave")
              /\ recording' = FALSE
              /\ UNCHANGED <<block, handler, ring, pre, writer, stopping, again, recMtx, ghosts>>

\* Mutant: isStopping is not cleared at the end.
NeverLeaves(c) == /\ Goto(c, "leave", "idle")
                  /\ UNCHANGED <<block, handler, ring, pre, writer, state, again, recMtx, ghosts>>

Leave(c) == /\ Goto(c, "leave", "idle")
            /\ stopping' = FALSE
            /\ UNCHANGED <<block, handler, ring, pre, writer, recording, again, recMtx, ghosts>>

Stop(c) == \/ EnterStop(c) \/ StopCheck(c) \/ CloseFile(c)
           \/ ClearRing(c) \/ RestoreRing(c) \/ Stopped(c) \/ Leave(c)

-----------------------------------------------------------------------------
(* The callers: CMD_START and CMD_STOP, and the loop of workerInfo.        *)

UserStarts == /\ Goto("user", "idle", "start")
              /\ UNCHANGED <<block, handler, ring, pre, writer, state, again, recMtx, ghosts>>

UserStops == /\ Goto("user", "idle", "stop")
             /\ UNCHANGED <<block, handler, ring, pre, writer, state, again, recMtx, ghosts>>

InfoStarts == /\ pending /\ Goto("info", "idle", "start")
              /\ pending' = FALSE
              /\ UNCHANGED <<block, handler, ring, pre, writer, state, restart, recMtx, ghosts>>

\* restart(): stop() clears the flag again if it finds the recorder recording.
InfoRestarts == /\ restart /\ ~pending /\ Goto("info", "idle", "stop")
                /\ restart' = FALSE /\ pending' = TRUE
                /\ UNCHANGED <<block, handler, ring, pre, writer, state, recMtx, ghosts>>

Info == InfoStarts \/ InfoRestarts

Next == \/ Arrive \/ Handler
        \/ UserStarts \/ UserStops \/ Info
        \/ \E c \in Caller : Start(c) \/ Stop(c)

Fairness == /\ WF_vars(Handler) /\ WF_vars(Arrive) /\ WF_vars(Info)
            /\ \A c \in Caller : WF_vars(Start(c)) /\ WF_vars(Stop(c))
            /\ \A c \in Caller : SF_vars(StartLock(c))

Spec == Init /\ [][Next]_vars /\ Fairness

-----------------------------------------------------------------------------
(* Properties                                                              *)

Outside == {"idle", "start", "stop"}

\* While neither start() nor stop() is running, the file is open exactly while
\* the recorder says it records; and start() never meets an open writer, whose
\* setters would throw.
OpenWhileRecording ==
    /\ (\A c \in Caller : cpc[c] \in Outside) => (recording <=> open)
    /\ \A c \in Caller : cpc[c] = "open" => ~open

Follows(i) == /\ file[i] < file[i+1]
              /\ (file[i]+1)..(file[i+1]-1) \subseteq skipped
Breaks == {i \in 1..Len(file)-1 : ~Follows(i)}

\* The start is seamless but for the block in hand: a file holds consecutive
\* blocks, apart from those the full ring refused, a stop withheld or telephony held
\* back, with at most one break, where it was opened between two of monoHandler's three looks at it.
Seamless == ~torn => Cardinality(Breaks) <= 1

\* monoHandler does not drop the blocks for good: again and again no stop() is
\* under way and no restart is waited for.
WithheldEnds == []<>~(stopping \/ restart)
=============================================================================
