-------------------------- MODULE NetworkSinkProofs --------------------------
(***************************************************************************)
(* What a stopped server leaves behind and which connections are used, for *)
(* any set of clients.  The connection of a channel is the last one its    *)
(* accept worker has adopted, and no other worker touches it; it is open   *)
(* only where the worker watches it.                                       *)
(***************************************************************************)
EXTENDS NetworkSink, TLAPS

Conns     == Client \cup {NoConn}
AccPlaces == {"ended", "accept", "swap", "drop", "look", "doze", "lost", "asleep", "deaf",
              "close", "again"}

TypeOK == /\ listener \in [Channel -> {"up", "closing", "down", "failed"}]
          /\ acc \in [Channel -> AccPlaces]
          /\ conn \in [Channel -> Conns]
          /\ chan \in [Client -> Channel]
          /\ peer \in [Client -> {"away", "waiting", "here", "left"}]
          /\ life \in [Client -> {"open", "shut", "ended", "gone"}]
          /\ talk \in [Channel -> {"off", "idle", "ask", "toWrite", "write", "send",
                                   "toRead", "read", "recv"}]
          /\ using \in [Channel -> Conns] /\ fall \in {"none", "notify", "unlock"}
          /\ at \in Channel /\ held \in Conns

\* A worker that has ended has ended because its listener does not listen, and a
\* listener is being closed only while the user interface waits for that.
WorkerEnds == \A ch \in Channel : /\ listener[ch] \in {"down", "failed"} => acc[ch] = "ended"
                                  /\ listener[ch] = "closing" => ui = "ljoin" /\ at = ch

\* The connection of a channel is one of its own and exists.
OwnConn == \A ch \in Channel : conn[ch] # NoConn =>
               chan[conn[ch]] = ch /\ life[conn[ch]] \in {"open", "shut", "ended"}

\* Where the worker does not watch the connection, it is not open.
Watched == \A ch \in Channel : acc[ch] \in {"ended", "accept", "swap", "close", "again"}
                                   => ~IsOpen(conn[ch])

\* A client that has not been accepted has no connection, and nobody uses one of the
\* name of a client that waits.
WaitingIsNew == \A c \in Client : /\ peer[c] \in {"away", "waiting"} => life[c] = "gone"
                                  /\ peer[c] = "waiting" => c # held /\ \A ch \in Channel : using[ch] # c

\* The audio handler keeps to the connection it has found, under connMtx.
AudioKeeps == /\ talk["audio"] \in {"off", "idle", "send"}
              /\ talk["audio"] = "send" => using["audio"] = conn["audio"] /\ conn["audio"] # NoConn

\* Before the first stopServer() only infoSinkWorker ends a connection of info: what
\* it has loaded and is open is the current one, and that stays so while it goes on to write
\* and until a call on it fails.
NeverStopped == late = "never" =>
    /\ ~InStop
    /\ IsOpen(using["info"]) => using["info"] = conn["info"]
    /\ talk["info"] = "toWrite" => IsOpen(conn["info"])
    /\ talk["info"] \in {"write", "send", "recv"} /\ fall = "none" => IsOpen(using["info"])

\* infoSinkWorker has a connection in hand in its calls, falls out of one when the
\* connection has ended, and runs only while the handler does.
InfoCalls == /\ talk["info"] \in {"ask", "write", "send", "read", "recv"} => using["info"] # NoConn
             /\ fall # "none" => talk["info"] \in {"send", "recv"} /\ ~IsOpen(using["info"])
             /\ talk["audio"] = "off" \/ ui = "paudio" => talk["info"] = "off"

Sound == /\ TypeOK /\ WorkerEnds /\ OwnConn /\ Watched /\ WaitingIsNew /\ AudioKeeps
         /\ NeverStopped /\ InfoCalls

\* Nothing runs and nobody is connected.
LEMMA SoundInit == Init => Sound
  BY NoConnIsNoClient DEF Init, Sound, TypeOK, WorkerEnds, OwnConn, Watched, WaitingIsNew, AudioKeeps, NeverStopped,
     InfoCalls, Channel, Conns, AccPlaces, IsOpen, InStop

\* Steps of an accept worker.  The connection it replaces is closed, and the one it
\* adopts new.
LEMMA SoundAcceptor == ASSUME NEW ch \in Channel, Sound, Acceptor(ch) \/ AcceptFails(ch)
                       PROVE  Sound'
<1> USE NoConnIsNoClient DEF Sound, TypeOK, WorkerEnds, OwnConn, Watched, WaitingIsNew, AudioKeeps, NeverStopped,
        InfoCalls, Channel, Conns, AccPlaces, IsOpen, InStop, Go, out, user
<1>1. CASE Accept(ch)
  BY <1>1 DEF Accept
<1>2. CASE AcceptFails(ch)
  BY <1>2 DEF AcceptFails, peers
<1>3. CASE AcceptClosed(ch)
  BY <1>3 DEF AcceptClosed, peers
<1>4. CASE Swap(ch)
  BY <1>4 DEF Swap, ConnFree, Other, Alive, peers
<1>5. CASE Drop(ch)
  BY <1>5 DEF Drop, Other, Alive, Forget
<1>6. CASE Look(ch)
  BY <1>6 DEF Look, peers
<1>7. CASE Sleep(ch)
  BY <1>7 DEF Sleep, peers
<1>8. CASE CloseEnded(ch)
  BY <1>8 DEF CloseEnded, peers
<1>9. CASE Again(ch)
  BY <1>9 DEF Again, peers
<1> QED
  BY <1>1, <1>2, <1>3, <1>4, <1>5, <1>6, <1>7, <1>8, <1>9 DEF Acceptor

\* A notification moves no worker from or to a place where it does not watch.
LEMMA NotifiedWatches ==
    \A p \in AccPlaces : /\ Notified(p) \in AccPlaces
                         /\ Notified(p) # p => p \in {"doze", "asleep", "deaf"} /\ Notified(p) \in {"lost", "look"}
  BY DEF AccPlaces, Notified

LEMMA NotifyTypes == ASSUME NEW c, TypeOK, Notify(c)
                     PROVE  acc' \in [Channel -> AccPlaces]
<1>1. \A ch \in Channel : acc[ch] \in AccPlaces /\ Notified(acc[ch]) \in AccPlaces
  BY NotifiedWatches DEF TypeOK
<1> QED
  BY <1>1 DEF Notify

LEMMA ClearTypes == ASSUME NEW c, TypeOK, Clear(c)
                    PROVE  life' \in [Client -> {"open", "shut", "ended", "gone"}]
  BY DEF Clear, TypeOK

\* Steps of the threads that write and read.  A connection that ends is that of their
\* own channel, unless the server has been stopped before.
LEMMA SoundTalker == ASSUME NEW ch \in Channel, Sound, Talker(ch) \/ Served(ch)
                     PROVE  Sound'
<1> USE NoConnIsNoClient DEF Sound, TypeOK, WorkerEnds, OwnConn, Watched, WaitingIsNew, AudioKeeps, NeverStopped,
        InfoCalls, Channel, Conns, AccPlaces, IsOpen, InStop, Say, net, peers, user, Done, Load, Leaves
<1>1. CASE Play
  BY <1>1 DEF Play
<1>2. CASE PlayFails
  <2> USE <1>2 DEF PlayFails, End, Clear, Notify
  <2>1. TypeOK'
    <3>1. life' \in [Client -> {"open", "shut", "ended", "gone"}]
      OBVIOUS
    <3>2. acc' \in [Channel -> AccPlaces]
      BY NotifiedWatches
    <3>3. talk' = [talk EXCEPT !["audio"] = "idle"] /\ using' = [using EXCEPT !["audio"] = NoConn]
      OBVIOUS
    <3> QED
      BY <3>1, <3>2, <3>3
  <2>2. WorkerEnds'
    BY NotifiedWatches
  <2>3. OwnConn' /\ WaitingIsNew'
    OBVIOUS
  <2>4. Watched'
    BY NotifiedWatches
  <2>5. AudioKeeps' /\ InfoCalls'
    OBVIOUS
  <2>6. using["audio"] = conn["audio"] /\ (conn["info"] # NoConn => conn["info"] # using["audio"])
    OBVIOUS
  <2>7. \A c \in Client : c # using["audio"] => life'[c] = life[c]
    OBVIOUS
  <2>8. NeverStopped'
    <3>1. talk'["info"] = talk["info"] /\ using'["info"] = using["info"]
      OBVIOUS
    <3>2. IsOpen(conn["info"])' <=> IsOpen(conn["info"])
      BY <2>6, <2>7
    <3>3. IsOpen(using["info"])' => IsOpen(using["info"])
      OBVIOUS
    <3>4. late = "never" /\ IsOpen(using["info"])
              => using["info"] = conn["info"] /\ IsOpen(using["info"])'
      BY <2>6, <2>7
    <3>5. UNCHANGED <<conn, late, fall, ui>>
      OBVIOUS
    <3> QED
      BY <3>1, <3>2, <3>3, <3>4, <3>5
  <2> QED
    BY <2>1, <2>2, <2>3, <2>4, <2>5, <2>8
<1>3. CASE LoadInfo
  BY <1>3 DEF LoadInfo
<1>4. CASE OpenInfo
  BY <1>4 DEF OpenInfo
<1>5. CASE ClosedInfo
  BY <1>5 DEF ClosedInfo
<1>6. CASE InfoFails
  <2> USE <1>6 DEF InfoFails, Clear
  <2>1. TypeOK'
    BY ClearTypes
  <2>2. WorkerEnds' /\ OwnConn' /\ WaitingIsNew'
    OBVIOUS
  <2>3. Watched' /\ AudioKeeps' /\ InfoCalls'
    OBVIOUS
  <2>4. NeverStopped'
    OBVIOUS
  <2> QED
    BY <2>1, <2>2, <2>3, <2>4
<1>7. CASE InfoNotifies
  <2> USE <1>7 DEF InfoNotifies, Notify
  <2>1. TypeOK'
    BY NotifyTypes
  <2>2. WorkerEnds' /\ Watched'
    BY NotifiedWatches
  <2>3. OwnConn' /\ WaitingIsNew' /\ AudioKeeps' /\ InfoCalls' /\ NeverStopped'
    OBVIOUS
  <2> QED
    BY <2>1, <2>2, <2>3
<1>8. CASE InfoReturns
  BY <1>8 DEF InfoReturns
<1>9. CASE Served(ch)
  <2> USE <1>9 DEF Served, Fails
  <2>1. TypeOK' /\ WorkerEnds' /\ Watched'
    OBVIOUS
  <2>2. OwnConn' /\ WaitingIsNew' /\ AudioKeeps'
    OBVIOUS
  <2>3. InfoCalls'
    OBVIOUS
  <2>4. NeverStopped'
    OBVIOUS
  <2> QED
    BY <2>1, <2>2, <2>3, <2>4
<1> QED
  BY <1>1, <1>2, <1>3, <1>4, <1>5, <1>6, <1>7, <1>8, <1>9 DEF Talker

\* Steps of the user interface: a listener is closed when its worker has ended.
LEMMA SoundUser == ASSUME Sound, User \/ PressStart \/ PressStop \/ PressPlay \/ PressPause
                   PROVE  Sound'
<1> USE NoConnIsNoClient DEF Sound, TypeOK, WorkerEnds, OwnConn, Watched, WaitingIsNew, AudioKeeps, NeverStopped,
        InfoCalls, Channel, Conns, AccPlaces, IsOpen, InStop, Say, UiGo, NextChannel, net, peers, out
<1>1. CASE PressStart
  BY <1>1 DEF PressStart
<1>2. CASE Listen
  BY <1>2 DEF Listen
<1>3. CASE PressStop
  BY <1>3 DEF PressStop
<1>4. CASE Take
  BY <1>4 DEF Take, Onward
<1>5. CASE Lock
  BY <1>5 DEF Lock
<1>6. CASE Shut
  <2> USE <1>6 DEF Shut
  <2>1. late # "never"
    OBVIOUS
  <2>2. TypeOK'
    OBVIOUS
  <2>3. WorkerEnds' /\ AudioKeeps' /\ NeverStopped' /\ InfoCalls'
    BY <2>1
  <2>4. OwnConn' /\ WaitingIsNew'
    OBVIOUS
  <2>5. Watched'
    OBVIOUS
  <2> QED
    BY <2>2, <2>3, <2>4, <2>5
<1>7. CASE Flag
  <2> USE <1>7 DEF Flag, Onward, End, Clear, Notify
  <2>1. late # "never"
    OBVIOUS
  <2>2. TypeOK'
    BY NotifyTypes, ClearTypes
  <2>3. WorkerEnds'
    BY NotifiedWatches
  <2>6. AudioKeeps' /\ NeverStopped' /\ InfoCalls'
    BY <2>1
  <2>4. OwnConn' /\ WaitingIsNew'
    OBVIOUS
  <2>5. Watched'
    BY NotifiedWatches
  <2> QED
    BY <2>2, <2>3, <2>4, <2>5, <2>6
<1>8. CASE CloseListener
  BY <1>8 DEF CloseListener, Forget
<1>9. CASE JoinListener
  BY <1>9 DEF JoinListener
<1>10. CASE PressPlay \/ PressPause
  <2> USE <1>10 DEF PressPlay, PressPause
  <2>1. TypeOK' /\ WorkerEnds' /\ Watched'
    OBVIOUS
  <2>2. OwnConn' /\ WaitingIsNew' /\ AudioKeeps'
    OBVIOUS
  <2>3. InfoCalls'
    OBVIOUS
  <2>4. NeverStopped'
    OBVIOUS
  <2> QED
    BY <2>1, <2>2, <2>3, <2>4
<1>11. CASE Pause
  BY <1>11 DEF Pause
<1> QED
  BY <1>1, <1>2, <1>3, <1>4, <1>5, <1>6, <1>7, <1>8, <1>9, <1>10, <1>11 DEF User

\* A client that comes has a name nothing refers to.
LEMMA SoundClient == ASSUME NEW c \in Client, Sound, Connect(c) \/ Leave(c)
                     PROVE  Sound'
<1> USE NoConnIsNoClient DEF Sound, TypeOK, WorkerEnds, OwnConn, Watched, WaitingIsNew, AudioKeeps, NeverStopped,
        InfoCalls, Channel, Conns, AccPlaces, IsOpen, InStop, net, out, user
<1>1. CASE Connect(c)
  BY <1>1 DEF Connect, Fresh
<1>2. CASE Leave(c)
  BY <1>2 DEF Leave
<1> QED
  BY <1>1, <1>2

LEMMA SoundNext == Sound /\ [Next]_vars => Sound'
<1> SUFFICES ASSUME Sound, [Next]_vars PROVE Sound'
  OBVIOUS
<1>1. CASE \E ch \in Channel : Acceptor(ch) \/ AcceptFails(ch)
  BY <1>1, SoundAcceptor
<1>2. CASE \E ch \in Channel : Talker(ch) \/ Served(ch)
  BY <1>2, SoundTalker
<1>3. CASE User \/ PressStart \/ PressStop \/ PressPlay \/ PressPause
  BY <1>3, SoundUser
<1>4. CASE \E c \in Client : Connect(c) \/ Leave(c)
  BY <1>4, SoundClient
<1>5. CASE UNCHANGED vars
  BY <1>5 DEF vars, net, peers, out, user, Sound, TypeOK, WorkerEnds, OwnConn, Watched, WaitingIsNew, AudioKeeps,
     NeverStopped, InfoCalls, IsOpen, InStop
<1> QED
  BY <1>1, <1>2, <1>3, <1>4, <1>5 DEF Next

\* A server that has been stopped accepts nobody and has no open connection, for any
\* number of clients.
THEOREM Quiet == Spec => []StoppedMeansQuiet
<1>1. Sound => StoppedMeansQuiet
  BY DEF Sound, WorkerEnds, Watched, StoppedMeansQuiet
<1> QED
  BY SoundInit, SoundNext, <1>1, PTL DEF Spec

\* connMtx keeps the audio handler off destroyed connections, the end of the accept
\* worker the menu, and until the first stopServer() clients that come and go take no
\* connection away from infoSinkWorker's calls, for any number of clients.
THEOREM LiveConnections == Spec => []UsesLiveConnections
<1>1. Sound => UsesLiveConnections
  BY DEF Sound, TypeOK, AudioKeeps, OwnConn, WorkerEnds, NeverStopped, IsOpen, UsesLiveConnections, Channel
<1> QED
  BY SoundInit, SoundNext, <1>1, PTL DEF Spec
=============================================================================
