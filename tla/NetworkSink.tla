----------------------------- MODULE NetworkSink -----------------------------
(***************************************************************************)
(* The network sink and the connections and listeners of utils/networking. *)
(* Audio goes to the client of one port; the state of the radio is sent to *)
(* the client of another, and its answer read.  On each port an accept     *)
(* worker runs the handler, which adopts a client, waits for its end and   *)
(* asks for the next; the user interface starts and stops the server and   *)
(* the playback, whose threads write.                                      *)
(*                                                                         *)
(* Data is left out: a write ends when the client takes it, or fails.  The *)
(* threads of ConnClass for asynchronous calls, which the sink does not    *)
(* use, only wait for close().                                             *)
(***************************************************************************)
EXTENDS Naturals

CONSTANTS Client, NoConn

ASSUME NoConnIsNoClient == NoConn \notin Client

Channel == {"audio", "info"}

VARIABLES
    listener,   \* of a channel: down, up, closing, or failed: not listening, socket open
    acc,        \* place of its accept worker
    conn,       \* conn, connInfo
    chan, peer, \* of a client: its channel; away (or of no more interest), waiting, here or left
    life,       \* its ConnClass: open, shut (socket closed), ended (connectionOpen false), or gone
    talk, using,    \* thread that writes on the channel: its place, the connection it uses
    fall,       \* infoSinkWorker's call that fails is about to: none (it has not failed), notify, unlock
    ui, at, held,   \* user interface: its place, the channel and the connection it deals with
    crashed,    \* a connection has been used after its destruction
    late        \* history: never stopped, or whether a client came during this stopServer()

net   == <<listener, acc, conn>>
peers == <<chan, peer, life>>
out   == <<talk, using, fall>>
user  == <<ui, at, held>>
vars  == <<net, peers, out, user, crashed, late>>

Init == /\ listener = [ch \in Channel |-> "down"]
        /\ acc = [ch \in Channel |-> "ended"]
        /\ conn = [ch \in Channel |-> NoConn]
        /\ chan \in [Client -> {"audio"}] /\ peer = [c \in Client |-> "away"]
        /\ life = [c \in Client |-> "gone"]
        /\ talk = [ch \in Channel |-> "off"] /\ using = [ch \in Channel |-> NoConn]
        /\ fall = "none"
        /\ ui = "idle" /\ at = "audio" /\ held = NoConn
        /\ crashed = FALSE /\ late = "never"

-----------------------------------------------------------------------------
(* ConnClass                                                               *)

IsOpen(c) == c # NoConn /\ life[c] \in {"open", "shut"}

\* connectionOpen becomes false; whoever uses a destroyed connection is lost.
Clear(c) == /\ life' = [life EXCEPT ![c] = IF @ = "gone" THEN @ ELSE "ended"]
            /\ crashed' = (life[c] = "gone")

\* Then the waiter is notified.  It looks at the flag under readQueueMtx, which those
\* who clear it do not hold, so that a notification may come before it sleeps.
Notified(place) == CASE place = "asleep" -> "look" [] place = "deaf" -> "look"
                     [] place = "doze" -> "lost" [] OTHER -> place

\* Mutant: nobody is notified.
NotifyNobody(c) == UNCHANGED acc /\ crashed' = (life[c] = "gone")

Notify(c) == /\ acc' = [ch \in Channel |-> IF conn[ch] = c THEN Notified(acc[ch]) ELSE acc[ch]]
             /\ crashed' = (life[c] = "gone")

\* One step where the destruction waits for a mutex that is held: closeMtx in close(),
\* connMtx in the audio handler.
End(c) == /\ Clear(c) /\ Notify(c)

\* Clients refused, or whose connection is destroyed, play no part any more.
Forget(clients) == /\ peer' = [c \in Client |-> IF c \in clients THEN "away" ELSE peer[c]]
                   /\ chan' = [c \in Client |-> IF c \in clients THEN "audio" ELSE chan[c]]

\* A write or read on it fails, or returns for lack of a peer.
Fails(c) == life[c] # "open" \/ peer[c] = "left"

\* closeMtx is held by the user interface for more than a step.
Closing(c) == ui \in {"shut", "flag"} /\ held = c

-----------------------------------------------------------------------------
(* Accept workers: worker() and accept() of ListenerClass, clientHandler and *)
(* clientInfoHandler with waitForEnd().                                      *)

Go(ch, from, to) == ~crashed /\ acc[ch] = from /\ acc' = [acc EXCEPT ![ch] = to]

Accept(ch) == /\ Go(ch, "accept", "swap") /\ listener[ch] = "up"
              /\ \E c \in Client :
                    /\ peer[c] = "waiting" /\ chan[c] = ch
                    /\ peer' = [peer EXCEPT ![c] = "here"]
                    /\ life' = [life EXCEPT ![c] = "open"]
              /\ UNCHANGED <<listener, conn, chan, out, user, crashed, late>>

\* accept() fails by itself, or because the socket has been closed.
AcceptFails(ch) == /\ Go(ch, "accept", "ended") /\ listener[ch] = "up"
                   /\ listener' = [listener EXCEPT ![ch] = "failed"]
                   /\ UNCHANGED <<conn, peers, out, user, crashed, late>>

AcceptClosed(ch) == /\ Go(ch, "accept", "ended") /\ listener[ch] = "closing"
                    /\ UNCHANGED <<listener, conn, peers, out, user, crashed, late>>

\* The connection of a channel that is not destroyed and not the current one.
Alive(ch)  == {c \in Client : chan[c] = ch /\ life[c] \in {"open", "shut", "ended"}}
Other(ch)  == Alive(ch) \ {conn[ch]}

InStop == ui \in {"take", "lock", "shut", "flag", "lclose", "ljoin"}

\* connMtx is held by the audio handler while it writes, and by a swap.
ConnFree == talk["audio"] # "send" /\ \A ch \in Channel : acc[ch] # "drop"

\* Mutant: the connection is changed without connMtx.
SwapUnlocked(ch) == /\ Go(ch, "swap", "drop")
                    /\ \E c \in Other(ch) : conn' = [conn EXCEPT ![ch] = c]
                    /\ late' = IF InStop THEN "yes" ELSE late
                    /\ UNCHANGED <<listener, peers, out, user, crashed>>

Swap(ch) == /\ Go(ch, "swap", "drop") /\ ConnFree
            /\ \E c \in Other(ch) : conn' = [conn EXCEPT ![ch] = c]
            /\ late' = IF InStop THEN "yes" ELSE late
            /\ UNCHANGED <<listener, peers, out, user, crashed>>

\* The destructor of the one before takes closeMtx.
Drop(ch) == /\ Go(ch, "drop", "look")
            /\ \A c \in Other(ch) : ~Closing(c)
            /\ life' = [c \in Client |-> IF c \in Other(ch) THEN "gone" ELSE life[c]]
            /\ Forget(Other(ch))
            /\ UNCHANGED <<listener, conn, out, user, crashed, late>>

Look(ch) == /\ Go(ch, "look", IF IsOpen(conn[ch]) THEN "doze" ELSE "close")
            /\ UNCHANGED <<listener, conn, peers, out, user, crashed, late>>

Sleep(ch) == /\ Go(ch, "doze", "asleep") \/ Go(ch, "lost", "deaf")
             /\ UNCHANGED <<listener, conn, peers, out, user, crashed, late>>

CloseEnded(ch) == /\ Go(ch, "close", "again") /\ ~Closing(conn[ch])
                  /\ UNCHANGED <<listener, conn, peers, out, user, crashed, late>>

Again(ch) == /\ Go(ch, "again", IF listener[ch] = "up" THEN "accept" ELSE "ended")
             /\ UNCHANGED <<listener, conn, peers, out, user, crashed, late>>

Acceptor(ch) == \/ Accept(ch) \/ AcceptClosed(ch) \/ Swap(ch) \/ Drop(ch)
                \/ Look(ch) \/ Sleep(ch) \/ CloseEnded(ch) \/ Again(ch)

-----------------------------------------------------------------------------
(* monoHandler, under connMtx, and infoSinkWorker, without it              *)

Say(ch, from, to) == ~crashed /\ talk[ch] = from /\ talk' = [talk EXCEPT ![ch] = to]

\* It loads the pointer, keeps it, or has done with it.
Load(ch) == conn[ch] # NoConn /\ using' = [using EXCEPT ![ch] = conn[ch]]
Done(ch) == using' = [using EXCEPT ![ch] = NoConn]

\* The audio handler keeps connMtx from here until it returns.
Play == /\ Say("audio", "idle", "send") /\ ConnFree
        /\ IsOpen(conn["audio"]) /\ Load("audio")
        /\ UNCHANGED <<net, peers, fall, user, crashed, late>>

\* infoSinkWorker loads connInfo three times in a round: for isOpen(), write() and read().
LoadInfo == /\ \/ Say("info", "idle", "ask") /\ ui # "pinfo"
               \/ Say("info", "toWrite", "write")
               \/ Say("info", "toRead", "read")
            /\ Load("info")
            /\ UNCHANGED <<net, peers, fall, user, crashed, late>>

\* Each of them begins with a look at connectionOpen of what has been loaded.
OpenInfo == /\ \/ Say("info", "ask", "toWrite") /\ Done("info")
               \/ (Say("info", "write", "send") \/ Say("info", "read", "recv")) /\ UNCHANGED using
            /\ IsOpen(using["info"])
            /\ UNCHANGED <<net, peers, fall, user, crashed, late>>

ClosedInfo == /\ Say("info", "ask", "idle") \/ Say("info", "write", "toRead") \/ Say("info", "read", "idle")
              /\ ~IsOpen(using["info"])
              /\ Done("info")
              /\ crashed' = (life[using["info"]] = "gone")
              /\ UNCHANGED <<net, peers, fall, user, late>>

\* The call returns, whatever it returns.
Leaves(ch) == /\ \/ Say(ch, "send", IF ch = "audio" THEN "idle" ELSE "toRead")
                 \/ Say(ch, "recv", "idle")
              /\ Done(ch)

Served(ch) == /\ Leaves(ch) /\ ~Fails(using[ch])
              /\ UNCHANGED <<net, peers, fall, user, crashed, late>>

\* Mutant: a write that fails leaves the connection as it is.
PlayGivesUp == /\ Leaves("audio") /\ Fails(using["audio"])
               /\ UNCHANGED <<net, peers, fall, user, crashed, late>>

PlayFails == /\ Leaves("audio") /\ Fails(using["audio"])
             /\ End(using["audio"])
             /\ UNCHANGED <<listener, conn, chan, peer, fall, user, late>>

InfoFails == /\ ~crashed /\ talk["info"] \in {"send", "recv"}
             /\ fall = "none" /\ fall' = "notify"
             /\ Fails(using["info"]) /\ Clear(using["info"])
             /\ UNCHANGED <<net, chan, peer, talk, using, user, late>>

InfoNotifies == /\ ~crashed
                /\ fall = "notify" /\ fall' = "unlock"
                /\ Notify(using["info"])
                /\ UNCHANGED <<listener, conn, peers, talk, using, user, late>>

\* The guard of writeMtx or readMtx releases it.
InfoReturns == /\ fall = "unlock" /\ fall' = "none"
               /\ Leaves("info")
               /\ crashed' = (life[using["info"]] = "gone")
               /\ UNCHANGED <<net, peers, user, late>>

\* What a writing thread does without its client.
Talker(ch) == \/ ch = "audio" /\ (Play \/ PlayFails)
              \/ ch = "info" /\ \/ LoadInfo \/ OpenInfo \/ ClosedInfo
                                \/ InfoFails \/ InfoNotifies \/ InfoReturns

-----------------------------------------------------------------------------
(* User interface: startServer, stopServer, doStart, doStop                *)

UiGo(from, to) == ~crashed /\ ui = from /\ ui' = to

NextChannel == IF at = "audio" THEN "info" ELSE "audio"

\* The menu shows one button; the sink is never without its audio port.  conn is only
\* looked at when the listener does not listen.
Listening == listener["audio"] \in {"up", "closing"} \/ IsOpen(conn["audio"])

PressStart == /\ UiGo("idle", "listen") /\ ~Listening
              /\ UNCHANGED <<net, peers, out, at, held, crashed, late>>

\* The port is taken by a socket that accept() has failed on, or by another program.
Listen == /\ \/ /\ UiGo("listen", IF at = "audio" THEN "listen" ELSE "idle")
                /\ listener[at] = "down"
                /\ listener' = [listener EXCEPT ![at] = "up"]
                /\ acc' = [acc EXCEPT ![at] = "accept"]
                /\ at' = NextChannel
             \/ UiGo("listen", "idle") /\ at' = "audio" /\ UNCHANGED <<listener, acc>>
          /\ UNCHANGED <<conn, peers, out, held, crashed, late>>

PressStop == /\ UiGo("idle", "take") /\ Listening
             /\ late' = "no"
             /\ UNCHANGED <<net, peers, out, at, held, crashed>>

\* From the connections of both channels to their listeners.
Onward == /\ at' = NextChannel
          /\ ui' = IF at = "audio" THEN "take" ELSE "lclose"

\* close(): the pointer is read without connMtx.
Take == /\ ~crashed /\ ui = "take"
        /\ held' = conn[at]
        /\ IF conn[at] = NoConn THEN Onward ELSE ui' = "lock" /\ UNCHANGED at
        /\ UNCHANGED <<net, peers, out, crashed, late>>

Lock == /\ UiGo("lock", "shut")
        /\ crashed' = (life[held] = "gone")
        /\ UNCHANGED <<net, peers, out, at, held, late>>

Shut == /\ UiGo("shut", "flag")
        /\ life' = [life EXCEPT ![held] = IF @ = "open" THEN "shut" ELSE @]
        /\ UNCHANGED <<net, chan, peer, out, at, held, crashed, late>>

Flag == /\ ~crashed /\ ui = "flag" /\ Onward
        /\ End(held) /\ held' = NoConn
        /\ UNCHANGED <<listener, conn, chan, peer, out, late>>

\* Closing the socket refuses the clients that wait on it.
CloseListener == /\ UiGo("lclose", "ljoin")
                 /\ listener' = [listener EXCEPT ![at] = IF @ = "up" THEN "closing" ELSE @]
                 /\ Forget({c \in Client : listener[at] = "up" /\ chan[c] = at /\ peer[c] = "waiting"})
                 /\ UNCHANGED <<acc, conn, life, out, at, held, crashed, late>>

\* Mutant: the worker is not waited for.
LeaveListener == /\ UiGo("ljoin", IF at = "audio" THEN "lclose" ELSE "idle")
                 /\ listener' = [listener EXCEPT ![at] = IF @ = "closing" THEN "down" ELSE @]
                 /\ at' = NextChannel
                 /\ late' = IF at = "info" THEN "no" ELSE late
                 /\ UNCHANGED <<acc, conn, peers, out, held, crashed>>

JoinListener == /\ UiGo("ljoin", IF at = "audio" THEN "lclose" ELSE "idle")
                /\ acc[at] = "ended"
                /\ listener' = [listener EXCEPT ![at] = IF @ = "closing" THEN "down" ELSE @]
                /\ at' = NextChannel
                /\ late' = IF at = "info" THEN "no" ELSE late
                /\ UNCHANGED <<acc, conn, peers, out, held, crashed>>

PressPlay == /\ UiGo("idle", "idle")
             /\ talk["audio"] = "off"
             /\ talk' = [ch \in Channel |-> "idle"]
             /\ UNCHANGED <<net, peers, using, fall, at, held, crashed, late>>

PressPause == /\ UiGo("idle", "pinfo") /\ talk["audio"] # "off"
              /\ UNCHANGED <<net, peers, out, at, held, crashed, late>>

\* The worker is joined, then the handler's block stopped.
Pause == /\ \/ UiGo("pinfo", "paudio") /\ Say("info", "idle", "off")
            \/ UiGo("paudio", "idle") /\ Say("audio", "idle", "off")
         /\ UNCHANGED <<net, peers, using, fall, at, held, crashed, late>>

User == \/ Listen \/ Take \/ Lock \/ Shut \/ Flag \/ CloseListener \/ JoinListener \/ Pause

-----------------------------------------------------------------------------
(* Clients                                                                 *)

\* A client is a new one when nothing refers to the last connection of its name.
Fresh(c) == /\ \A ch \in Channel : c \notin {conn[ch], using[ch]}
            /\ held # c /\ peer[c] = "away"

Connect(c) == /\ ~crashed /\ Fresh(c)
              /\ \E ch \in Channel : /\ listener[ch] = "up"
                                     /\ chan' = [chan EXCEPT ![c] = ch]
              /\ peer' = [peer EXCEPT ![c] = "waiting"]
              /\ UNCHANGED <<net, life, out, user, crashed, late>>

Leave(c) == /\ ~crashed /\ peer[c] = "here"
            /\ peer' = [peer EXCEPT ![c] = "left"]
            /\ UNCHANGED <<net, chan, life, out, user, crashed, late>>

Next == \/ \E ch \in Channel : Acceptor(ch) \/ AcceptFails(ch) \/ Talker(ch) \/ Served(ch)
        \/ User \/ PressStart \/ PressStop \/ PressPlay \/ PressPause
        \/ \E c \in Client : Connect(c) \/ Leave(c)

\* Clients are free to be silent, and the user to press nothing.
Fairness == /\ WF_vars(User)
            /\ \A ch \in Channel : WF_vars(Acceptor(ch)) /\ WF_vars(Talker(ch))

Spec == Init /\ [][Next]_vars /\ Fairness

-----------------------------------------------------------------------------
(* Properties                                                              *)

\* A server that has been stopped accepts nobody and has no open connection.
StoppedMeansQuiet ==
    \A ch \in Channel : ui = "idle" /\ listener[ch] = "down"
                            => acc[ch] = "ended" /\ ~IsOpen(conn[ch])

\* The audio handler never uses a destroyed connection, nor does the menu, which looks
\* at one only when the worker that replaces it has ended (main.cpp:158).  infoSinkWorker
\* does not hold connMtx.  Without a stopServer() clients that come and go take no
\* connection away that it writes on or reads from; what is left to go wrong is testing
\* one that had ended when it was loaded, and returning from a call that has ended one.
UsesLiveConnections ==
    /\ talk["audio"] = "send" => life[using["audio"]] # "gone"
    /\ ui = "idle" /\ listener["audio"] # "up" => acc["audio"] = "ended"
    /\ talk["info"] \in {"write", "send", "recv"} /\ fall = "none" /\ late = "never"
          => life[using["info"]] # "gone"

\* The accept worker waits for a client that has come in during the stop and stays, or
\* has missed the notification of an end.
HeldUp == acc[at] = "deaf" \/ (acc[at] = "asleep" /\ late = "yes")

\* stopServer() returns, or hangs in the join for one of these reasons.
StopServerReturns == []<>(~InStop \/ (ui = "ljoin" /\ HeldUp) \/ crashed)

\* A client that leaves while the sink plays is noticed and makes room for the next,
\* but for a missed notification.
LeavingIsSeen ==
    \A ch \in Channel : (acc[ch] = "asleep" /\ peer[conn[ch]] = "left")
                            ~> (acc[ch] \in {"look", "deaf"} \/ talk[ch] = "off" \/ crashed)
=============================================================================
