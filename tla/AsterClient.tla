---------------------------- MODULE AsterClient -----------------------------
(***************************************************************************)
(* server::ClientClass, the client of a remote aster server: calls of the  *)
(* user interface send a command and await its acknowledgement in a        *)
(* PacketWaiter with a timeout; the connection's read thread receives the  *)
(* packets, tells the waiters of the command and waits for each of them to *)
(* be done with the receive buffer.  The server handles one command after  *)
(* the other, or it is busy and asks to disconnect.                        *)
(*                                                                         *)
(* A command, its waiter and its acknowledgement have the number of the    *)
(* call they belong to.  The wait in PacketWaiter::notify is two steps,    *)
(* evaluating the predicate and falling asleep, both with readyMtx held:   *)
(* handled() sets its flag under another mutex.  Spurious wake-ups, which  *)
(* could only end a sleep early, are left out.                             *)
(***************************************************************************)
EXTENDS Integers, Sequences

CONSTANT MaxCall        \* bound: calls made over one connection

Command == {"GET_UI", "UI_ACTION", "SET_FREQUENCY"}
Disconnect == 0         \* the packet that is no acknowledgement

VARIABLES open, toServer, toClient,     \* the connection and the packets on their way
          accepted,                     \* whether the server took this client
          calls,                        \* the commands called so far
          caller,                       \* where the calling thread is in the last of them
          waiters,                      \* commandAckWaiters
          ready, canceled, handled,     \* the flags of the waiters
          rpc, packet, todo, cur, gone, \* read thread, the packet in rbuffer, the loop over the waiters
          serverBusy,
          timedOut                      \* history: calls whose await() gave up

net    == <<open, toServer, toClient, accepted>>
flags  == <<ready, canceled, handled>>
call   == <<calls, caller, timedOut>>
reader == <<rpc, packet, todo, cur, gone, serverBusy>>
vars   == <<net, calls, caller, waiters, flags, reader, timedOut>>

Call == Len(calls)
Locked(w) == rpc = "doze" /\ cur = w            \* notify() holds w's readyMtx
Wanted(w, p) == p # Disconnect => calls[w] = calls[p]

Init == /\ open = TRUE /\ accepted \in BOOLEAN
        /\ toServer = <<>>
        /\ toClient = IF accepted THEN <<>> ELSE <<Disconnect>>
        /\ calls = <<>> /\ caller = "idle"
        /\ waiters = {} /\ ready = {} /\ canceled = {} /\ handled = {}
        /\ rpc = "read" /\ packet = Disconnect /\ todo = {} /\ cur = 0 /\ gone = {}
        /\ serverBusy = FALSE /\ timedOut = {}

-----------------------------------------------------------------------------
(* The calls: getUI(), showMenu() with a resync, setFrequency().           *)

\* Mutant: every call sends before it registers.
BeginSending(c) == /\ caller = "idle" /\ Call < MaxCall
                   /\ open
                   /\ calls' = Append(calls, c)
                   /\ caller' = "send"
                   /\ UNCHANGED <<net, waiters, flags, reader, timedOut>>

\* setFrequency() returns at once without a connection.
BeginCall(c) == /\ caller = "idle" /\ Call < MaxCall
                /\ c = "SET_FREQUENCY" => open
                /\ calls' = Append(calls, c)
                /\ caller' = IF c = "SET_FREQUENCY" THEN "send" ELSE "register"
                /\ UNCHANGED <<net, waiters, flags, reader, timedOut>>

\* awaitCommandAck().  A waiter added while the read thread goes through the map
\* is met by that loop or not.
Register == /\ caller = "register"
            /\ waiters' = waiters \cup {Call}
            /\ \/ UNCHANGED todo
               \/ /\ rpc \notin {"read", "ended"} /\ Wanted(Call, packet)
                  /\ todo' = todo \cup {Call}
            /\ caller' = IF calls[Call] = "SET_FREQUENCY" THEN "await" ELSE "send"
            /\ UNCHANGED <<net, calls, flags, rpc, packet, cur, gone, serverBusy, timedOut>>

SendCommand == /\ caller = "send"
               /\ toServer' = IF open THEN Append(toServer, Call) ELSE toServer
               /\ caller' = IF Call \in waiters THEN "await" ELSE "register"
               /\ UNCHANGED <<open, toClient, accepted, calls, waiters, flags, reader, timedOut>>

\* await() returns true.  setFrequency() does not look at the answer.
AwaitReady == /\ caller = "await" /\ ~Locked(Call)
              /\ Call \in ready \ canceled
              /\ caller' = IF calls[Call] = "SET_FREQUENCY" THEN "handled" ELSE "load"
              /\ UNCHANGED <<net, calls, waiters, flags, reader, timedOut>>

AwaitCanceled == /\ caller = "await" /\ ~Locked(Call)
                 /\ Call \in canceled
                 /\ caller' = "handled"
                 /\ UNCHANGED <<net, calls, waiters, flags, reader, timedOut>>

\* Mutant: a call that gives up does not say that it is done.
ForsakeWaiter == /\ caller = "await" /\ ~Locked(Call)
                 /\ Call \notin ready \cup canceled
                 /\ timedOut' = timedOut \cup {Call}
                 /\ caller' = "idle"
                 /\ UNCHANGED <<net, calls, waiters, flags, reader>>

Timeout == /\ caller = "await" /\ ~Locked(Call)
           /\ Call \notin ready \cup canceled
           /\ timedOut' = timedOut \cup {Call}
           /\ caller' = "handled"
           /\ UNCHANGED <<net, calls, waiters, flags, reader>>

\* dl.load() reads the answer where it was received.
Load == /\ caller = "load"
        /\ caller' = "handled"
        /\ UNCHANGED <<net, calls, waiters, flags, reader, timedOut>>

SetHandled == /\ caller = "handled"
              /\ handled' = handled \cup {Call}
              /\ caller' = "notify"
              /\ UNCHANGED <<net, calls, waiters, ready, canceled, reader, timedOut>>

NotifyHandled == /\ caller = "notify" /\ Call \in waiters
                 /\ caller' = "idle"
                 /\ rpc' = IF rpc = "asleep" /\ cur = Call THEN "check" ELSE rpc
                 /\ UNCHANGED <<net, calls, waiters, flags, packet, todo, cur, gone, serverBusy, timedOut>>

\* The read thread has seen the flag and deleted the waiter already: handledCnd is
\* gone, and notifying it does nothing or anything.
NotifyFreed == /\ caller = "notify" /\ Call \notin waiters
               /\ caller' \in {"idle", "crashed"}
               /\ UNCHANGED <<net, calls, waiters, flags, reader, timedOut>>

CallStep == \/ Register \/ SendCommand \/ AwaitReady \/ AwaitCanceled \/ Timeout
            \/ Load \/ SetHandled \/ NotifyHandled \/ NotifyFreed

-----------------------------------------------------------------------------
(* The read thread: tcpHandler(), PacketWaiter::notify() and cancel().     *)

Receive == /\ rpc = "read" /\ toClient # <<>>
           /\ packet' = Head(toClient) /\ toClient' = Tail(toClient)
           /\ serverBusy' = (serverBusy \/ packet' = Disconnect)
           /\ todo' = {w \in waiters : Wanted(w, packet')}
           /\ gone' = {}
           /\ rpc' = "next"
           /\ UNCHANGED <<open, toServer, accepted, call, waiters, flags, cur>>

ReadFails == /\ rpc = "read" /\ ~open /\ toClient = <<>>
             /\ rpc' = "ended"
             /\ UNCHANGED <<net, call, waiters, flags, packet, todo, cur, gone, serverBusy>>

NextWaiter(w) == /\ rpc = "next" /\ w \in todo
                 /\ cur' = w /\ todo' = todo \ {w}
                 /\ rpc' = IF packet = Disconnect THEN "cancel" ELSE "tell"
                 /\ UNCHANGED <<net, call, waiters, flags, packet, gone, serverBusy>>

Cancel == /\ rpc = "cancel"
          /\ canceled' = canceled \cup {cur}
          /\ rpc' = "tell"
          /\ UNCHANGED <<net, call, waiters, ready, handled, packet, todo, cur, gone, serverBusy>>

TellReady == /\ rpc = "tell"
             /\ ready' = ready \cup {cur}
             /\ rpc' = "check"
             /\ UNCHANGED <<net, call, waiters, canceled, handled, packet, todo, cur, gone, serverBusy>>

\* Mutant: notify() does not wait for the answer to be handled.
NotifyAndGo == /\ rpc = "check"
               /\ gone' = gone \cup {cur}
               /\ rpc' = "next"
               /\ UNCHANGED <<net, call, waiters, flags, packet, todo, cur, serverBusy>>

SeeHandled == /\ rpc = "check" /\ cur \in handled
              /\ gone' = gone \cup {cur}
              /\ rpc' = "next"
              /\ UNCHANGED <<net, call, waiters, flags, packet, todo, cur, serverBusy>>

Doze == /\ rpc = "check" /\ cur \notin handled
        /\ rpc' = "doze"
        /\ UNCHANGED <<net, call, waiters, flags, packet, todo, cur, gone, serverBusy>>

FallAsleep == /\ rpc = "doze"
              /\ rpc' = "asleep"
              /\ UNCHANGED <<net, call, waiters, flags, packet, todo, cur, gone, serverBusy>>

\* The waiters that were told are erased and deleted, and the next read begins.
EraseWaiters == /\ rpc = "next" /\ todo = {}
                /\ waiters' = waiters \ gone
                /\ rpc' = "read"
                /\ UNCHANGED <<net, call, flags, packet, todo, cur, gone, serverBusy>>

ReaderStep == /\ caller # "crashed"
              /\ \/ Receive \/ ReadFails \/ \E w \in todo : NextWaiter(w)
                 \/ Cancel \/ TellReady \/ SeeHandled \/ Doze \/ FallAsleep \/ EraseWaiters

-----------------------------------------------------------------------------
(* The server and the connection.                                          *)

\* commandHandler() of the server acknowledges the commands in their order.
Serve == /\ accepted /\ open /\ toServer # <<>>
         /\ toServer' = Tail(toServer)
         /\ toClient' = Append(toClient, Head(toServer))
         /\ UNCHANGED <<open, accepted, call, waiters, flags, reader>>

\* The connection breaks, or the server that was busy closes it; what was on its
\* way still arrives or does not.
LoseConnection == /\ open
                  /\ open' = FALSE
                  /\ toServer' = <<>>
                  /\ toClient' \in {toClient, <<>>}
                  /\ UNCHANGED <<accepted, call, waiters, flags, reader>>

\* close() shuts the socket and joins the read thread.
BeginClose == /\ caller = "idle"
              /\ caller' = "join"
              /\ open' = FALSE /\ toServer' = <<>> /\ toClient' = <<>>
              /\ UNCHANGED <<accepted, calls, waiters, flags, reader, timedOut>>

JoinReader == /\ caller = "join" /\ rpc = "ended"
              /\ caller' = "closed"
              /\ UNCHANGED <<net, calls, waiters, flags, reader, timedOut>>

\* Another ClientClass is made.
Reconnect == /\ caller = "closed"
             /\ open' = TRUE /\ accepted' \in BOOLEAN
             /\ toServer' = <<>>
             /\ toClient' = IF accepted' THEN <<>> ELSE <<Disconnect>>
             /\ calls' = <<>> /\ caller' = "idle"
             /\ waiters' = {} /\ ready' = {} /\ canceled' = {} /\ handled' = {}
             /\ rpc' = "read" /\ packet' = Disconnect /\ todo' = {} /\ cur' = 0 /\ gone' = {}
             /\ serverBusy' = FALSE /\ timedOut' = {}

Next == \/ \E c \in Command : BeginCall(c)
        \/ CallStep \/ ReaderStep
        \/ Serve \/ LoseConnection
        \/ BeginClose \/ JoinReader \/ Reconnect

\* The two threads of the client run when they can; the ten seconds of await()
\* pass.  Nothing is expected of the server or of the connection.
Fairness == WF_vars(CallStep \/ JoinReader) /\ WF_vars(ReaderStep)

Spec == Init /\ [][Next]_vars /\ Fairness

-----------------------------------------------------------------------------
(* Properties.                                                             *)

\* While a call loads an answer from the receive buffer, the read thread is held
\* in notify() for it and its waiter exists.  The answer is one to its command, but
\* not always its own: it may be that of an earlier call which had timed out, or of
\* the call before, when the loop over the waiters met the new one as well
\* (aster_server_client.cpp tcpHandler, getUI, showMenu).
AnswerInPlace == caller = "load" =>
    /\ rpc \in {"check", "doze", "asleep"} /\ cur = Call /\ Call \in waiters
    /\ packet \in 1..Call /\ calls[packet] = calls[Call]

\* An acknowledgement never passes by the call that asked for it, for the commands
\* that register their waiter before they are sent: by the time the read thread
\* is through, that waiter has been told (aster_server_client.cpp getUI, showMenu,
\* tcpHandler).
AnswerFindsCall ==
    (rpc = "next" /\ todo = {} /\ packet # Disconnect /\ calls[packet] # "SET_FREQUENCY")
        => packet \in ready

\* The read thread sleeps in notify() although the call is through with handled().
Stranded == rpc = "asleep" /\ cur \in handled /\ ~(caller = "notify" /\ cur = Call)

\* A call ends, by its answer, a disconnect or the timeout; the read thread gets
\* through a packet whatever became of its calls, and close() returns, unless the
\* read thread fell asleep while handled() was setting its flag, or handled() has come
\* too late to its own waiter and crashed (aster_server_client.h await, notify, handled).
CallsEndOrStrand == /\ (caller \notin {"idle", "join", "closed"}) ~> (caller \in {"idle", "crashed"})
                    /\ (rpc = "next") ~> (rpc \in {"read", "ended"} \/ Stranded \/ caller = "crashed")
                    /\ (caller = "join") ~> (caller # "join" \/ Stranded)

=============================================================================
