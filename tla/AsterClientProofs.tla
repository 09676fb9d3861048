------------------------- MODULE AsterClientProofs --------------------------
(***************************************************************************)
(* Proofs about AsterClient for any number of calls: an answer stays in    *)
(* place while it is read, and it finds the call that registered for it.   *)
(***************************************************************************)
EXTENDS AsterClient, SequenceTheorems, TLAPS

Number  == 1..Call                      \* of a call made over this connection
Telling == {"check", "doze", "asleep"}  \* the read thread is held in notify()
InLoop  == {"cancel", "tell"} \cup Telling
Calling == {"register", "send", "await", "load", "handled"}

Typed == /\ calls \in Seq(Command)
         /\ toServer \in Seq(Number) /\ toClient \in Seq(Number \cup {Disconnect})
         /\ packet \in Number \cup {Disconnect}
         /\ waiters \subseteq Number /\ todo \subseteq waiters
         /\ ready \subseteq Number /\ canceled \subseteq Number /\ handled \subseteq Number
         /\ caller \in Calling \cup {"idle", "notify", "join", "closed", "crashed"}
         /\ rpc \in InLoop \cup {"read", "next", "ended"}

\* The call in progress has not been handled yet.
CallOK == /\ caller \in Calling => Call \in Number \ handled
          /\ caller = "notify" => Call \in Number
          /\ caller = "load" => Call \in ready \ canceled

\* The loop only meets waiters of the packet, and cancels them for a disconnect.
LoopOK == /\ rpc \in InLoop => cur \in waiters /\ Wanted(cur, packet)
          /\ \A w \in todo : Wanted(w, packet)
          /\ rpc \in {"read", "ended"} => todo = {}
          /\ rpc \in {"tell"} \cup Telling /\ packet = Disconnect => cur \in canceled

\* A waiter that was told and is not handled holds the read thread.
HeldOK == /\ \A w \in ready \ handled : rpc \in Telling /\ cur = w
          /\ rpc \in Telling => cur \in ready
          /\ gone \subseteq ready

\* A command that registers first has its waiter until that has been told.
Awaited(p) == calls[p] # "SET_FREQUENCY" => p \in waiters \cup ready
SentOK == /\ \A i \in 1..Len(toServer) : Awaited(toServer[i])
          /\ \A i \in 1..Len(toClient) : toClient[i] # Disconnect => Awaited(toClient[i])
          /\ caller = "send" => Awaited(Call)

\* The loop over the waiters does not leave it out.
FoundOK == rpc \notin {"read", "ended"} /\ packet # Disconnect /\ calls[packet] # "SET_FREQUENCY"
              => packet \in ready \cup todo \/ (rpc \in {"cancel", "tell"} /\ cur = packet)

IInv == Typed /\ CallOK /\ LoopOK /\ HeldOK /\ SentOK /\ FoundOK

USE DEF Typed, CallOK, LoopOK, HeldOK, SentOK, FoundOK, Number, Telling, InLoop, Calling,
        Awaited, Wanted, Disconnect, Command, net, flags, call, reader

-----------------------------------------------------------------------------
\* What can be on its way before the first command: nothing, or the request to
\* disconnect of a server that is busy (aster_server.cpp _clientHandler).
LEMMA FirstPackets == ASSUME NEW S, Disconnect \in S
                      PROVE  <<>> \in Seq(S) /\ <<Disconnect>> \in Seq(S)
  OBVIOUS

\* A new connection, to a server that is free or busy (aster_server_client.cpp
\* ClientClass).
LEMMA InitInv == Init => IInv
<1> SUFFICES ASSUME Init PROVE IInv
  OBVIOUS
<1>1. calls = <<>> /\ Call = 0 /\ toServer = <<>> /\ toClient \in {<<>>, <<Disconnect>>}
  BY DEF Init, Call
<1>2. Typed
  <2>1. calls \in Seq(Command) /\ toServer \in Seq(Number)
    BY <1>1, EmptySeq
  <2>2. toClient \in Seq(Number \cup {Disconnect})
    BY <1>1, FirstPackets
  <2>3. /\ waiters = {} /\ todo = {} /\ ready = {} /\ canceled = {} /\ handled = {}
        /\ caller = "idle" /\ rpc = "read" /\ packet = Disconnect
    BY DEF Init
  <2>4. QED
    BY <2>1, <2>2, <2>3
<1>3. CallOK /\ LoopOK /\ HeldOK /\ FoundOK
  BY DEF Init
<1>4. SentOK
  BY <1>1 DEF Init
<1>5. QED
  BY <1>2, <1>3, <1>4 DEF IInv

\* What a sequence over a set holds lies in the set.
LEMMA ElementOf == ASSUME NEW S, NEW s \in Seq(S), NEW i \in 1..Len(s) PROVE s[i] \in S
OBVIOUS

\* A call is added to those made so far, whose numbers and commands stay
\* (aster_server_client.cpp getUI, showMenu, setFrequency).
LEMMA BeginInv == ASSUME IInv, NEW c \in Command, BeginCall(c) PROVE IInv'
<1> USE DEF IInv
<1>1. /\ calls' \in Seq(Command) /\ Call' = Call + 1 /\ Call \in Nat
      /\ calls'[Call + 1] = c
      /\ \A p \in Number : calls'[p] = calls[p] /\ p \in Number'
  BY DEF BeginCall, Call
<1>2. Call' \in Number' /\ Call' \notin Number
  BY <1>1
<1>3. UNCHANGED <<open, toServer, toClient, accepted, waiters, ready, canceled, handled,
                  rpc, packet, todo, cur, gone>>
  BY DEF BeginCall
<1>4. caller' \in {"send", "register"} /\ (caller' = "send" => c = "SET_FREQUENCY")
  BY DEF BeginCall
<1>5. toServer' \in Seq(Number') /\ toClient' \in Seq(Number' \cup {Disconnect})
  <2>1. Number \subseteq Number' /\ Number \cup {Disconnect} \subseteq Number' \cup {Disconnect}
    BY <1>1
  <2>2. QED
    BY <1>3, <2>1, SeqMonotonic
<1>6. Typed' /\ CallOK' /\ HeldOK'
  <2>1. Typed'
    BY <1>1, <1>3, <1>4, <1>5
  <2>2. CallOK' /\ HeldOK'
    BY <1>2, <1>3, <1>4
  <2>3. QED
    BY <2>1, <2>2
<1>7. LoopOK'
  BY <1>1, <1>3
<1>8. SentOK'
  <2>1. \A i \in 1..Len(toServer) : Awaited(toServer[i])'
    <3> SUFFICES ASSUME NEW i \in 1..Len(toServer)
                 PROVE  Awaited(toServer[i])'
      OBVIOUS
    <3>1. toServer[i] \in Number /\ Awaited(toServer[i])
      <4>1. toServer \in Seq(Number)
        OBVIOUS
      <4>2. toServer[i] \in Number
        BY <4>1, ElementOf
      <4>3. Awaited(toServer[i])
        OBVIOUS
      <4> QED
        BY <4>2, <4>3
    <3>2. toServer'[i] = toServer[i] /\ calls'[toServer[i]] = calls[toServer[i]]
      BY <1>1, <1>3, <3>1
    <3>3. waiters' = waiters /\ ready' = ready
      BY <1>3
    <3> QED
      BY <3>1, <3>2, <3>3 DEF Awaited
  <2>2. \A i \in 1..Len(toClient) : toClient[i] # Disconnect => Awaited(toClient[i])'
    <3> SUFFICES ASSUME NEW i \in 1..Len(toClient), toClient[i] # Disconnect
                 PROVE  Awaited(toClient[i])'
      OBVIOUS
    <3>1. toClient[i] \in Number /\ Awaited(toClient[i])
      OBVIOUS
    <3> QED
      BY <1>1, <1>3, <3>1
  <2>3. (caller = "send" => Awaited(Call))'
    BY <1>1, <1>4
  <2>4. QED
    BY <1>3, <2>1, <2>2, <2>3
<1>9. FoundOK'
  BY <1>1, <1>3
<1>10. QED
  BY <1>6, <1>7, <1>8, <1>9

\* The steps of the calling thread (aster_server_client.cpp awaitCommandAck,
\* sendCommand; aster_server_client.h await, handled).
LEMMA CallInv == IInv /\ CallStep => IInv'
<1> SUFFICES ASSUME IInv, CallStep PROVE IInv'
  OBVIOUS
<1> USE DEF IInv
<1>1. CASE Register
  <2>1. Typed' /\ CallOK'
    BY <1>1 DEF Register, Call
  <2>2. LoopOK' /\ HeldOK'
    BY <1>1 DEF Register, Call
  <2>3. SentOK' /\ FoundOK'
    BY <1>1 DEF Register, Call
  <2>4. QED
    BY <2>1, <2>2, <2>3
<1>2. CASE SendCommand
  <2> UNCHANGED <<calls, Call, waiters, ready, canceled, handled, rpc, packet, todo, cur, gone, toClient>>
    BY <1>2 DEF SendCommand, Call
  <2>1. Call \in Number /\ caller' \in {"await", "register"}
    BY <1>2 DEF SendCommand
  <2>2. toServer' \in Seq(Number) /\ \A i \in 1..Len(toServer') : Awaited(toServer'[i])
    <3>1. CASE open
      <4>1. toServer' = Append(toServer, Call) /\ caller = "send"
        BY <1>2, <3>1 DEF SendCommand
      <4>2. /\ toServer' \in Seq(Number) /\ Len(toServer') = Len(toServer) + 1
            /\ \A i \in 1..Len(toServer) : toServer'[i] = toServer[i]
            /\ toServer'[Len(toServer) + 1] = Call /\ Len(toServer) \in Nat
        BY <2>1, <4>1, AppendProperties
      <4>3. QED
        BY <4>1, <4>2
    <3>2. CASE ~open
      BY <1>2, <3>2 DEF SendCommand
    <3>3. QED
      BY <3>1, <3>2
  <2>3. Typed' /\ CallOK'
    BY <1>2, <2>1, <2>2 DEF SendCommand
  <2>4. LoopOK' /\ HeldOK' /\ FoundOK'
    BY <1>2 DEF SendCommand
  <2>5. SentOK'
    BY <2>1, <2>2
  <2>6. QED
    BY <2>3, <2>4, <2>5
<1>3. CASE AwaitReady \/ AwaitCanceled \/ Timeout \/ Load
  <2> UNCHANGED <<calls, Call, waiters, flags, rpc, packet, todo, cur, gone, toServer, toClient>>
    BY <1>3 DEF AwaitReady, AwaitCanceled, Timeout, Load, Call
  <2>1. caller \in {"await", "load"} /\ caller' \in {"load", "handled"}
    BY <1>3 DEF AwaitReady, AwaitCanceled, Timeout, Load
  <2>2. caller' = "load" => Call \in ready \ canceled
    BY <1>3 DEF AwaitReady, AwaitCanceled, Timeout, Load
  <2>3. Typed' /\ CallOK'
    BY <2>1, <2>2
  <2>4. LoopOK' /\ HeldOK' /\ SentOK' /\ FoundOK'
    BY <2>1
  <2>5. QED
    BY <2>3, <2>4
<1>4. CASE SetHandled
  <2> UNCHANGED <<calls, Call, waiters, ready, canceled, rpc, packet, todo, cur, gone, toServer, toClient>>
    BY <1>4 DEF SetHandled, Call
  <2>1. Typed' /\ CallOK'
    BY <1>4 DEF SetHandled
  <2>2. LoopOK' /\ HeldOK' /\ SentOK' /\ FoundOK'
    BY <1>4 DEF SetHandled
  <2>3. QED
    BY <2>1, <2>2
<1>5. CASE NotifyHandled
  <2> UNCHANGED <<calls, Call, waiters, flags, packet, todo, cur, gone, toServer, toClient>>
    BY <1>5 DEF NotifyHandled, Call
  <2>1. caller' = "idle"
    BY <1>5 DEF NotifyHandled
  <2>2. rpc' = rpc \/ (rpc = "asleep" /\ rpc' = "check")
    BY <1>5 DEF NotifyHandled
  <2>3. Typed' /\ CallOK'
    BY <2>1, <2>2
  <2>4. LoopOK' /\ HeldOK' /\ SentOK' /\ FoundOK'
    BY <2>1, <2>2
  <2>5. QED
    BY <2>3, <2>4
<1>6. CASE NotifyFreed
  <2> UNCHANGED <<calls, Call, waiters, flags, rpc, packet, todo, cur, gone, toServer, toClient>>
    BY <1>6 DEF NotifyFreed, Call
  <2>1. caller' \in {"idle", "crashed"}
    BY <1>6 DEF NotifyFreed
  <2>2. Typed' /\ CallOK' /\ SentOK'
    BY <2>1
  <2>3. LoopOK' /\ HeldOK' /\ FoundOK'
    OBVIOUS
  <2>4. QED
    BY <2>2, <2>3
<1>7. QED
  BY <1>1, <1>2, <1>3, <1>4, <1>5, <1>6 DEF CallStep

\* The steps of the read thread, one for each place in its loop
\* (aster_server_client.cpp tcpHandler; aster_server_client.h notify, cancel).
LEMMA ReaderInv == IInv /\ ReaderStep => IInv'
<1> SUFFICES ASSUME IInv, ReaderStep PROVE IInv'
  OBVIOUS
<1> USE DEF IInv
<1>1. CASE Receive
  <2> UNCHANGED <<calls, Call, caller, waiters, ready, canceled, handled, toServer>>
    BY <1>1 DEF Receive, Call
  <2>1. /\ toClient # <<>> /\ packet' = Head(toClient) /\ toClient' = Tail(toClient)
        /\ rpc = "read" /\ rpc' = "next" /\ gone' = {}
        /\ todo' = {w \in waiters : Wanted(w, packet')}
    BY <1>1 DEF Receive
  <2>2. /\ packet' = toClient[1] /\ 1 \in 1..Len(toClient)
        /\ packet' \in Number \cup {Disconnect} /\ toClient' \in Seq(Number \cup {Disconnect})
        /\ \A i \in 1..Len(toClient') : i + 1 \in 1..Len(toClient) /\ toClient'[i] = toClient[i + 1]
    BY <2>1, HeadTailProperties
  <2>3. Typed' /\ CallOK'
    BY <2>1, <2>2
  <2>4. LoopOK' /\ HeldOK'
    BY <2>1
  <2>5. SentOK'
    BY <2>2
  <2>6. FoundOK'
    <3>1. packet' # Disconnect => Awaited(packet')
      BY <2>2
    <3>2. QED
      BY <3>1, <2>1, <2>2
  <2>7. QED
    BY <2>3, <2>4, <2>5, <2>6
<1>2. CASE ReadFails
  <2> UNCHANGED <<calls, Call, caller, waiters, ready, canceled, handled, packet, todo, cur, gone,
                  toServer, toClient>>
    BY <1>2 DEF ReadFails, Call
  <2>1. rpc = "read" /\ rpc' = "ended"
    BY <1>2 DEF ReadFails
  <2>2. Typed' /\ CallOK'
    BY <2>1
  <2>3. LoopOK' /\ HeldOK' /\ SentOK' /\ FoundOK'
    BY <2>1
  <2>4. QED
    BY <2>2, <2>3
<1>3. ASSUME NEW w \in todo, NextWaiter(w) PROVE IInv'
  <2> UNCHANGED <<calls, Call, caller, waiters, ready, canceled, handled, packet, gone,
                  toServer, toClient>>
    BY <1>3 DEF NextWaiter, Call
  <2>1. /\ rpc = "next" /\ cur' = w /\ todo' = todo \ {w}
        /\ rpc' \in {"cancel", "tell"} /\ (rpc' = "tell" => packet # Disconnect)
    BY <1>3 DEF NextWaiter
  <2>2. Typed' /\ CallOK'
    BY <2>1
  <2>3. LoopOK' /\ HeldOK'
    BY <2>1
  <2>4. SentOK' /\ FoundOK'
    BY <2>1
  <2>5. QED
    BY <2>2, <2>3, <2>4
<1>4. CASE Cancel
  <2> UNCHANGED <<calls, Call, caller, waiters, ready, handled, packet, todo, cur, gone,
                  toServer, toClient>>
    BY <1>4 DEF Cancel, Call
  <2>1. rpc = "cancel" /\ rpc' = "tell" /\ canceled' = canceled \cup {cur}
    BY <1>4 DEF Cancel
  <2>2. Typed' /\ CallOK'
    BY <2>1
  <2>3. LoopOK' /\ HeldOK' /\ SentOK' /\ FoundOK'
    BY <2>1
  <2>4. QED
    BY <2>2, <2>3
<1>5. CASE TellReady
  <2> UNCHANGED <<calls, Call, caller, waiters, canceled, handled, packet, todo, cur, gone,
                  toServer, toClient>>
    BY <1>5 DEF TellReady, Call
  <2>1. rpc = "tell" /\ rpc' = "check" /\ ready' = ready \cup {cur}
    BY <1>5 DEF TellReady
  <2>2. Typed' /\ CallOK'
    BY <2>1
  <2>3. LoopOK' /\ HeldOK' /\ SentOK' /\ FoundOK'
    BY <2>1
  <2>4. QED
    BY <2>2, <2>3
<1>6. CASE SeeHandled
  <2> UNCHANGED <<calls, Call, caller, waiters, flags, packet, todo, cur, toServer, toClient>>
    BY <1>6 DEF SeeHandled, Call
  <2>1. rpc = "check" /\ cur \in handled /\ rpc' = "next" /\ gone' = gone \cup {cur}
    BY <1>6 DEF SeeHandled
  <2>2. Typed' /\ CallOK'
    BY <2>1
  <2>3. LoopOK' /\ HeldOK' /\ SentOK' /\ FoundOK'
    BY <2>1
  <2>4. QED
    BY <2>2, <2>3
<1>7. CASE Doze \/ FallAsleep
  <2> UNCHANGED <<calls, Call, caller, waiters, flags, packet, todo, cur, gone, toServer, toClient>>
    BY <1>7 DEF Doze, FallAsleep, Call
  <2>1. rpc \in Telling /\ rpc' \in Telling
    BY <1>7 DEF Doze, FallAsleep
  <2>2. Typed' /\ CallOK'
    BY <2>1
  <2>3. LoopOK' /\ HeldOK' /\ SentOK' /\ FoundOK'
    BY <2>1
  <2>4. QED
    BY <2>2, <2>3
<1>8. CASE EraseWaiters
  <2> UNCHANGED <<calls, Call, caller, flags, packet, todo, cur, gone, toServer, toClient>>
    BY <1>8 DEF EraseWaiters, Call
  <2>1. rpc = "next" /\ todo = {} /\ rpc' = "read" /\ waiters' = waiters \ gone
    BY <1>8 DEF EraseWaiters
  <2>2. Typed' /\ CallOK'
    BY <2>1
  <2>3. LoopOK' /\ HeldOK' /\ SentOK' /\ FoundOK'
    BY <2>1
  <2>4. QED
    BY <2>2, <2>3
<1>9. QED
  BY <1>1, <1>2, <1>3, <1>4, <1>5, <1>6, <1>7, <1>8 DEF ReaderStep

\* The server, the connection, and the end of a client (aster_server.cpp
\* _packetHandler; networking.cpp ConnClass::close).
LEMMA OtherInv == IInv /\ (Serve \/ LoseConnection \/ BeginClose \/ JoinReader) => IInv'
<1> SUFFICES ASSUME IInv, Serve \/ LoseConnection \/ BeginClose \/ JoinReader PROVE IInv'
  OBVIOUS
<1> USE DEF IInv
<1> UNCHANGED <<calls, Call, waiters, flags, rpc, packet, todo, cur, gone>>
  BY DEF Serve, LoseConnection, BeginClose, JoinReader, Call
<1>1. caller' = caller \/ caller' \in {"join", "closed"}
  BY DEF Serve, LoseConnection, BeginClose, JoinReader
<1>2. /\ toServer' \in Seq(Number) /\ toClient' \in Seq(Number \cup {Disconnect})
      /\ \A i \in 1..Len(toServer') : Awaited(toServer'[i])
      /\ \A i \in 1..Len(toClient') : toClient'[i] # Disconnect => Awaited(toClient'[i])
  <2>1. CASE Serve
    <3>1. /\ toServer # <<>> /\ toServer' = Tail(toServer)
          /\ toClient' = Append(toClient, Head(toServer))
      BY <2>1 DEF Serve
    <3>2. /\ Head(toServer) = toServer[1] /\ 1 \in 1..Len(toServer)
          /\ Head(toServer) \in Number /\ toServer' \in Seq(Number)
          /\ \A i \in 1..Len(toServer') : i + 1 \in 1..Len(toServer) /\ toServer'[i] = toServer[i + 1]
      <4>1. toServer \in Seq(Number) /\ toServer # <<>>
        BY <3>1
      <4>2. Len(toServer) \in Nat \ {0}
        BY <4>1, EmptySeq
      <4>3. Head(toServer) = toServer[1]
        BY <4>1, <4>2
      <4>4. /\ Head(toServer) \in Number /\ toServer' \in Seq(Number)
            /\ Len(toServer') = Len(toServer) - 1
            /\ \A i \in 1..Len(toServer') : toServer'[i] = toServer[i + 1]
        BY <3>1, <4>1, HeadTailProperties
      <4>5. QED
        BY <4>2, <4>3, <4>4
    <3>3. Head(toServer) \in Number \cup {Disconnect} /\ Awaited(Head(toServer))
      BY <3>2
    <3>4. /\ toClient' \in Seq(Number \cup {Disconnect}) /\ Len(toClient') = Len(toClient) + 1
          /\ \A i \in 1..Len(toClient) : toClient'[i] = toClient[i]
          /\ toClient'[Len(toClient) + 1] = Head(toServer) /\ Len(toClient) \in Nat
      BY <3>1, <3>3, AppendProperties
    <3>5. /\ \A i \in 1..Len(toServer') : Awaited(toServer'[i])
          /\ \A i \in 1..Len(toClient') : toClient'[i] # Disconnect => Awaited(toClient'[i])
      <4>1. \A i \in 1..Len(toServer') : Awaited(toServer'[i])
        BY <3>2
      <4>2. \A i \in 1..Len(toClient') : i \in 1..Len(toClient) \/ i = Len(toClient) + 1
        BY <3>4
      <4>3. QED
        BY <3>3, <3>4, <4>1, <4>2
    <3>6. QED
      BY <3>2, <3>4, <3>5
  <2>2. CASE LoseConnection \/ BeginClose
    <3>1. toServer' = <<>> /\ (toClient' = toClient \/ toClient' = <<>>)
      BY <2>2 DEF LoseConnection, BeginClose
    <3>2. toServer' \in Seq(Number) /\ toClient' \in Seq(Number \cup {Disconnect})
      BY <3>1, FirstPackets, EmptySeq
    <3>3. QED
      BY <3>1, <3>2
  <2>3. CASE JoinReader
    BY <2>3 DEF JoinReader
  <2>4. QED
    BY <2>1, <2>2, <2>3
<1>3. Typed' /\ CallOK'
  BY <1>1, <1>2
<1>4. LoopOK' /\ HeldOK' /\ FoundOK'
  OBVIOUS
<1>5. SentOK'
  BY <1>1, <1>2
<1>6. QED
  BY <1>3, <1>4, <1>5

\* Another client starts afresh (aster_server_client.cpp connect).
LEMMA ReconnectInv == Reconnect => IInv'
<1> SUFFICES ASSUME Reconnect PROVE IInv'
  OBVIOUS
<1>1. calls' = <<>> /\ Call' = 0 /\ toServer' = <<>> /\ toClient' \in {<<>>, <<Disconnect>>}
  BY DEF Reconnect, Call
<1>2. /\ waiters' = {} /\ todo' = {} /\ ready' = {} /\ canceled' = {} /\ handled' = {}
      /\ caller' = "idle" /\ rpc' = "read" /\ packet' = Disconnect /\ gone' = {}
  BY DEF Reconnect
<1>3. Typed'
  <2>1. calls' \in Seq(Command) /\ toServer' \in Seq(Number')
    BY <1>1, EmptySeq
  <2>2. toClient' \in Seq(Number' \cup {Disconnect})
    BY <1>1, FirstPackets
  <2>3. QED
    BY <1>2, <2>1, <2>2
<1>4. CallOK' /\ LoopOK' /\ HeldOK' /\ FoundOK'
  BY <1>2
<1>5. SentOK'
  BY <1>1, <1>2
<1>6. QED
  BY <1>3, <1>4, <1>5 DEF IInv

\* A step that changes nothing.
LEMMA StutterInv == IInv /\ UNCHANGED vars => IInv'
<1> SUFFICES ASSUME IInv, UNCHANGED vars PROVE IInv'
  OBVIOUS
<1> UNCHANGED <<calls, Call, caller, waiters, ready, canceled, handled, rpc, packet, todo, cur, gone,
                toServer, toClient>>
  BY DEF vars, Call
<1>1. Typed' /\ CallOK' /\ LoopOK' /\ HeldOK' /\ SentOK' /\ FoundOK'
  BY DEF IInv
<1>2. QED
  BY <1>1 DEF IInv

-----------------------------------------------------------------------------
\* The invariant holds of every behaviour of the client, whatever the server and
\* the connection do.
THEOREM Invariance == Spec => []IInv
<1>1. Init => IInv
  BY InitInv
<1>2. IInv /\ [Next]_vars => IInv'
  BY BeginInv, CallInv, ReaderInv, OtherInv, ReconnectInv, StutterInv DEF Next
<1>3. QED
  BY <1>1, <1>2, PTL DEF Spec

\* While a call reads an answer in the shared receive buffer, the read thread is
\* held for it, and the answer is one to its command (aster_server_client.cpp
\* getUI, showMenu, tcpHandler).
THEOREM InPlace == Spec => []AnswerInPlace
<1>1. IInv => AnswerInPlace
  <2> SUFFICES ASSUME IInv, caller = "load"
               PROVE  /\ rpc \in Telling /\ cur = Call /\ Call \in waiters
                      /\ packet \in Number /\ calls[packet] = calls[Call]
    BY DEF AnswerInPlace
  <2> USE DEF IInv
  <2>1. Call \in ready \ canceled /\ Call \notin handled
    OBVIOUS
  <2>2. rpc \in Telling /\ cur = Call
    BY <2>1
  <2>3. packet # Disconnect
    BY <2>1, <2>2
  <2>4. QED
    BY <2>2, <2>3
<1>2. QED
  BY <1>1, Invariance, PTL

\* The answer to a command that registers before it is sent never passes by the
\* call that registered (aster_server_client.cpp tcpHandler, getUI).
THEOREM FindsCall == Spec => []AnswerFindsCall
<1>1. IInv => AnswerFindsCall
  BY DEF IInv, AnswerFindsCall
<1>2. QED
  BY <1>1, Invariance, PTL

=============================================================================
