--------------------------- MODULE ProcessorChain ---------------------------
(***************************************************************************)
(* dsp::chain<T>: an ordered list of processors between a source stream    *)
(* and one consumer, each of which can be switched in and out while the    *)
(* chain runs.  One control thread calls the operations; every call they   *)
(* make on a processor or on the consumer (onOutputChange) is a step,      *)
(* because the worker threads of the processors read their streams in      *)
(* between.                                                                *)
(***************************************************************************)
EXTENDS Naturals, Sequences, FiniteSets, SequencesExt

CONSTANTS Block,        \* the processors
          Source,       \* the streams that setInput may be given
          Consumer      \* the reader of the chain's out (IQFrontEnd: the splitter)

ASSUME ChainAssumption == /\ Block \cap Source = {} /\ Source # {}
                          /\ Consumer \notin Block \cup Source

\* Every processor has one output stream; it is written as the processor.
Stream == Block \cup Source

VARIABLES in,           \* _in
          links,        \* the processors in the chain, in order
          on,           \* states: the processors that are enabled
          out,          \* the stream handed to the consumer
          running,
          input,        \* which stream each processor and the consumer read
          live,         \* the processors whose worker runs
          op, todo,     \* the operation in progress, the processors it has not come to
          at, arg,      \* in enableBlock or disableBlock: the next call, and block (or none)
          before, after,    \* what they gathered: a stream, and a reader
          astray        \* history: blockBefore has passed over an enabled processor

wiring    == <<out, input>>
call      == <<op, todo, at, arg, before, after>>
chainVars == <<in, links, on, wiring, running, live, call, astray>>

ChainInit == /\ in \in Source
             /\ links = <<>> /\ on = {} /\ running = FALSE /\ live = {}
             /\ out = in
             /\ input = [r \in Block \cup {Consumer} |-> in]
             /\ op = "none" /\ todo = <<>> /\ at = "ready"
             /\ arg = Consumer /\ before = in /\ after = Consumer
             /\ astray = FALSE

-----------------------------------------------------------------------------
Position(b) == CHOOSE i \in DOMAIN links : links[i] = b

\* The first enabled processor at the places from..to of the list.
FirstEnabled(from, to, none) ==
    LET places == {i \in from..to : links[i] \in on}
    IN  IF places = {} THEN none ELSE links[Min(places)]

\* blockBefore: the loop returns at the first enabled processor of the chain.
Before(b) == FirstEnabled(1, Position(b) - 1, in)
After(b)  == FirstEnabled(Position(b) + 1, Len(links), Consumer)
First     == FirstEnabled(1, Len(links), Consumer)

\* With two or more enabled ones before b, blockBefore's is not the last of them.
PassesOver(b) == \E c, d \in on \ {b} : Position(c) < Position(d) /\ Position(d) < Position(b)

\* setInput of a processor, or out = s and onOutputChange(out).
Tell(r, s) == /\ input' = [input EXCEPT ![r] = s]
              /\ out' = IF r = Consumer THEN s ELSE out

-----------------------------------------------------------------------------
(* The operations: each goes through a list of processors.                 *)

Begin(o, blocks) == /\ op = "none"
                    /\ op' = o /\ todo' = blocks
                    /\ UNCHANGED <<at, arg, before, after, astray>>

\* A processor that is added enabled is added before the consumer exists, which
\* is then given the out that results (IQFrontEnd::init): the same as telling it.
AddBlock(b, enabled) == /\ b \notin ToSet(links)
                        /\ enabled => ~running
                        /\ links' = Append(links, b)
                        /\ IF enabled THEN Begin("enable", <<b>>) ELSE op = "none" /\ UNCHANGED <<call, astray>>
                        /\ UNCHANGED <<in, on, wiring, running, live>>

RemoveBlock(b) == /\ b \in ToSet(links)
                  /\ Begin("remove", <<b>>)
                  /\ UNCHANGED <<in, links, on, wiring, running, live>>

EnableBlock(b) == /\ b \in ToSet(links) \ on
                  /\ Begin("enable", <<b>>)
                  /\ UNCHANGED <<in, links, on, wiring, running, live>>

DisableBlock(b) == /\ b \in ToSet(links) \cap on
                   /\ Begin("disable", <<b>>)
                   /\ UNCHANGED <<in, links, on, wiring, running, live>>

EnableAllBlocks == /\ on # ToSet(links)
                   /\ Begin("enable", links)
                   /\ UNCHANGED <<in, links, on, wiring, running, live>>

DisableAllBlocks == /\ on # {}
                    /\ Begin("disable", links)
                    /\ UNCHANGED <<in, links, on, wiring, running, live>>

Start == /\ ~running
         /\ Begin("start", links)
         /\ UNCHANGED <<in, links, on, wiring, running, live>>

Stop == /\ running
        /\ Begin("stop", links)
        /\ UNCHANGED <<in, links, on, wiring, running, live>>

\* setInput: only the first enabled processor is told; without one the consumer is.
SetInput(s) == /\ s # in /\ op = "none"
               /\ in' = s
               /\ op' = "setInput" /\ at' = "tell" /\ before' = s /\ after' = First
               /\ UNCHANGED <<links, on, wiring, running, live, todo, arg, astray>>

-----------------------------------------------------------------------------
(* enableBlock and disableBlock                                            *)

TakeUp == /\ at = "ready" /\ todo # <<>>
          /\ arg' = Head(todo) /\ todo' = Tail(todo)

\* Mutant: the reader behind the new processor is not told.
GatherOnly == /\ op = "enable" /\ TakeUp
              /\ IF Head(todo) \in on
                   THEN UNCHANGED <<at, before, after, astray>>
                   ELSE /\ at' = "input"
                        /\ before' = Before(Head(todo)) /\ after' = After(Head(todo))
                        /\ astray' = (astray \/ PassesOver(Head(todo)))
              /\ UNCHANGED <<in, links, on, wiring, running, live, op>>

Gather == /\ op = "enable" /\ TakeUp
          /\ IF Head(todo) \in on
               THEN UNCHANGED <<at, before, after, astray>>
               ELSE /\ at' = "rewire"
                    /\ before' = Before(Head(todo)) /\ after' = After(Head(todo))
                    /\ astray' = (astray \/ PassesOver(Head(todo)))
          /\ UNCHANGED <<in, links, on, wiring, running, live, op>>

RewireAfter == /\ at = "rewire" /\ at' = "input"
               /\ Tell(after, arg)
               /\ UNCHANGED <<in, links, on, running, live, op, todo, arg, before, after, astray>>

SetBlockInput == /\ at = "input" /\ at' = IF running THEN "start" ELSE "on"
                 /\ Tell(arg, before)
                 /\ UNCHANGED <<in, links, on, running, live, op, todo, arg, before, after, astray>>

StartBlock == /\ at = "start" /\ at' = "on"
              /\ live' = live \cup {arg}
              /\ UNCHANGED <<in, links, on, wiring, running, op, todo, arg, before, after, astray>>

SwitchOn == /\ at = "on" /\ at' = "ready"
            /\ on' = on \cup {arg}
            /\ UNCHANGED <<in, links, wiring, running, live, op, todo, arg, before, after, astray>>

ComeTo == /\ op \in {"disable", "remove"} /\ TakeUp
          /\ at' = IF Head(todo) \in on THEN "stop" ELSE "ready"
          /\ UNCHANGED <<in, links, on, wiring, running, live, op, before, after, astray>>

StopBlock == /\ at = "stop" /\ at' = "off"
             /\ live' = live \ {arg}
             /\ UNCHANGED <<in, links, on, wiring, running, op, todo, arg, before, after, astray>>

\* Mutant: what comes after is connected to the source.
SwitchOffToSource == /\ at = "off" /\ at' = "tell"
                     /\ on' = on \ {arg}
                     /\ before' = in /\ after' = After(arg)
                     /\ astray' = (astray \/ PassesOver(arg))
                     /\ UNCHANGED <<in, links, wiring, running, live, op, todo, arg>>

SwitchOff == /\ at = "off" /\ at' = "tell"
             /\ on' = on \ {arg}
             /\ before' = Before(arg) /\ after' = After(arg)
             /\ astray' = (astray \/ PassesOver(arg))
             /\ UNCHANGED <<in, links, wiring, running, live, op, todo, arg>>

TellAfter == /\ at = "tell" /\ at' = "ready"
             /\ Tell(after, before)
             /\ UNCHANGED <<in, links, on, running, live, op, todo, arg, before, after, astray>>

-----------------------------------------------------------------------------
(* The loops of start() and stop(), and the end of each operation.         *)

StartNext == /\ op = "start" /\ TakeUp
             /\ live' = IF Head(todo) \in on THEN live \cup {Head(todo)} ELSE live
             /\ UNCHANGED <<in, links, on, wiring, running, op, at, before, after, astray>>

StopNext == /\ op = "stop" /\ TakeUp
            /\ live' = IF Head(todo) \in on THEN live \ {Head(todo)} ELSE live
            /\ UNCHANGED <<in, links, on, wiring, running, op, at, before, after, astray>>

Return == /\ op # "none" /\ at = "ready" /\ todo = <<>>
          /\ op' = "none"
          /\ running' = CASE op = "start" -> TRUE [] op = "stop" -> FALSE [] OTHER -> running
          /\ links' = IF op = "remove" THEN RemoveAt(links, Position(arg)) ELSE links
          /\ arg' = Consumer /\ before' = in /\ after' = Consumer
          /\ astray' = (astray /\ on # {})
          /\ UNCHANGED <<in, on, wiring, live, todo, at>>

ChainNext ==
    \/ \E b \in Block, enabled \in BOOLEAN : AddBlock(b, enabled)
    \/ \E b \in Block : RemoveBlock(b) \/ EnableBlock(b) \/ DisableBlock(b)
    \/ EnableAllBlocks \/ DisableAllBlocks \/ Start \/ Stop
    \/ \E s \in Source : SetInput(s)
    \/ Gather \/ RewireAfter \/ SetBlockInput \/ StartBlock \/ SwitchOn
    \/ ComeTo \/ StopBlock \/ SwitchOff \/ TellAfter
    \/ StartNext \/ StopNext \/ Return

ChainSpec == ChainInit /\ [][ChainNext]_chainVars

-----------------------------------------------------------------------------
(* Properties.                                                             *)

\* A stream carries one reader (SampleStream has one): as long as blockBefore has
\* passed nobody over since the last time all were off, at every step of every
\* operation at most one live processor or the consumer reads each stream
\* (chain.h enableBlock, disableBlock, setInput).
OneReader ==
    ~astray => \A r, q \in live \cup {Consumer} : r # q => input[r] # input[q]

\* The processors of set that come before reader r in the list; the consumer
\* comes last.
Earlier(set, r) == IF r = Consumer THEN set ELSE {b \in set : Position(b) < Position(r)}

\* Stream s comes from the last of them, or from the source if there are none.
Nearest(set, r, s) == IF Earlier(set, r) = {} THEN s = in
                      ELSE s \in Earlier(set, r) /\ Earlier(set, r) \subseteq Earlier(set, s) \cup {s}

\* Between operations the first reader reads the source, however many processors
\* are enabled; and as long as blockBefore has passed nobody over since the last
\* time all were off, they form one path in the order of the list: each
\* reads the enabled processor just before it, and the consumer reads out
\* (chain.h blockBefore, blockAfter, setInput).
Linear ==
    op = "none" => /\ out = input[Consumer]
                   /\ input[First] = in
                   /\ ~astray => \A r \in on \cup {Consumer} : Nearest(on, r, input[r])

=============================================================================
