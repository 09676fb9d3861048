# A verification project for SDR_new

SDR_new is a software-defined radio receiver: plug-in modules deliver samples, a
front end filters them and hands them to virtual receivers (VFOs), decoders,
recorders, scanners and network peers.  Its numeric code runs on one thread
each; what is hard to get right is everything between the threads: streams
that two workers share, blocks that are stopped, reconfigured and started while
data flows, rings with two cursors, settings saved by a background thread, calls
to a remote server that time out.  This directory models that part in TLA+,
checks it with TLC and proves part of it with TLAPS.

Paths below are relative to the repository; `dsp/` stands for
`core/src/dsp/`, `sp/` for `core/src/signal_path/`.

## 1. Inventory

Every worker thread in the signal path belongs to a *block*; blocks are joined by
*streams*; control operations come mostly from the user-interface thread, but also from
threads of source modules, of servers and of the scanners.  Components of the core, with the state they keep:

| Component | State | Operations | What is hard about it |
|---|---|---|---|
| `dsp::stream` (`dsp/stream.h`) | two buffers, `dataSize`, `canSwap`, `dataReady`, stop flags | `swap`, `read`, `flush`, stop and clear of either end | two mutexes for one hand-over; stops and restarts in the middle of it; notifications sent after unlocking |
| `dsp::block` (`dsp/block.h`, `operator.h`, `processor.h`) | `running`, `tempStopped`, `tempStopDepth`, the worker thread | `start`, `stop`, `tempStop`/`tempStart`, setters between these | nested setters, brackets of `IQFrontEnd` that hold no mutex, a join with the control mutex held, a worker blocked in a stream |
| `dsp::chain` (`dsp/chain.h`) | list of processors, which are enabled, `out` | add, remove, enable, disable, `setInput`, `start`, `stop` | rewiring streams while workers run |
| `SampleFrameBuffer` (`dsp/buffer/frame_buffer.h`) | ring of frames, two cursors, `bypass` | push, take, `flush`, bypass, start, stop | overrun, lost wake-ups, user-interface thread moves a cursor |
| `RingBuffer` (`dsp/buffer/ring_buffer.h`) | samples, two cursors, `readable`, `writable`, `maxLatency` | `write`, `read`, `readAndSkip`, `setMaxLatency`, stop flags | two counts under two mutexes, copies under none |
| `Reshaper` (`dsp/buffer/reshaper.h`) | `keep`, `skip`, a `RingBuffer`, two threads | frames in, frames out, `setKeep`, `setSkip`, start, stop | overlap and skip, a stop that must wake both threads |
| `Splitter` (`dsp/routing/splitter.h`) | bound streams | `run`, `bindStream`, `unbindStream` | one stuck branch blocks all |
| `IQFrontEnd` (`sp/iq_frontend.cpp`) | the above, VFOs by name | `start`, `stop`, `addVFO`, `removeVFO`, `setSampleRate`, ... | streams deleted while frames flow |
| `ConfigManager` (`core/src/config.cpp`) | settings in memory, a file and its backup | `load`, `save`, auto-save, `acquire`, `release` | crash during a write, modification during a save |
| aster client (`source_modules/aster_server_source/src/aster_server_client.*`) | waiters of outstanding calls, receive buffer | calls with an answer, `close`, the read thread | late answers, timeouts, an answer parsed in a shared buffer |
| aster server (`core/src/aster_server.cpp`) | listener, one client, settings | accept, commands, baseband | second client during the set-up of the first |
| networking (`core/src/utils/networking.cpp`) | socket, read and write queues | read, write, `waitForEnd`, `close`, `accept` | lost wake-up in `waitForEnd`, partial sends |
| network sink (`sink_modules/network_sink`) | two listeners, two connections, two writing threads | `startServer`, `stopServer`, start, stop, handlers | connections replaced while others use them, clients that come in during a stop |
| recorder (`misc_modules/recorder`) | pre-record ring, file, `recording`, `isStopping`, restart flags | `start`, `stop`, `restart`, `monoHandler`, `workerInfo` | ring cleared while in use, file opened between two checks, a restart meeting a stop |
| scanner2 (`misc_modules/scanner2`) | worker thread, its state, `running`, `_recording` | `start`, `stop`, worker, `startRecording`, `stopRecording` | two threads start and stop it without a mutex; calibration and recording wait for each other |
| scanner, scanner3, `supervision4` (`misc_modules`) | worker thread, `running` | start, stop, worker | worker clears `running` itself |
| module, sink, source and VFO managers | maps by name, events | register, unregister, create, delete | selection that outlives its object, events under a mutex |
| decoders, DSP arithmetic, hardware sources, user interface | | | numeric, one thread, or a library's |

Interactions: a source module swaps into a stream read by `SampleFrameBuffer`,
then the `chain` (decimation, DC blocking, IQ inversion), then the `Splitter`,
whose branches are the `Reshaper` of the FFT and one VFO each; decoders and sinks
hang off the VFOs.  Control calls enter at `IQFrontEnd`.  `ConfigManager` is
called by everybody.  The clients and servers exchange packets over
`networking`; the network sink serves one client for the audio and one for the
state of the radio.  scanner2 commands the recorder through the module interface
(`CMD_START`, `CMD_STOP`), and the recorder's `workerInfo` thread stops and starts
it again when a file is full.

What makes each correct: a stream loses, repeats and mixes up nothing, whatever
is stopped; a block's parameters never change under its worker and no call
hangs; a chain is one path; rings hand out every sample once, in order and not
while it is overwritten; branches of the splitter stay in step and streams are
not used after their deletion; settings survive a crash; an answer is neither
lost nor overwritten while it is read; a recording is seamless and its file open
exactly while it runs; a search goes on after every signal and leaves no recording
behind; a server that has been stopped serves nobody, and its stop returns.  The list `hazards` of `PROJECT.json` has
the places, one by one.

## 2. Modules

| Module | Models | Built on |
|---|---|---|
| `StreamChannel` | what a stream promises: a channel with one slot | |
| `SampleStream` | `dsp::stream` with both workers and both control threads | refines `StreamChannel` |
| `SampleStreamProofs` | theorems | `SampleStream`, `ProcessorChain` |
| `BlockLifecycle` | `dsp::block` with any number of control threads | streams as in `StreamChannel` |
| `BlockLifecycleProofs` | theorems | `BlockLifecycle`, `RingBuffer`, `Reshaper` |
| `ProcessorChain` | `dsp::chain` | |
| `FrameBuffer` | `SampleFrameBuffer` | |
| `FrameBufferProofs` | theorems | `FrameBuffer`, `FrontEnd` |
| `RingBuffer` | `dsp::buffer::RingBuffer` with its most general callers | |
| `Reshaper`, `MCReshaper` | `Reshaper` | extends `RingBuffer` |
| `FrontEnd` | `IQFrontEnd` around its `Splitter` | streams as in `StreamChannel`, brackets as in `BlockLifecycle` |
| `ConfigManager` | `ConfigManager` with crashes | |
| `ConfigManagerProofs` | theorems | `ConfigManager` |
| `AsterClient` | the aster client, its connection and the server as it sees it | |
| `AsterClientProofs` | theorems | `AsterClient` |
| `Recorder` | the recorder of a channel with its pre-record ring | |
| `RecorderProofs` | theorems | `Recorder` |
| `Search` | scanner2: worker, callers, and the recorder as it sees it | the recorder's interface as in `Recorder` |
| `SearchProofs` | theorems | `Search` |
| `NetworkSink` | the network sink over the connections and listeners of `networking` | |
| `NetworkSinkProofs` | theorems | `NetworkSink` |

The grain is the same everywhere: a step is one critical section, one notification,
one access to shared memory outside a lock, or one call to another component whose
own module takes it apart.  Names of variables are those of the code; where an
action stands for a function its name is the function's.

*SampleStream.*  `swap` is `SwapWait`/`SwapBuffers` (under `swapMtx`), `SetReady`
(under `rdyMtx`), `NotifyReady`; `flush` is `FlushReady`, `FlushSwap`,
`FlushNotify`.  A thread in a wait set has its own control state and any thread
may be woken spuriously.  `wctl` and `rctl` are the control threads of the two
blocks; they set a stop flag, notify, join and clear the flag as `doStop` does.
A frame's samples and its count are stored apart, so that a count could
belong to other samples.

*BlockLifecycle.*  `pc[c]` says where control thread `c` is in `doStart`, `doStop`
or a setter; `owner` is the recursive `ctrlMtx`.  A setter is `Enter` ... `Leave` and may
call another setter of the same block (`Nest`, as `PolyphaseResampler::setRatio` calls
`reset()`), `nest` deep.  `Open` ... `Shut` is the bracket that `IQFrontEnd` puts around
such setters without any mutex; `open` are the threads in one.  `crossed` records that a
call has met another thread in a call or bracket while holding the mutex itself, or has
opened a bracket then: mutual exclusion is gone from there.  `worker` is the
`std::thread`: "none" (not joinable), alive in `read`, `process` or `swap`, or "ended"
(joinable).  The neighbours may fill and empty the two streams or not.

*ProcessorChain.*  An operation `op` goes through a list of processors, `todo`.  For
each it gathers the stream before it and the reader after it (`before`, `after`), and
every call it then makes on a processor or on the consumer is a step of its own, `at`,
because the workers run in between: `RewireAfter`, `SetBlockInput`, `StartBlock` and
`SwitchOn` in `enableBlock`; `StopBlock`, `SwitchOff` and `TellAfter` in
`disableBlock`; `StartNext` and `StopNext` in the loops of `start` and `stop`.
`live` and `input` say which worker reads which stream.  Any number of processors may be
enabled; `astray` records that `blockBefore` has returned the first of several enabled
processors where the last was meant, and is forgotten once all are off.

*FrameBuffer, RingBuffer, Reshaper.*  A condition-variable wait is two steps,
evaluating the predicate and falling asleep, because the code that stops these
threads sets its flags without the mutex of the predicate.  `Reshaper` adds its
two threads to the ring: `Run` writes with `WriteRing`, `Worker` reads and skips with
`ReadRing`.  What is carried over from one frame to the next is divided by ten when the
samples are complex or stereo (`Fades`); `faded` counts how often.

*FrontEnd.*  `op`, `at` and `arg` are the operation in progress and its next
step; `streams`, `outputs` and `todo` are the splitter's.  A VFO is its input stream
and whether its worker runs; VFOs in `Stalling` may stop consuming for ever.

*ConfigManager.*  A setting is a version number.  `OpenX` truncates a file,
`CloseX` makes it readable; a `Crash` may come anywhere.  `wpc` is the auto-save
worker, `pc` the main thread, `using` the threads between `acquire` and
`release`.

*AsterClient.*  `caller` is where the calling thread is in its last call,
`waiters` is `commandAckWaiters`, `ready`, `canceled`, `handled` are the flags
of the waiters, `rpc` the read thread with its loop (`todo`, `cur`) over the map.
A waiter that is inserted during the loop is met by it or not.  `handled()` sets its flag
(`SetHandled`) before it notifies; where the read thread has seen the flag by then, the
waiter is deleted under it (`NotifyFreed`), which nothing bad or the end of the program
("crashed") may follow.

*Recorder.*  `hpc` is monoSink's thread in `monoHandler`, with the index it has
loaded (`idx`) and what it has popped (`temp`); `cell`, `head`, `tail` are the
lock-free ring, whose `push`, `pop` and `clear` are taken apart into their loads and
stores; `armed` and `drained` are `isPreRecord` and `preBufferDrained`.  `cpc[c]`
is where the user (also another module, through `CMD_START` and `CMD_STOP`) or
the `workerInfo` thread is in `start()` and `stop()`.  A block of samples is a number and fills one
cell; the audio path runs all the time, as it does once a stream has been
selected.  For telephony (`SignalInitCtrl`) neither what the ring held nor the block in
hand reaches the file (`HoldBack`), and a file that cannot be opened may have lost its
count (`OpenFails`).

*Search.*  A round of `worker()` is: `running` tested, the state loaded with the
question whether the calibration interval is over (`due`), one handler, a second
look at the interval.  Whether there is a signal and whether a time has elapsed is
a choice.  `cpc[c]` are the callers of `start()` and `stop()`: the menu and the
server's `workerInfo`, which follows the remote button; the grace period between
two of its commands is a choice too.  `rec` is the recorder: off, recording what the
scanner has asked for, or recording on its own account: its menu, a remote command, or its
own restart, which may come after a `CMD_STOP` (`RecorderStarts`); a `CMD_START` that finds
it recording makes that recording the scanner's.  `raced` records that two
calls overlapped, that `stop()` looked for a recording just before the worker
began one, or that automatic levelling was switched on within a round.

*NetworkSink.*  `acc[ch]` is the accept worker of a port in its handler (`accept`,
`swap` of the connection, destruction of the old one, the two halves of
`waitForEnd`, `again`), `talk[ch]` the thread that writes to the client, `ui` and
`at` the user interface in `startServer`, `stopServer` and `doStop`, `held` the
connection it closes.  `life[c]` is the `ConnClass` object of a client: open, its
socket closed, ended (`connectionOpen` false), or destroyed.  The audio handler keeps
`connMtx` from its look at the connection to the return of the write (`Play`).
infoSinkWorker holds nothing: it loads `connInfo` three times in a round (`LoadInfo`), each
load is followed by the test of `connectionOpen` in a step of its own (`OpenInfo`,
`ClosedInfo`), and a call that fails clears the flag, notifies and returns in three
(`fall`).  The first use of a destroyed connection ends the behaviour (`crashed`).  Not counted: descriptors and
bytes, so neither the socket that `close()` leaves open once `connectionOpen` is
false nor the repetition after a partial `send`.

## 3. Runs

Distinct states are those TLC finds.

| Run | States | Question and answer |
|---|---|---|
| `stream` | 5 036 | Writer and reader, each stopped and started at any moment.  Buffers are exclusive and a count belongs to its samples (`BuffersExclusive`), a frame is in one stage of its hand-over (`OneStageAtATime`), the stream is a one-slot channel (`ChannelSafety`), stops return (`StopReturns`), no wake-up is lost (`HandOver`). |
| `block_lifecycle` | 14 758 | Two control threads with nested setters and brackets without the mutex: no worker during a change (`ReconfigExclusive`), no assignment to a joinable thread (`NeverTerminates`), flags and thread agree between calls (`QuietMeansConsistent`), calls return (`CallsReturn`); each until the two threads have met in such a bracket. |
| `chain` | 250 826 | Three processors, up to all of them enabled, switched in any order: one reader per stream at every step (`OneReader`) and one path between operations (`Linear`) until `blockBefore` has passed an enabled processor over; the first reader has the source always (`Linear`). |
| `frame_buffer` | 78 022 | Overruns, flushes, restarts: frames leave in order and once (`InOrder`), the ring holds nothing stale (`BacklogIsNew`), frames move on, and a stop hangs only on a worker that fell asleep (`MovesAndStops`). |
| `reshaper` | 587 314 | The two threads on the ring: copies never meet (`NoSharedCell`), samples in order and once (`Fifo`), frames are windows `keep + skip` apart, divided by ten where they were carried over (`Windows`), input flows although frames exceed the latency and a skip exceeds the ring, and a stop returns or hangs on a thread that fell asleep (`FlowsAndStops`). |
| `front_end` | 230 926 | VFOs come and go while frames flow: only streams that exist are touched (`OnlyLiveStreams`), branches stay in step (`InStep`), every operation returns though a branch is stuck (`OperationsReturn`), frames get through otherwise (`FramesFlow`). |
| `config` | 2 108 | Two users, the worker and a crash at any step of any write: one copy is readable (`OneCopyReadable`), a load recovers the last version saved or the one the session began with (`RecoversKnownVersion`), an owner that saves at exit loses nothing (`ExitSavesAll`), no modification is forgotten (`ChangesAreSaved`). |
| `aster_client` | 256 102 | Timeouts, late answers, a busy server, lost connections, reconnects: an answer stays in the receive buffer while it is read (`AnswerInPlace`), it does not pass by the call that registered for it (`AnswerFindsCall`), calls, the read thread and `close()` end unless the read thread fell asleep while `handled()` was setting its flag, or `handled()` notified a waiter already deleted (`CallsEndOrStrand`). |
| `recorder` | 195 313 | The sink thread, a user and the restarting thread: the file is open exactly while it records (`OpenWhileRecording`); what is kept before a start and what follows is written once, in order and without a gap but for the block in hand, the blocks that a full ring refused, those of a stop and those held back for telephony (`Seamless`); blocks are never withheld for good (`WithheldEnds`). |
| `search` | 225 324 | The worker of scanner2, two callers and a recorder that also starts and stops by itself: no signal holds the search for ever (`SearchGoesOn`), a stopped search leaves nothing behind that it has asked for (`NoOrphan`), the scanner knows of every recording it has asked for (`RecorderKnown`), and the search hangs or terminates only through the races named (`StuckOnlyByRace`). |
| `search_server` | violated | Those races exist: on a server the menu and `workerInfo` both call `start()`, and the second assigns to a joinable thread (`NeverTerminates`, which a comment at `scanner2/src/main.cpp:1750` claims). |
| `network_sink` | 435 830 | Both ports of the network sink, two clients that come, fall silent and go: a stopped server has no accept worker and no open connection (`StoppedMeansQuiet`); the audio handler never uses a destroyed connection, nor does the menu, and without a `stopServer()` none is destroyed that infoSinkWorker writes on or reads from (`UsesLiveConnections`); `stopServer()` returns or hangs for one of two reasons (`StopServerReturns`), a client that leaves makes room for the next (`LeavingIsSeen`). |

Things the models taught that a reader of the code may not expect:

- `AnswerInPlace` only says "an answer to this command".  "The answer to this
  call" does not hold: a late answer to a call that timed out is taken for the
  next one's, and a call made while the read thread still loops over the waiters
  can be told of the answer before.
- `setFrequency` sends before it registers; its acknowledgement can be missed, and
  the caller then waits out the ten seconds.  `AnswerFindsCall` leaves it out.
- `InOrder` ends where bypass is switched: the bypassed frame overtakes the ring.
- `ExitSavesAll` speaks of the owners that save after `disableAutoSave()`; the
  core's own settings are not saved again at exit, and the last second of changes
  is lost.
- Wake-ups are lost in four places, each because a flag is set without the
  mutex of the predicate it belongs to: `stopWorker` of the frame buffer
  (`frame_buffer.h:111`, tested at 80), the stop flags of the ring
  (`ring_buffer.h:188`, tested at 118) and so of the reshaper, `handled()` of the
  aster client, and `connectionOpen` in `waitForEnd` (`networking.cpp:83`).  The
  liveness properties of the four runs name the sleeper as the one exception, and the
  runs reach it.
- With three processors enabled, which decimation, DC blocking and inverted IQ reach
  together (`iq_frontend.cpp:38-41`), `blockBefore` (`chain.h:169`, under a TODO that calls
  it wrong) connects the third to the first, past the second, and two workers read one
  stream.  `OneReader` and `Linear` name that call as their one exception (`astray`), which
  the run reaches; without it both are violated.
- The brackets of `IQFrontEnd` (`iq_frontend.cpp:93` to 113, 341 to 347) hold no mutex, and
  sources call them from their own threads.  Two threads that meet there can change
  parameters under a live worker and assign to a joinable thread.  The four properties of
  `block_lifecycle` name such a meeting as their exception (`crossed`), which the run
  reaches.
- infoSinkWorker of the network sink may use a destroyed connection without any
  `stopServer()`: a client change between the load of `connInfo` (`main.cpp:265`, 283, 286)
  and the test of `connectionOpen` destroys what was loaded, if that had ended already; and
  a call that fails is still inside the connection when it has told the accept worker that
  it may be replaced (`networking.cpp:120` to 125, 168 to 172).  The run ends there; `UsesLiveConnections`
  says what is safe nevertheless.
- `handled()` of the aster client notifies a condition variable of a waiter that the read
  thread may have deleted by then (`aster_server_client.h:35`, `.cpp:203`).
- The backup of the settings is rewritten in place, so it is not "always a working
  version" as `config.cpp:72` has it; `OneCopyReadable` says what does hold.
- `restart()` of the recorder sets `restart_pending` and calls `stop()`, which clears it
  again (`main.cpp:1632`).  The recording goes on nevertheless, because the next block
  finds the closed file still too long and asks for another restart; a stop by the user
  or by scanner2 near the maximum duration can be undone the same way.  No property
  excludes it; in `Search` it is `RecorderStarts`, and the scanner then does not know
  that the recorder records until its next `CMD_START`.
- The pre-record serves the first recording after it has been armed.  When its ring is
  full it keeps the oldest samples (`main.cpp:225`), not the newest as a comment at
  1020 suggests.  `stop()` clears the ring while the handler may be inside it;
  `Seamless` makes no statement from then on (`torn`).
- In scanner2 a frequency on the skip list is received after all: `startRecording`
  sets the state to SEARCHING (`main.cpp:1368`), and `handleSearching` turns that into
  RECEIVING (1060).
- The network sink closes the connection before the listener, so a client can be
  accepted during the stop; `stopServer()` then waits in the listener's join until
  that client leaves.  Stopping the playback waits for a silent client in `send()` or
  `recv()`; the model leaves that unfair rather than naming it.

### Bounds, and why they are enough

- `SampleStream`: two frames.  With two buffers a mix-up needs two contents to be
  visible; frames are not counted, so behaviours are unbounded.  The theorems hold for
  every set.
- `BlockLifecycle`: two callers, as there are the user interface and a source's thread,
  and setters nested three deep, inside a bracket of `IQFrontEnd` or not.  The second level
  is the first on which an inner bracket could restart the worker.  Theorems hold for all.
- `ProcessorChain`: three processors as in `IQFrontEnd`, all of which may be on, two sources.
- `FrameBuffer`: `RingSize = 2` and four frames: the writing cursor laps the reading
  one twice.
- `Reshaper`: a ring of three samples, six samples in frames of up to five, longer than
  both latencies (2, below the ring, and 4, above it); one shape with a skip of four, which the ring
  cannot hold, and one with an overlap of one.  The ring wraps and every predicate is
  false at some time.
- `FrontEnd`: two VFOs, one of which may stall, the FFT, three frames: one delivered,
  one interrupted, one after it.
- `ConfigManager`: three modifications: one saved, one being saved, one in between;
  sessions and crashes are unbounded.
- `AsterClient`: three calls over one connection, as a mix-up needs a late answer,
  its successor, and one more; reconnects are unbounded.
- `Recorder`: a ring of one block, files of two, three blocks: one is kept, one refused
  by the full ring, one in hand, so that a file has a gap and reaches its maximum.
  Two blocks in the ring (195 613 states) show nothing more; starts and stops are
  unbounded.
- `Search`: two callers, as there are two threads that call; nothing is counted.
- `NetworkSink`: two clients, one that is served while the other arrives; a client's name
  is used again once nothing refers to its last connection, so behaviours are
  unbounded.

A deadlock is an error but where the system may really stop: in `reshaper` the
samples run out, in `recorder` the blocks, in `aster_client` a read thread may sleep
for ever; the program that has terminated (`search`) or used a destroyed connection
(`network_sink`) takes no further step.  The properties of those runs speak of
these cases.

### Fairness

A worker thread and a thread inside an operation keep running (weak fairness of
the disjunction of its steps): the operating system schedules them, and nothing
else may disable them.  A mutex that several threads contend for is assumed to be
granted in the end only in `BlockLifecycle` (strong fairness of leaving a bracket,
per depth) and in `Recorder`.  Neighbours, users, peers and the network have no fairness: they may stop
for ever, except where the run's stop properties need the consumer of the output
(`Drain`) or those of healthy branches (`Consume`).  In `ConfigManager` users that
hold the lock release it and, since the worker only *tries* the lock once a
second, `ChangesAreSaved` assumes that users leave it alone in the end.  In
`AsterClient` the ten-second timeout belongs to the calling thread's steps.

In `Recorder` a thread that keeps asking for `recMtx` gets it (strong fairness of
`StartLock`), and samples keep coming.  In `Search` spectra keep coming, and a time that is
compared with a fixed beginning is over at some round (strong fairness of `Tuned` and of
`DwellOver`, whose `firstSignalTime` a signal that comes and goes does not touch).  The
silence begins anew whenever the signal is back, so that only one or the other is fair
(`SilenceOver` or `SignalBack`), and likewise the recorder's analysis is over or has
confirmed the signal (`AkfOver` or `AkfConfirms`).  In `NetworkSink` the
threads run (weak fairness of the user interface's calls, of each accept worker and of
each writing thread), but clients may be silent for ever: that a send or a read
is answered (`Taken`, `Answered`), that a client comes or leaves and that `accept()`
fails has no fairness.

Spurious wake-ups may occur in `SampleStream` and `FrameBuffer`, without fairness.
They are left out of `RingBuffer`, `AsterClient` and `NetworkSink`, where they could
only end a sleep early: a liveness property that relies on one would be worthless.

## 4. Proofs

All theorems hold for every value of the constants; the assumptions are the
modules' `ASSUME`s (a value that means "nobody" or "nothing" is not one of the
others, bounds are numbers).

**`SampleStreamProofs`.**  `Typing`, `Exclusion` (`BuffersExclusive`), `OneStage`
(`OneStageAtATime`) and `Refinement` (`ChannelSafety`: every step is a step of
the one-slot channel or a stutter).  `BuffersExclusive` is not inductive: that
no swap happens under a reader depends on `canSwap`, and that is only cleared and
set in step with the announcement.  The invariant `IInv` adds that a
stopped worker has ended (`Joined`), that a writer about to swap has filled its
buffer (`Filled`), that while the slot is taken buffer and count agree (`SlotOK`),
and that a working reader has been announced a frame (`Announced`).  One lemma
for each of writer, reader and control threads, and the refinement follows the
same split.

`ChainOneReader` and `ChainLinear` are about `ProcessorChain`, for any processors and
sources and however many are enabled.  Between operations `Linear` is a
fact about the wiring; inside one it is broken and restored call by call, and the
invariant says by which stage: every reader is on the path of a set of processors
that is the enabled ones, or these with the one that enters or leaves (`Wiring`), the
workers that run are those of that set as far as the loop has come (`Workers`,
`Progress`).  "On the path" is what it says until `blockBefore` goes `astray`, and from
then on only that a reader with no processor of the set before it reads the source.  `OneReader`
follows in every stage, because two readers with the same nearest processor before
them would be one.  Three lemmas carry the steps: a processor that joins a path
changes the input of its successor only (`JoinIn`), one that leaves hands its
own to it (`LeaveOut`), and readers of a path are apart (`Apart`).  Lists are
compared by the place of a processor in them, so that no induction is needed.  Where
`PassesOver` is false at most one enabled processor comes before the place, so that the
first is also the last.

**`BlockLifecycleProofs`.**  `Typing`, `Reconfiguration` (`ReconfigExclusive`),
`NoTermination`, `Quiescence`.  The invariant says who holds the mutex and who has a
bracket open without it (`MutexOK`), whatever has met whom; and until two threads have met
(`crossed`) that only one is inside at a time (`Single`) and, for each place in a call,
what the thread that got there has established (`CallOK`): that `doStop` runs only with
depth at most one is what makes nested setters safe, and that the depth is `nest`, and one more
inside an open bracket, what makes them safe in a bracket.

`CellsApart` (`NoSharedCell`) and `InOrderOnce` (`Fifo`) are about the ring with its most
general callers, for every size, latency and length of calls.  `readable`
and `writable` are changed one after the other under different mutexes, so that their sum is not
constant; the invariant says what each is in terms of the samples in the ring and of how
far each thread has come (`Sums`), that a batch is within the count it was taken from, which only the other
thread changes and only upwards (`WriterOK`, `ReaderOK`), and that the cells between
the cursors hold the next samples (`Contents`).  The modulus is taken out
first: lemmas say that cells less than `Size` apart differ, and what a step of a cursor
does to its cell.

`FramesAreWindows` (`Windows`), `ReshapedApart` and `ReshapedInOrder` are about the
reshaper, for every shape.  Its steps are those of the ring or leave the ring alone, so the
ring's invariant carries over.  The rest says where the current read began (`Base`),
that the buffer holds consecutive samples from there as far as the read
has come (`ReadOK`), what is carried over between reads (`RestOK`), and which places have
been divided by ten (`FadeOK`).

**`ConfigManagerProofs`.**  `Typing`, `Readability` (`OneCopyReadable`), `ExitSave`
(`ExitSavesAll`), `Recovery` (`RecoversKnownVersion`, an action property).  The
invariant says who holds the lock, also for the save after the worker was joined
(`LockOK`), how long the worker lives (`WorkerOK`), when each file may be
damaged (`FilesOK`: the backup only while the file is readable and in
memory) and which version each file holds (`VersionsOK`).  Crashes at any
step are included.

**`AsterClientProofs`.**  `InPlace` (`AnswerInPlace`) and `FindsCall`
(`AnswerFindsCall`).  The invariant says that a waiter that was told and is not handled
holds the read thread (`HeldOK`), that the loop only meets waiters of the packet
and cancels them before it tells them of a disconnect (`LoopOK`), that the call in
progress is not handled yet (`CallOK`), and that a command on its way has
its waiter in the map, or told already (`SentOK`, `FoundOK`).  The packets on
their way are sequences of any length; the library's facts about `Head`, `Tail` and
`Append` are cited.

**`FrameBufferProofs`.**  `Backlogged` (`BacklogIsNew`) and `Ordered` (`InOrder`, an
action property), for every size of the ring.  Two lemmas take the modulus out of the
cursors (`WrapIs`, `Arithmetic`), two say what a push and a take do to the
distance between them (`PushCursor`, `TakeCursor`).  The invariant says, as
long as bypass is not switched, that what is between the cursors ascends, is older
than a frame not yet pushed and newer than what has been sent or is about to be, and
that only one of the two threads sends (`OnePath`).

`LiveStreams` (`OnlyLiveStreams`) and `KeepsStep` (`InStep`) are about `FrontEnd`, for any
set of VFOs.  The splitter's list and the set of outputs that `doStop()`
stops are kept apart in the code; that they are one set without repetition is the first
part of the invariant (`Bound`), the second that an operation takes a stream out or in
only while the worker is gone (`CallOK`).  While the worker goes through the list, what
it has left is the end of it (`Serving`); the streams before that point carry the frame in
hand and the others the one before (`Waiting`), apart from what was cut short when
the worker last ended.

**`RecorderProofs`.**  `FileFollowsFlag` (`OpenWhileRecording`), for rings and files of
every size.  That only one thread is inside `stop()` rests on the exchange of
`isStopping`, that only one is inside `start()` on `recMtx`; the invariant says what each
place in either has established and that a `start()` that has opened a file meets no
`stop()` that would close it, because `recording` is not set yet.

`SeamlessStart` (`Seamless`) needs a description of the lock-free ring at every step
of `push`, `pop` and `clear`: until one of them meets a `clear` (`torn`), the cells from
`tail` to `head` hold the blocks that were kept, in order, what has been popped
continues the file, and the only place where the file may skip blocks is the change from the
ring to the block in hand.

**`SearchProofs`.**  `AlwaysKnown` (`RecorderKnown`), `LeavesNothing` (`NoOrphan`),
`StuckNeedsRace` (`StuckOnlyByRace`), for any number of callers and whatever the
recorder starts and stops by itself.  The first needs
that a worker that is not joinable has ended.  The others follow from what holds as long
as nothing has raced (`Unraced`): one caller at a time is inside (`Alone`), a worker
that `stop()` has left behind will not begin a recording (`StopOK`), a worker that
records neither searches nor is about to calibrate (`RecOK`), and one that
searches has not found the interval over (`DueOK`).

**`NetworkSinkProofs`.**  `Quiet` (`StoppedMeansQuiet`) and `LiveConnections`
(`UsesLiveConnections`), for any number of clients.  The invariant says that a worker
ends only when its listener does not listen (`WorkerEnds`), that the connection of a
channel exists (`OwnConn`) and is open only while the worker watches it (`Watched`), and
that the audio handler keeps under `connMtx` to the connection it has found
(`AudioKeeps`).  For infoSinkWorker, which holds no mutex, the argument is that before the
first `stopServer()` nobody but itself ends a connection of its channel: what it has
loaded and found open is therefore the current one, and stays it until one of its own calls
fails (`NeverStopped`, `InfoCalls`).

Each safety invariant and action property of the passing runs is stated by a theorem.
Only model-checked are the liveness properties, which need fairness and `ENABLED` and are
outside the prover, and the violation of `search_server`.  Lists and sequences of any
length occur in the theorems; nothing about them is proved by induction, which the
prover cannot apply here: a list is described by its places and a step by what it does to
each place.

## 5. Not modelled

- Samples as numbers: filters, demodulators, FFTs, resampling.
- The user interface, other than as the thread that calls; drivers and sockets
  other than as neighbours that deliver, block or fail.
- The recorder's IQ modes, its AKF analysis (`start()` no longer begins one, but
  `CMD_START_AKF` and `workerInfo` still set its state) with its second file, and its
  destructor; scanner2's lists, statistics and ARM mode; the network sink's
  UDP mode, which the constructor never selects, its stereo handler, which differs in
  the buffer only, and two threads of `ConnClass` for asynchronous calls, which wait
  for `close()` and do nothing.
- Data races on C++ containers and on the JSON tree (settings read without
  `acquire()`, `commandAckWaiters` changed by two threads): a damaged container has
  no meaningful model.  Their sequentially consistent interleavings are modelled.
- What follows once two threads have met in an unlocked bracket of `IQFrontEnd`: the model
  goes on (`crossed`), but two increments of `tempStopDepth` in one instant, which lose one,
  and two threads that join one worker are left out.
- The components of `PROJECT.json` marked `not_modelled`, each with its reason.

## 6. Plan

The order was: the hand-over between two threads (`SampleStream`), the life of a
thread (`BlockLifecycle`), then what is built from them towards the user (chain,
buffers, front end), then what must survive a crash or a peer (`ConfigManager`,
`AsterClient`), then the modules around the signal path with threads of their own
(`Recorder`, `Search`, `NetworkSink`).  Next, in this order:

1. `AsterServer`: listener, first read and reset of a new client, composed with
   `AsterClient`; the sdrpp server has the same shape.
2. `ScannerWorker`: the older scanner, whose worker ends by itself, so that `stop()`
   returns without the join and the next `start()` assigns to a joinable thread;
   `scanner3` and the start and stop of `supervision4` on the same module.
3. The decimator switched while frames flow: `IQFrontEnd::setInput` and
   `setDecimation` in `FrontEnd`, and what is left behind in the stream that is
   switched out.
4. `Managers`: sources and sinks unregistered while selected, module instances,
   events raised under a mutex.
5. `remote_control`: a text protocol with several threads per peer.
6. `sink::RingBuffer`'s own threads on `RingBuffer`.

Proofs to come: those of the modules above, with their invariants checked on a run
first.  Deeper properties
replace the plainer ones as they are found, so that the set of runs stays small
enough to repeat after every change of the code.
