# Verification of the application development kit

TLA+ models of the concurrent core of the kit in `src/source/adk`, the TLC runs that check them
on small instances, and TLAPS proofs for any size. Every definition is translated from the C
sources; `PROJECT.json` maps each one to its lines.

## The system

The kit hosts an application on set-top boxes: `main` starts the runtime, the application thunk
(`app_thunk.c`) brings the subsystems up in order, runs the event loop of the main thread and
tears everything down in reverse. The parts that keep state of their own:

| Component | State | Operations | Threads and failures | What makes it correct |
|---|---|---|---|---|
| thread pool (`runtime/private/thread_pool.c`) | job slots in three lists (free, queued, completion), `busy_counter`, `should_quit` | enqueue (back, front, extended), worker loop, post completion, run completions, drain, shutdown | workers, jobs that enqueue jobs, main thread; one mutex, one condition; TRAP when out of slots | a slot is in one place; jobs start in queue order; after a drain nothing runs; nobody sleeps beside a queued job |
| command and control bus (`cncbus/cncbus.c`) | receiver table and its two hazards, per-receiver queue and hazard bits, free chains, free fragments, reference counts | begin, send, dispatch (one message, flush), connect, disconnect | any number of senders and dispatchers, one connecting thread; no mutex; atomics only; free lists run out | table stable while read, one delivery at a time per receiver, nothing used after disconnect, messages neither lost, duplicated nor reordered, nothing leaks, every call returns |
| application thunk (`app_thunk/app_thunk.c`) | order of subsystems, dispatcher thread of the bus | init, event loop, shutdown | main and dispatcher thread | the dispatcher outlives those who log |
| watchdog (`app_thunk/watchdog.c`) | tick flag, time without a tick | tick, thread loop, start, shutdown | its thread and the main thread; clocks that jump | no trap of a main loop that lives, one of a main loop that hangs |
| log (`log/`) | slow buffer and its hazard, reporter, receivers at the bus | message, receive, init, shutdown | every thread, some of them longer than the log | messages whole, no buffer lost, nobody spins for ever |
| error reporting (`reporting/`) | bounded linked list of events, list of posts on their way, pause until a time | report, flush, pause, retry, free | every thread that logs, main thread; answers 200, 429, errors | the newest events in order, in one place each, pauses kept |
| httpx (`http/private/adk_httpx_*`) | requests, fragments of a pool in five lists | send, pump, tick, response and client free | main and pump thread; libcurl calls back; callbacks refuse; fragments run out | no handle used after it is freed, no fragment lost, bodies whole and in order, every request ends |
| cache (`cache/cache.c`) | files with etag and length, the fetch under way | fetch, get, delete, clear | sequential; connections, writes and the process fail | what is handed out is one whole version; success means cached |
| application launch (`merlin/drivers/minnie/main.c`) | the cached manifest and bundle, retries | launch, fetch, verify, fall back, clean up | sequential, over the cache, launch after launch | only what is signed or was there is loaded; no state of the cache ends it |
| websockets (`http/websockets`) | connection state, message queues | connect, send, receive, close | backend thread | order, no use after close |
| canvas images (`canvas/private/cg_image*`) | load status of an image, animation frames | load, cancel, restart, free | jobs of the thread pool and their completions | freed once, never under a running job |
| renderer (`renderer/private`) | command buffers in a chain, a queue and the streams, two counters per buffer and two of the device, fences of the last frames | write, flush, get and submit a buffer, fence, frame, device flush, execute, retire | main thread, decoding jobs, render thread; one mutex, two conditions; buffers run out | no buffer in two places, commands in order and once, a passed fence means executed commands, frames bounded, every wait ends |
| memory (`runtime/memory_heap.c`, `memory_pool.c`) | blocks and free lists in a region | alloc, free, realloc, walk | callers lock | blocks tile the region, no block twice, no byte of a caller changes |
| manifest, bundle, persona | parsed configuration | load | sequential | formats |
| json deflate, image decoders, ffi, wasm3, platform layer | | | sequential or glue | |

Interactions: every subsystem logs through the bus; the event loop and the metrics send to it;
one dispatcher thread delivers to the log receiver, the event logger and the extensions'
receivers. Canvas, fonts, reporting and cache hand jobs to the thread pools, whose completions
run in the event loop of the main thread. Shutdown drains the pool, tears the canvas down,
reinitialises the log, joins the pump of the http client and the bus dispatcher, and then
disconnects the receivers. The player fetches manifest and bundle through the cache, which uses
httpx. `third-party` code (`extern/`),
samples and generated tables are outside.

The hard behaviours, each at its line, are the hazards of `PROJECT.json`: work that is detached
under a lock and used after it, a status that is old when it is acted upon, wake-ups sent
without the mutex, a reader-writer handshake on two atomics, copies of a table that outlive the
protection they were made under, reference counts dropped by whoever is last, free lists that
run out while somebody waits.

## Plan

1. `ThreadPool` with the abstract `JobService`; `ThreadPoolProofs`. Done.
2. `CncBus` with the abstract `BusService`, `CncBusWeak` for a buffered store, `CncBusProofs`; `CncBusMsg` against `FlatMessage`, `CncBusRouting`. Done.
3. `HttpxPump` with `HttpxPumpProofs`. Done.
4. `ReportingQueue`, `Watchdog`, `MCMonitors` and `MonitorsProofs` over both. Done.
5. `AppLog`: the log over the bus, its callers and the shutdown order of the application;
   `AppLogProofs`. Done.
6. `Cache`, and over it `AppLoad`. Done.
7. `MemoryHeap`, `MemoryPool`; `MCStructures` runs the sequential structures, `StructuresProofs`
   proves about the pool, the cache, the launch and the message. Done.
8. `Renderer`: streams, command buffers and fences; `RendererProofs`. Done.
9. Next: websocket frames and close, the image loads of the canvas over `ThreadPool` and `Renderer`.

Proofs still worth having: those of the heap. Liveness stays with TLC.

## ThreadPool

A list of slots is a sequence; the `next` fields exist only through it. A critical section is
one action, enabled when the mutex is free, unless it waits or reads something the mutex does
not guard: `Acquire`, `TestQuit`, `Dequeue` and `Wait` split the loop head of
`thread_pool_proc`, because `thread_pool_shutdown` writes `should_quit` and signals without the
mutex. `pc[w]` names the place of a worker, `cur[w]` is its local variable `job`, `arg[w]` the
id of the job it was handed. `EnqueueImpl` stands for both enqueue functions (front or back),
`signalling` holds the threads between the unlock and `sb_condition_wake_one`, `SpuriousWake`
is allowed by condition variables. An extended job posts its completion with
`EnqueueCompletion`, after which its body may go on (`ext_posted`) although its slot is no
longer its own. The main thread detaches the completion list (`RunCompletionCallbacks`), calls
the callbacks one by one (`CallCompletion`), appends the batch to the free list (`ReturnBatch`)
and reads the status in another critical section (`StatusOfTick`, `StatusOfDrain`).
`thread_pool_shutdown` is called only when a drain returned, as every caller in the repository
does. Timings, names, thread creation and guard pages are left out; a worker exists from the
start.

`InitialFree` is the list the init loop really links, one slot short.

`JobService` says what a caller sees: accepted jobs start in the order of the queue, each once;
a completion is posted at most once, by its job; completions are called in posting order.

## CncBus

An action is one atomic operation with the thread-local work that follows or precedes it.
`pc[t]` names the place; a sender that is out of chains runs the actions of `cncbus_dispatch`
itself and comes back (`send_dispatch`). `receivers` is the table in the code's descending order
of addresses, `hazard[r]` the set of the bits of its word, `queue[r]` the list from `chain_head`
to `chain_tail`. The critical sections of the free lists, which spin on their own flags and call
nothing, are single steps; the lists are sets, because nobody depends on their order.
`ReleaseReference` and `ReleaseChain` are the two halves of an iteration of
`bus_release_msg_chain`, whose list is `disp[t].msgs`, for dispatchers and for the disconnecting
thread alike. `Connect` and `Disconnect` are the parts before the wait; `CdcStore`, `CdcWait`,
`CdcModify`, `CdcExit...` and `CdcQuiesce` follow the code in order.

Abstractions: a message is one fragment and its number (further fragments are freed with the
first); an address with a mask is the set of receivers it selects, from `Destinations`; addresses
are distinct; `on_msg_recv` makes no call to the bus, which holds for the receivers of the
repository but for the event logger: it logs (`event_logger.c:55`), and so sends a message from
inside its dispatch, with its dispatch bit held. That nested send is not part of this model
(`AppLog` has it, over an abstract bus); one thread connects and disconnects, as the header demands; `next_dispatch_slot` is
kept modulo a common multiple of the table sizes, where a 32 bit counter would wrap one day;
the order of ids is the order in which senders collected their receivers.

`BusService` knows messages, receivers and nothing of chains, hazards or tables: a message
reaches each receiver it is sent to at most once, a box is delivered from its front, a receiver
is missed, and a box dropped, only by a disconnect, which ends when nobody still sends to it.

Memory is sequentially consistent in `CncBus`. The code asks for less: `CncBusWeak` adds the
store buffer of one store, the relaxed one in `bus_wait_enter_cdc_hazard`, and there the
exclusion fails.

## CncBusMsg and CncBusRouting

`CncBusMsg` is one message while it is built and while a receiver reads it: `frags` maps each
fragment to what lies at each place (a field of the message's own, or the offset of the byte
written there), `cur` is the cursor with its fragment, place and offset. `Begin`, `Reserve`,
`Write`, `SetSize`, `Read`, `Seek`, `Deliver` and `Release` are the functions of `cncbus.c:616-835`,
`Reserve` with its failure half way. `Asserted` is what the assertions of `cncbus_msg_seek` ask for
(`:801` and `:832`); a seek that fails one ends in the phase `trapped`. `FlatMessage` is the interface: a sequence of bytes, a size
and an offset; the mapping names each written byte by its flat offset. Where a seek goes astray,
where it fails an assertion and where a size is set below the cursor (see Disagreements) the model
stops at the guards `HeadSeeks`, `EndSeeks` and `Shrinks`, which are FALSE in the run.

`CncBusRouting` is the sorted table of receivers and its parallel table of addresses under
connects and disconnects, the search in it, and `collect_receivers`. Its interleavings are those of
`CncBus`, where addresses are distinct and the selection is a set.

## HttpxPump

A request has its private chain of header fragments and its private body fragment (`chain`,
`active`), the list under `fragments_lock` (`out`) and what the main thread has detached
(`batch`); `free` counts the pool. A critical section is one action. libcurl calls
`network_pump_on_header_received` and `network_pump_on_data_received` in the order of the
request's script, which is a sequence of pieces of one fragment or more, and ends a transfer at any
point, with or without an error. `client_tick` is taken apart where it leaves a lock:
`TickBegin`, `Detach`, `Callback`, `FragmentsFree`, `OnComplete`, `FreeHandle`. The response may be
freed by the owner in between, the client (`ClientFree`, `Joined`) at any tick. `got` is the
history of what the callbacks saw.

## ReportingQueue

The send queue is the linked list of the code, with head, tail and length, whose nodes are named
by their events; the critical sections of `adk_reporting_send_queue.c` are actions, and
`adk_reporting_tick` is taken apart between them. Posts are on their way until they are answered:
accepted, refused for good, or refused with a delay, after which the event is enqueued again. Time
is counted in seconds of width `2 * Half`, of which the code passes some through an `int`. The limit
of the queue is chosen at the start (one is a special case in the code).

## AppLog

`log_message` step by step for a worker, the main thread, the pump of the http client (which is
joined after the log was initialised again) and the dispatcher, on which the event logger logs.
The variables of `statics` are read where the code reads them, so that `log_init`'s ZEROMEM and the
assignments that follow it fall between any two of these reads (`LogZero`, `LogSet`, `LogInit`). `route`
says which of the address and the mask are set: a message of the pump that is sent with the address
but without the mask (`Reaches`) is for nobody, and its buffer goes back. The bus is what
`CncBus` has shown it to be: a queue that is swept as a whole and a pool of buffers.
`app_shutdown_thunk` is the order of the main thread's actions. A thread that dereferences a null
bus, reporter or message is `trapped`, and the process is over. Atomics are ordered as x86 orders
them; the relaxed ones of `log.c` promise less (see Disagreements).

## Watchdog

The clocks are the differences the code takes: `lag` since the thread read its clock, `since` the
sum it compares with the delays, both up to a cap beyond which no test tells values apart. `Load` and
`Store` are two steps, so that a tick between them is overwritten. `Suspend` lets the clock jump
past the threshold. `quiet` is how long main, awake, has not ticked. The delays are those
`watchdog_start` accepts; `WarnsFirst` is what only the default configuration adds, a threshold of at
most the difference of the two delays, without which one turn of the loop can count from below the
warning to the trap.

## Cache and AppLoad

A file is its header (etag, length) and the pieces of its body, each named by the version it belongs
to; a key has a partial and a final file. A fetch is the blocking `adk_httpx_fetch` with the two
callbacks of `cache.c`, one action per callback: the header callback keeps the first status line,
the receive callback opens, writes and renames. `Faults` names what may go wrong, `MaxFaults` how often. A
crash cuts an open file anywhere, its header included.

`AppLoad` extends `Cache` by the thread that launches an application: `Launch`,
`ManifestFetched`, `BundleFetched`, `FetchAgain` are the functions of minnie's `main.c` between two
fetches, with their retries, their fallback on the cached bundle and what they delete. What a file
holds may be of no use: a manifest that cannot be parsed or asks for an interpreter this build has
not (the fault `manifest`), a bundle or a wasm file that cannot be opened (`wasm`); such a launch is `broken`. A manifest signs the
bundle that was released with it. Launches follow each other over the same files.

## MemoryHeap and MemoryPool

`MemoryHeap` is `memory_heap.c` without guard pages: headers are a function of their addresses,
the free list is linked through them, and `heap_alloc`, `heap_realloc` (in place into the next or the
previous free block, or by a move) and `heap_free` are operators from heap to heap, as the case
distinctions of the code are. `bytes` holds who wrote what at each address.
`MemoryPool` computes the layout of a pool from its sizes and alignment, with or without a guard page
per block, and keeps the links of the free list as the code does, `next` always and `prev` only with
guard pages.

`Structures` puts `MemoryPool`, `Cache` and `CncBusMsg` side by side, with the assumptions on their
constants that the proofs use. `MCStructures` runs these three, `MemoryHeap` and `CncBusRouting`, which
share no state, in one instance: the first state chooses which of them is used. `MCMonitors` does the same for
`Watchdog` and `ReportingQueue`, whose fairness it states.

## Renderer

A stream (`render_cmd_stream_t`) has a thread: the default stream the main thread, the stream of an
animated image the job that decodes it, one at a time. `buf` and `last_fence` are its fields,
`cmds[b]`, `submit_counter[b]` and `retire_counter[b]` those of a buffer, `free_cmd_buf_chain` and
`ordered_cmd_buf_que` the lists of the device. A command is its stream and its number. `Write` is
`RENDER_ENSURE_WRITE_CMD_STREAM` (and a mark, a command with its data, an unwind where it does not
fit): it writes, or gets a buffer (`GetBuf`, `WaitBuf`), or submits the full one first. A submission
is two steps, the critical section of `render_submit_cmd_buf` (`Submit`) and what it does after the
unlock (`Count`); `then` is where the caller goes on. Its branch for a buffer without commands, which
goes back into the free chain, is left out: a caller writes what it latched a buffer for, and only a
command that does not fit into an empty buffer makes it submit one, after which the command does not
fit into the next either and the program stops at a VERIFY. `Flush`, `WaitKept` and `TestFence` are the
waits for fences, `Frame` and `EndFrame` are `render_device_frame`, `FlushDevice`, `TestDevice`,
`LockDevice` and `DrainDevice` are `flush_render_device`. The render thread takes a buffer
(`Deque`), executes it command by command (`Execute`), retires it without the mutex (`Retire`) and
frees it with it (`FreeBuf`). `waiting` holds the threads asleep on `retired_signal`, which all
wake together.

A fence is a buffer and a counter, and the model adds the command it stands for (`upto`), so that
`FenceMeansExecuted` can say what passing it promises. `kept` is a fence a resource of the default
stream keeps for any time. Counters wrap at `2 * Half` instead of 2^32 and start one short of it;
`AgeAssumption` keeps fences younger than half the range, as the code does silently.

A flush of the device happens after the thread pool was drained, as both callers in
`app_thunk.c` do: other threads are idle, and submit nothing before it returns.

## Runs

| Run | Instance | Shows |
|---|---|---|
| `thread_pool` | 2 workers, 3 slots of which 2 are linked, 3 jobs of every kind, fair | `SlotConservation`, `DrainedQuiescent`, `CompletionsInJobOrder`, refinement of `JobService`, `JobsAreServed` |
| `cncbus` | 1 sender, 1 dispatcher with both modes, 2 receivers, 2 chains, 2 fragments, 2 messages | `NoUseAfterDisconnect`, `MessagesConserved`, refinement of `BusService` |
| `cncbus_many` | 2 senders, 2 dispatchers, 1 receiver | `ReadersExcludeCdc`, `SerialDelivery` |
| `cncbus_live` | 1 sender, 1 dispatcher, 1 receiver, 2 chains, fair | `QueuedIsDelivered`, `CallsReturn` |
| `cncbus_weak_memory` | 1 of each, store buffer | violation: table read while it is written |
| `structures` | heap of 18 units with 3 users; 108 pool layouts; message of 3 fragments of 4; 4 receivers with 4 addresses, 2 masks; 1 cached resource, 3 versions, both update modes, every fault, 6 of them | `HeapVerifies`, `BytesKept`, `PoolVerifies`, `FreeListSound`, `SendReachesSubnet`, `ReadableIsWhole`, refinement of `FlatMessage` |
| `httpx` | 2 requests, 3 fragments of 1 unit: headers over two fragments, a body over two, fair | `PumpTouchesLiveHandles`, `FragmentsConserved`, `OkMeansWholeBody`, `EveryRequestEnds` |
| `monitors` | watchdog with threshold 2, warning 3, fatal 6; 3 reported events, queues of 1 and 2, delays 0 and 2, 4 seconds; fair | `NoFalseTrap`, `HangIsDetected`, `EventsConserved`, `PauseIsKept`, `EveryEventLeaves` |
| `applog` | a worker, main, the pump, the dispatcher; one message each, one event, 2 buffers, fair | `TextsDoNotMix`, `BuffersConserved`, `LogReturns` |
| `appload` | 3 releases, 6 faults, 1 retry, fair | `SuccessMeansCached`, `LoadsSignedBundle`, `PresentsCachedBundle`, `KeepsStarting` |
| `renderer` | main and a decoding thread, 2 buffers of 2 commands, 2 and 1 commands, counters of 12, fair | `CmdBufsConserved`, `CommandsConserved`, `FenceMeansExecuted`, `FramesBounded`, `CallsReturn` |
| `renderer_flush` | main, 1 buffer, 1 command, fair | violation: a device flush sleeps for ever |

Type invariants are conjuncts of one of these properties where a module has no run for them alone:
`MessagesConserved`, `FragmentsConserved`, `EventsConserved`, `BuffersConserved`, `CmdBufsConserved`,
`HeapVerifies`, `PoolVerifies`, `ImplementsFlatMessage` and `ReadableIsWhole` include theirs; those of
`ThreadPool` and `Watchdog` are proved for themselves.

Why the bounds suffice. In the pool, two linked slots and three jobs make every slot be reused,
the free list run empty while a batch is detached, and the trap be reached; two workers race for
the last job and for the completion list. In the bus, two chains for two messages to two
receivers make the sender run out of chains and dispatch by itself; two receivers make the table
shift, a message be shared and a sender skip a busy receiver; connects and disconnects are
unbounded, so that a receiver leaves with messages in its queue and comes back. Two dispatchers
and two senders with one receiver are the smallest instance in which each pair of threads meets
at each bit. In the http client three fragments are one more than a request holds back, so that
the pump does wait for the main thread and each request can overflow a fragment of either kind. In
the reporting queue three events overflow both limits, also by a retry. In the log two buffers
make a thread trap on a saturated bus, and worker and main want the slow buffer at once while the
pump crosses the reinitialisation. The watchdog's delays keep the order and the distance of the default
ones and leave room for several turns of its loop. The cache's versions are of one and of two
pieces, so that the third repeats the length of the first; six faults outlast all retries of a
launch twice. In the renderer two buffers for two streams make a stream wait for a buffer that
the render thread has, and a buffer go round while a fence of its last trip is kept; two frames
with a command each are pending at once, and the first submission wraps the counters. The heap's
region has room for three blocks and a rest that is too small for one; the sizes leave rests on both sides of the minimum. The pools have none
to four blocks, of sizes below, at and above alignment and page. A message may fill all fragments and
each amount ends before, at and after the end of a fragment.

Deadlock is checked where the system never stops: dispatchers run for ever, and models that end
stutter on purpose there. It is not checked in `httpx`, where the pump may wait for ever while the
client is freed (see Disagreements), in `structures`, where a pool without blocks has no
operation, and in `renderer`, where a device flush may stop the main thread (run
`renderer_flush`).

Symmetry: dispatchers, fragments and chains of the bus and users of the heap, which no definition
tells apart. Runs with liveness use none.

## Fairness

Pool: a worker that contends for the mutex gets it (strong), job bodies and callbacks return, the
event loop ticks, the caller of a drain goes on. New jobs, drains and spurious wake-ups are never
forced.

Bus: a thread spinning on an atomic gets through when its condition holds again and again
(strong), dispatchers dispatch for ever, as `bus_dispatcher_thread_proc` does; nothing forces a
message, a connect or a disconnect. Two assumptions go beyond that. Connects and disconnects
belong to startup and shutdown, so from some time on none begins; without it a sender could
meet the table hazard at every attempt. And attempts that fail because a connect waits do not
overlap for ever: they last a few instructions, or sleep between two (`app_thunk.c:139`), so
that the count of readers returns to zero. A sender that dispatches inside its own read hazard is
not such an attempt (see Disagreements).

Http client: the pump goes on, the owner ticks the client, and libcurl either delivers the next
piece of a transfer or ends it, since every transfer has a timeout (strong, for the pump serves all
of them in turn). No request and no end is forced.

Reporting: the main loop ticks, time passes, posts are answered; a server asks for a retry
only while the bounded time is left. Log: every thread that began a call goes on, a spinning claim
included, and calls are bounded, so that nobody takes the buffer again and again before another;
calls, events and steps of a shutdown in which main may still log are not forced beyond that.
Watchdog: its thread runs, time passes, a shutdown that began goes on; nothing makes the main loop
tick. Renderer: the render thread runs and a call that began goes on; no
call is forced. Launches: the player goes on and is launched again; faults and releases are bounded by the
instance and never forced.

## Proofs

`ListLemmas` holds what the proofs share: what taking, appending, joining, cutting and removing do
to the members of a list without repetition; `Piles`, a set with as many elements as a family of
numbers adds up to, so that "the sum over all requests" is a cardinality; and `CountingUp`,
induction over the numbers stated with a set.

`ThreadPoolProofs` proves, for any finite set of workers, any number of slots and of jobs:

- `TypeCorrect`, `BusyCorrect` (`busy_counter` is the number of workers inside a body, with the
  cardinality lemmas for adding and removing one worker), `DrainCorrect` and `ShutdownAssertion`.
  The drain needs the strengthening `DrainInv`: the status the main thread acts upon is old when it
  acts. What keeps it true is that only the main thread and running bodies enqueue: once the queue
  is empty and the counter, hence the set of working workers, is zero in one critical section, no
  action but the main thread's own enqueue can end that, and the main thread is past it until it
  has returned from the drain. `BusyCountsWorkers` turns the number into the set.
- `SlotsConserved` (`SlotConservation`), from `SlotsInv`: the free list, the queue, the completions
  and the main thread's list repeat no slot and share none, and with the slots that threads hold
  they count all of them. `OwnersMove` is what one thread contributes.
- `CompletionsOrdered` (`CompletionsInJobOrder`), from `LineageInv`: a job whose continuation was
  enqueued is no longer active, so its completion is before the continuation's, wherever both are.
- `ServiceImplemented`: every step is one of `JobService` or changes nothing it knows.
  `EnqueueAccepts`, `DequeueStarts`, `PostPosts`, `CallCalls` and `FreeFinishes` are the five that do;
  `OthersStutter` are the rest.

The assumptions are those of the module: workers are a finite set without the main thread, and
there is at least one slot.

`CncBusProofs` proves, for any finite sets of senders, dispatchers, receivers and chains and any
set of fragments, memory being sequentially consistent and the dispatch slot not wrapping
(`SlotModulus`):

- `ExclusionCorrect`, that is `ReadersExcludeCdc`. It is not inductive: that nobody is inside when
  `read_hazard_count` is seen to be zero needs to know what the count counts. The strengthening
  `ExclusionInv` says that it is the number of threads inside a dispatch plus the number of senders
  inside a send - a sender that dispatches for want of a chain is counted twice - and that the
  hazard stays set from the disconnecting thread's store to its exit. `Weight` is what a thread
  contributes at a place of its code, `CountMoves` shows that the count follows when it moves, and
  `ReaderMoves` and `CdcMoves` reduce each action to its move. `CncBusWeak` shows that the
  assumption on memory is needed.
- `DeliveriesAreSerial` (`SerialDelivery`), `DisconnectedIsUnused` (`NoUseAfterDisconnect`) and
  `ConservesMessages` (`MessagesConserved`), all from `BusInv`, which adds to the exclusion:
  `HazardInv`, that the dispatch bit of a receiver is held by exactly one thread (`Latched`), and the
  receivers a sender has yet to reach are in the table while it holds its hazard; `ChainInv`, that
  every chain has one home (`OneHome`): the free list, a receiver's queue, a dispatcher's detached
  list or a thread's hand; and `FragInv`, that `ref_count` of a message is the number of chains
  that point to it plus the senders that still hold it, that its fragments are not free before, and
  that they are free then: a fragment that is not free is being built or has users, as many as its
  count says (`Kept`).

It also proves `BusImplemented`: the bus implements `BusService`, with a receiver's
queue there being what is detached and not yet delivered followed by what is queued (`Boxed`).
`on_msg_recv` returning is `Deliver`, `collect_receivers` is `Send`, the enqueue into a receiver is
`Reach`, the clearing of a destroyed receiver's bit is `Miss`, the insertion into the table is
`Connect`, the mark in the hazard word is `DisconnectBegins` and the end of the quiescence
`DisconnectEnds`; all else stutters. `LeavingInv` says that only the receiver being disconnected is
marked, and that one not in the table has neither hazards nor messages.


`MonitorsProofs` proves of the watchdog `TypeCorrect` and `TrapIsTrue`, that is `NoFalseTrap`, for all
delays `watchdog_start` accepts: a trap means a silence of the fatal delay less one threshold, always,
and was announced if `WarnsFirst`. The
strengthening has two parts: `CountedIsQuiet`, that what is counted against main, with what the
next turn will add, exceeds the time main was quiet by at most one threshold unless a tick waits to be
seen; and `UnannouncedIsShort`, that under `WarnsFirst` a time that was not announced is short of the warning
at the top of the loop, so that one turn cannot reach the fatal delay.

Of the queue of reports it proves, for any finite set of events and any limit and delays:

- `EventsAreConserved` (`EventsConserved`). `ReportsInv` says that the links spell out the history of
  the queue from `head` on and that of the flushed list from `list` on, each to its end
  (`LinkedFrom`), that the tail is the last of the queue, and that events are in one place; `WalkIs`,
  by counting up, says what the code finds when it follows the links. `EnqueueKeeps` is the step that
  links and unlinks: what it writes belongs to no event of the flushed list.
- `PauseHolds` (`PauseIsKept`), under the hypothesis `MaxTime <= Half`: as long as seconds fit the int
  they pass through, the pause is the latest time a server asked for. Beyond it the property fails,
  as said under the disagreements.

`AppLogProofs` proves `TextsAreWhole` (`TextsDoNotMix`) and `BuffersReturn` (`BuffersConserved`), for any
finite sets of workers and late threads and any bounds. `LogInv` says which thread has the slow buffer
(`LongHolder`): at most one, under the hazard, and a worker or the main thread; that a text at hand
is that of the call (`TextInv`); that workers are out of `log_message` once the main thread has joined
them (`PhaseInv`), which is why the reset of the statics takes the buffer from nobody; and that the
free buffers, those with threads and those queued or being delivered count the pool (`CountInv`).
`OneMoves` reduces a step of one thread to what it does with the buffer.

`StructuresProofs` proves about what one thread uses at a time. Of the pool,
it proves `FreeListIsSound` (`NoBlockTwice` and `PrevIsBack`) for pools of any size, block
size, alignment and header. The invariant says that there is a sequence of blocks which the links
spell out from the head, which repeats none, and whose members are exactly the blocks nobody has
(`IsFreeList`); an allocation drops its first member, a free puts a new one in front.
From the same invariant it proves `PoolAlwaysVerifies` (`PoolVerifies`): blocks are aligned, inside
the pool and apart from each other and from the guard pages (`LayoutIsSound`), the counters are
cardinalities (`CountersAreRight`), and as many links as there are blocks lead to the end
(`LinksEnd`, by counting up along the list).

Of the cache and of launches, for any resources, versions, numbers and kinds of faults and retries:

- `CacheReadsWhole` and `LaunchReadsWhole` (`ReadableIsWhole`, of `Spec` and of `LoadSpec`), with no
  condition on faults. `CacheInv` says that a file is absent, without a header, or a *part* of a
  version (`Part(v, n)`: the header of `v` and its first `n` pieces); that a fetch has written a part
  of the version it receives, with at most as many pieces as it counted, since a write may fail unseen
  (`BodyInv`); and that nothing is written before the headers (`SentInv`). A crash leaves a part of a
  part (`PartIsCut`), so the property follows: the length in the header is that of the whole.
  `LaunchSteps` reduces the actions of a launch to steps of the cache, or to files that are dropped.
- `CacheTellsTheTruth` and `LaunchTellsTheTruth` (`SuccessMeansCached`), under `Mild`: neither failed
  writes nor redirects, and for `Cache` alone only fetches into a partial file. Each of the three breaks
  the property (see the disagreements), so none can be dropped. `MildInv` makes the counts exact: the
  partial file has every piece received, every final file is absent or whole, and a 304 answers for
  the file that is there.
- `LaunchLoadsSigned` (`LoadsSignedBundle`), with no condition on faults. `LaunchInv` ties each place of
  the launch to the resource whose fetch is under way or has returned.
- `LaunchPresentsCached` (`PresentsCachedBundle`), under `Mild`. `PresentInv` follows the bundle that
  was there through the fetches until the end, as long as nothing was released: a whole file is only
  replaced by a whole one (`Moves`), and a manifest of the first release signs it.

Of a message of the bus it proves `MessageIsFlat`: `CncBusMsg` implements `FlatMessage` for all sizes
of fragments and of the fields before the data (`MessageSizes`: `0 < D < F`), all numbers of fragments
and all amounts, with hypotheses that name the three places where the code does not: `HeadSeeksAgree`
(a seek that falls back on the first fragment looks where a write puts the data, `MsgOfs = D`, or
there is none), `~EndSeeks` (no seek fails an assertion) and `~Shrinks`. `MsgInv` says that a cursor's fragment and place in it are those of its
offset, and that the reserved size is that of the fragments; `PlacesSplit` is the division behind it,
`StoreAdds` what a write leaves at every place, `CursorMoves` where it ends, `GrowsEmpty` that new
fragments show nothing.

`HttpxPumpProofs` proves, for any finite set of requests, any scripts of replies and any number and
capacity of fragments:

- `HandlesOutliveTransfers` (`PumpTouchesLiveHandles`). `HandlesInv` says that a request is in at most
  one place on its way through the pump - detached from the client, at curl, reported by curl, at
  the end of its stream (`OnePlace`) -, that a request whose end is published is in none of them
  (`EndedInv`), and what the walk over the handles knows between two of its critical sections
  (`WalkInv`): `sawEnd` was true when it was read, and nothing makes it false.
- `FragmentsAreConserved` (`FragmentsConserved`). `FragInv` says that a request has at most one
  fragment for its body, that a batch is detached only while it is shown, and that the free
  fragments, the batch, those lost and those in use by all requests (a `Piles`) count the pool.
  `FragmentsMove` is the move of one request's share; each action has a lemma that says which.
- `BodiesAreWhole` (`OkMeansWholeBody`). The owner, the callbacks, curl and the aborts may be anywhere
  when a fragment moves, so the invariant is about the whole way of a request's units: those the
  callbacks have seen, the batch that main detached, the list, the chain of headers, the fragment of
  the body and what the call of curl has yet to copy. `Way` says that they are in order, one place
  before the next; `Whole`, that no unit of the body handed over so far is missing as long as the
  owner wants it (`Wanted`: the response is not freed, the transfer not given up); `Seen`, that none
  is missing before one that was seen. Every move is a lemma about `Way` alone (`HeadersFlushed`,
  `UnitsReceived`, `FragmentAdded`, `HeaderCopied`, `BodyFlushed`, `BodyCopied`, `StreamPublished`,
  `ListDetached`, `BatchReturned`, `FragmentShown`). `StreamEndInv` says that a stream whose end is
  published has nothing left in the pump, and that main finds nothing in the list it detaches after
  it has read the flag; `DoneInv`, that curl reports success only after all its calls; `ResultInv`
  carries that to `on_complete`, where `CompleteIsWhole` puts the three together.

`RendererProofs` proves all four safety properties of the renderer for any streams, buffers and
counter widths. `BuffersAreConserved` (`CmdBufsConserved`), `PassedMeansExecuted`
(`FenceMeansExecuted`) and `CommandsAreConserved` (`CommandsConserved`) do not need `AgeAssumption`.
`NextIsCoreStep` reduces the steps to the seven that move a buffer and the quiet ones, which copy
fences at most. The invariant `IInv` is then proved layer by layer: where each buffer is
(`PlacesInv`), that a submitted buffer was submitted exactly once more than it was retired
(`CounterInv`), what the buffers hold (`CommandsInv`), that the commands of a stream are in order
over the buffers and behind those it has executed (`OrderInv`), and `FencesInv`: what a fence stands
for is executed, or its buffer is under way, ends with it and has the counter of the fence. The
last is what wrapping needs: `render_check_fence` compares counters by the sign of their difference,
which alone says nothing of a fence kept for long; but a fence whose commands are not executed
belongs to a buffer that is exactly one behind it (`NotYetPassed`), at whatever value.

`CommandsAreConserved` adds to it that no command is lost: each that is written and not executed is
in a buffer its stream has latched, in the queue or being executed, at a place the renderer has not
come to (`CompleteInv`). `OrderInv` says that those places are in order, `PathOf` that the buffers a
stream may have commands in are ahead of one another as the property lists them.

`FramesAreBounded` (`FramesBounded`) is the theorem that needs `AgeAssumption`: `frame_fences` keeps
a fence whose commands are executed, and that `render_check_fence` still passes it is only true while
its buffer is submitted less than half the range of a counter after it. The streams write fewer
commands than that, and each submission takes one at least: `AmountsInv` bounds the submissions by
the commands written (a `Piles`), and says that what is counted, and what has yet to be, is what is
done and under way. Counters so small compare like numbers (`LessMeans`), a passed fence stays
passed (`PassedStays`), and a flush that finds `done_count` not behind, while nobody has a count to
make (`FlushInv`), finds nothing under way (`NothingLeft`).

Model-checked only: the heap (`HeapVerifies`, `BytesKept`), whose walk and sums are recursive
functions over its blocks, so that a proof would be an induction over data; that a send reaches its
subnet (`SendReachesSubnet`), whose masks are those of `Bitwise`; all liveness, which under fairness
is out of the prover's reach.

## Disagreements

Where the code and what its documents, comments or assertions say part. The first two are kept as
runs; the others were found with variants of the models that name the property that fails, and are
stated here so that the restrictions of the runs above can be judged.

- `cncbus.c:335`: the writer's store of `receivers_hazard` is relaxed and the loads of the count
  follow it; with a store buffer neither side sees the other, and the table moves under a reader
  (`cncbus.c:298` promises that it will not). Run `cncbus_weak_memory`.
- `rmain.c:649`: `async_wait_render_device` compares the counters before it locks the mutex and then
  waits before it compares again: the wake-up of the last buffer may fall in between, and
  `flush_render_device` never returns (`renderer.h:241` promises that it waits until all is
  completed). Run `renderer_flush`.
- `cncbus.c:930`: a sender without a chain dispatches inside its own read hazard; once a connect or
  disconnect waits, every dispatch is busy, and neither returns. Hence as many chains as messages in
  `cncbus_live`. `event_logger.c:55`: the event logger sends from inside a dispatch; without a free chain
  it would wait for those its own dispatch holds. Neither model reaches that.
- `cncbus.c:993`: when the sender drops the last reference the signal is not raised.
- `cncbus.c:526`: "no messages" may be said while a receiver that another dispatcher holds has some.
- `cncbus.c:441`: `next_dispatch_slot` wraps to a negative number, and its remainder indexes before
  the table.
- `cncbus.c:855`: `collect_receivers` stops at the first address above the mask although the table
  is in descending order; a receiver above the mask hides all that follow. `SendReachesSubnet` is
  stated for tables without one.
- `cncbus.c:817`: a seek off the current fragment starts behind the cursor's size instead of the
  message's own fields; a seek back lands among them. `cncbus.c:764`: a size set below the cursor
  fails the assertion at `:744`. `cncbus.c:832`: a seek that walks to the last byte of a fragment short of
  the size of the message fails the assertion there, because the loop at `:821` stops at the end of a
  fragment instead of the beginning of the next (in builds that check assertions; in others reads go
  on from there). Nothing in the repository seeks in a message. Hence `HeadSeeks`, `Shrinks` and `EndSeeks`.
- `thread_pool.c:341`: a completion posted after the list was detached and before the status is
  read is left behind by `thread_pool_drain` (`app_thunk.c:417` says tasks finish).
- `thread_pool.c:256`: the last slot is never linked: the trap at `:55` comes one job early.
- `thread_pool.c:289`: `should_quit` is set and signalled without the mutex; a worker between its
  test and its wait is joined for ever.
- `adk_httpx_network_pump.c:301`: header lines over several fragments that no body follows lose all
  but the last fragment, which also shrinks the pool (`lost` in the model).
- `adk_httpx_network_pump.c:50`: `adk_httpx_client_free` joins a pump that may wait for a fragment
  which only the joining thread gives back.
- `adk_reporting_send_queue.c:116`: seconds pass through `int`; from 2038 on a pause is not kept.
- `log.c:96`: the slow buffer is claimed and released with relaxed atomics, which do not order the
  copy. `log.c:89`: a saturated bus returns no message, which is dereferenced. `log.c:78`: a
  `va_list` is used twice. `app_thunk.c:463`: messages sent after the last sweep are dropped.
  `app_thunk.c:443`: the reporting instance is freed while the pump and the dispatcher may still use it.
- `watchdog.c:36`: a tick between load and store is overwritten; the trap may come one suspend
  threshold before the fatal delay the message names. `NoFalseTrap` states what does hold.
  `watchdog.c:61`: nothing asserts that the threshold is at most the difference of the delays; with a
  larger one the trap may come without the warning (`WarnsFirst`).
- `rmain.c:273`: a submission is counted after the unlock; a buffer of another thread that is
  executed but not yet counted lets `flush_render_device` return early. Its callers drain the pool
  first, hence the guard of `FlushDevice`. `rmain.c:274`: with secondary render threads one wake-up
  may reach a thread that does not serve the ordered queue. `rmain.c:784`: without render threads
  `render_wait_fence` runs the queue on the calling thread, whichever it is.
- `memory_heap.c:37`: the extra header bytes are copied from destination to source; a resize that
  moves loses them. They are not part of the model.
- `memory_pool.c:378`: `memory_pool_walk` has its two cases the wrong way round; nothing calls it.
- `cache.c:155`: after a redirect every piece is skipped and the fetch reports success.
  `cache.c:242`: the result of a write is ignored; a truncated file is renamed into place and its etag keeps
  it there. Hence `appload` runs without these two faults, `structures` with them. `cache.c:430`: a fetch in
  place that was cut off is answered 304 ever after.
- `main.c:558` (minnie): a cached bundle never has the signature of a newer manifest, is deleted, and
  the launch fails, where `:384` says that an older version is presented. Hence
  `PresentsCachedBundle` before the first release. `main.c:589`: a manifest that was fetched and cannot be
  read ends the launch without clearing anything.

## Not modelled

The components listed as such in `PROJECT.json` with their reasons. Within the modelled parts:
timestamps, names, guard pages and the debug guards, whose assertions appear as properties
instead (`ReadersExcludeCdc` for `reader_guard` and `writer_guard`, `SerialDelivery` for
`access_count`).
