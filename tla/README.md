# A TLA+ model of veSAL

veSAL is a storage acceleration library: an application hands it buffers to compress,
decompress, encrypt, hash, copy or checksum, and veSAL runs the operation on an accelerator
(Intel QAT, Kunpeng KAE, Intel DSA) or in software. This directory models the library, its
tools and its performance programs, checks the models with TLC on small instances and proves the
most important properties with TLAPS for every instance.

## 1. Inventory

| Component | State | Operations | What makes it hard | What must hold |
|---|---|---|---|---|
| QAT codec engine (`codec/qat/qat_codec_engine`, `qat_ha`) | request ids, two slot pools, timers, buffered results, ring count, HA error window | submit, driver callback, poll, timeout, HA fallback, close | late callbacks after a timeout, slots reused, a device given up with requests inside, a failed submission that triggers HA | each request answered once and in order; results and buffers never mixed up; ring limit |
| QAT cypher channel (`cypher/qat_cypher_channel`) | ids, slots, timers, result ring, sessions | add and remove session, submit, callback, poll, timeout, close | as the codec engine, plus sessions that go while requests are under way | as the codec engine; what the hardware uses stays alive |
| KAE channel (`codec/kae`, `common/req_ring_queue.h`) | ring of results, context slots | submit, callback, poll, close | two sessions completing in different orders | each request answered once and in order |
| Dedicated, software and shared channels (`codec/qat/*channel*`, `codec/sw`, `cypher/sw*`) | results kept for Poll, a reused decompression context | synchronous and asynchronous calls, poll, close | synchronous calls between asynchronous ones, failures that leave a context half-way | calls do not influence each other |
| Shared mode (`qat_poller_worker`, `qat_poller`, `qat_poller_manager`) | MPSC queues, worker map, reference counts, thread state | schedule, loop, drain, get and return worker, shutdown | user threads against the poller thread, shutdown against queued tasks, failed submissions merged into results in order | each request called back once and in order; workers live as long as they are used; calls return |
| MPSC queue (`common/mpsc_queue.h`) | linked nodes, head, tail, size | push (three atomic steps), pop, empty | a producer between its exchange and its link | FIFO, nothing lost, no freed node used |
| Scheduler (`common/scheduler`) | task heap, status map, running flag | add, complete, start, stop, the thread's loop | notification between check and wait, completion while a task runs | Stop ends; a completed task does not start again; tasks run |
| Timers (`common/timer_manager`) | doubly linked list of deadlines | add, remove, fire, clear | callbacks that run while the list is walked, nodes reused at once by another list | the list is the sequence of pending timers |
| Memory (`common/chunk_pool`, `object_pool.h`, `memory_pool_helper`) | blocks, chunks, per-thread caches, address tables | get, put, recycle, thread exit; register, translate | blocks freed by another thread, caches adopted, failures part-way, stale translations | blocks have one owner; chunks are freed once; a translation is the system's |
| QAT units and buffers (`common/qat`, `qat_handle`) | reference counts, black list, sessions, buffer lists | grab, fail over, put back; map, copy, release | fallback while others use a device, failures part-way | counts equal the users; DMA memory is given back once |
| Data flow (`data_flow`, `dsa`, `sw`) | lists of request objects, timers, quotas of work queues | submit, poll, close; dispatch to a work queue | requests that expire and complete later, objects reused, a quota shared by threads | each request answered once, in order where promised; quotas exact |
| Library lifecycle (`common/vesal.cc`, `codec.cc`, `cypher.cc`) | the global objects | Init, Uninit | each stage may fail, the clean-up too | all or nothing; a retry is possible |
| Error simulation (`err_simulation`, `uds_listener`, `tools/`) | errors set on units, a listening thread | inject, take, hang; connect, read, stop | clients that write in pieces or die, stop against a blocked thread | errors as asked; messages whole; Stop returns |
| DSA configuration (`dsa-uio-config`) | devices and queues of two processes | enable, take, give back | processes that die and restart | a queue is handed out once |
| Stub drivers (`dummy_driver`) | function pointers | load, call | partly loaded libraries | only loaded functions are called |
| C interface (`c_api`) | handles, flags | options, init, create, submit, poll, destroy | conversions, copies that live shorter than the request | as the C++ calls |
| zstd helper (`codec/zstd_helper`) | one buffer, one channel | produce sequences, close | hardware that writes after a timeout | the buffer is held while the hardware may write |
| Tools and performance programs (`perf/`) | slots, windows, crash records, totals | request loops, draining, reports | callbacks after giving up, signals | contexts outlive their requests; reports are complete |
| Functions: size classes, formats, checksums, configuration, sequences | – | – | scaled arithmetic, boundaries | equal to a reference definition |

## 2. Plan

The order was: the QAT codec engine, because every codec request passes it and its tests cannot
control the hardware's timing; what runs around it (queue, worker, pollers, scheduler); the other
channels; memory, units and life cycle; tools and the C interface. All of this is done.

What a next step could add: proofs for the memory pools (`MemoryAccounted`) and the units
(`UnitsExact`); the queue under weak memory orders.

Modules meant for proofs are written for it: constants with named assumptions, one action per
operation, invariants as conjunctions of named parts, no recursive operators, and a list as a set
where its order is that of the requests' numbers.

## 3. The modules

How the parts fit together: an application starts the library (`Lifecycle`) and creates channels,
from C through `CApi`. A *dedicated* QAT channel (`DedicatedChannel`) forwards to its own engine
(`QatEngine`), used by one thread. A *shared* QAT channel (`SharedMode`) pushes its requests
through an `MpscQueue` to a worker (`PollerWorker`), whose poller thread drives an engine for all
channels with equal options. Engines take a hardware instance and sessions from `QatUnits` and
their DMA memory from `QatBuffer`, which stands on `ChunkPool` and `AddressTable`. KAE channels
(`KaeChannel`), cypher channels (`CypherChannel`), software channels (`SwChannels`) and data flow
channels (`DataFlow`, on queues from `DsaUioConfig`) talk to their devices directly. Deadlines
are kept by `TimerManager`, small objects by `ObjectPool`; the `Scheduler` runs periodic tasks for
all of them. `ErrSimulation` and `UdsListener` let a tool inject errors from outside.

Components are composed by what they promise. `PollerWorker` uses the queue as the FIFO queue that
`MpscQueue` is proved to implement, and the engine as the channel that `QatEngine` is proved to
implement (plus its liveness, which is model-checked). `SharedMode` uses workers as `PollerWorker`
describes them; `DedicatedChannel`, `DataReplay` and `QatLz4Simple` stand on `AsyncChannel`'s
promise. Definitions that start with the comment `Mutant:` are deliberately wrong variants of the
definition that follows them; they show that the property they break depends on that code.

### QatEngine, AsyncChannel

*State*: the fields of `QatCodecEngine` under their names without the trailing underscore;
`meta`, `cb_pool` and `cb_ctx` are the slots and the contexts by address, `bufs` the buffer
cache, `ring` the contexts in the QAT instance, `retired` the contexts that a device given up by
HA (high availability: falling back to another device) may still access, `error_num` the error
window. `received`, `timed_out`, `src_freed` and `dst_freed` are histories.

*Actions*: `SubmitOk`, `PrepareFails` and `SubmitFails` are the outcomes of
`SubmitAsyncRequest`. `PollStart`, `PollInstanceReturns`, `RequestTimeout`, `TimeoutsHandled`,
`FreeMemTimeout`, `PollPops` and `ScanPopped` are the parts of `Poll` in their order, `pc` says
where the thread is, and `Callback` runs inside. `DropInflightReq` and `Reinit` are `HandleHa`.
`CloseStart`, `CloseSucceeds` and `CloseFails` are `Close`. `PollFatal` is a `Poll` of a fatal
engine. Timers fire in the order of their ids, at a moment that is not determined. `CloseSucceeds`
destroys the contexts of retired devices too and leaves `retired` as it is, because nothing stops
those devices; `CloseFails` may also be a failure of the driver.

*Abstracted*: contents of buffers (a result carries the id of the request whose output it is),
status codes by the class HA puts them in, the error window by a count that may expire.

*Abstract specification*: `AsyncChannel` accepts requests and delivers them once each and in
order; the mapping is `accepted <- next_req_id - 1`, `delivered <-` the ids in `received`.

### CypherChannel

The slots and timers of the engine, results in a ring whose places are reserved at submission, and
sessions that are added and removed (`RemoveSession` and `Close` work through `todo`, one session a
step, and can give up half-way). The parts of `Poll` are steps as in `QatEngine`. A result nobody
wrote, an IV buffer that is missing and a slot that is reused too early would end in `undefined`.
The hardware completes the requests of an instance in order, as its rings do. `timers` is a set:
timers have one length and are added in the order of the ids, so the list is the set in that order.
The channel refines `AsyncChannel` too.

### KaeChannel

The ring of results, the contexts taken round robin and the requests in the device, which
completes them in any order. A submission while the ring is full of results that nobody polled goes
on as in the code: `NewReq` returns -1, Ok is returned, the context may be that of a request in the
device, and a callback with the number -1 writes before the ring. `overrun` records that this has
happened; finding 7 is about it. A refused submission leaves its user's context in the slot, which
matters in the same case only.

### DedicatedChannel, SwChannels

`DedicatedChannel` is a thread that mixes asynchronous calls, synchronous ones (a submission and
Polls for one result) and Poll, above an engine that behaves as `AsyncChannel` and whose Poll may
fail; `user_cb` gets what Poll hands out. `SwChannels` has the software codec channel with its list of results and its reused LZ4
context, which remembers an unfinished frame, and the software cypher channel.

### MpscQueue, FifoQueue

Each atomic access of `Push`, `Pop` and `Empty` is a step; memory orders are taken as
sequentially consistent. Nodes are numbered in the order of the exchanges, `freed` are the
deleted ones, `size` wraps at `SizeMod`. `FifoQueue` has atomic operations and records what the
consumer was told; the queue refines it with `Push` taking effect at the exchange.

### Scheduler

The heap is a set of tasks with the time left, `pc` the thread. What runs under `tasks_mutex_`
is one step; the test of `running_`, the wait and the notifications are steps of their own,
which is what `StopReturns` is about. `Clear` takes no lock; the library calls it after `Stop`, when
nobody else may use it, or not at all when QAT cannot be stopped (`LeaveTasks`).
`SpuriousWakeup` and `Tick` are the environment.

### PollerWorker

`ScheduleCheck` and `SchedulePush` are the two halves of `Schedule`; `LoopOnce`, `DrainOne`,
`DrainEnds`, `SubmitAccepted`, `SubmitRejected`, `ProcessFailed`, `Poll`, `MergeResult` and
`FailedEnds` are `LoopOnce`, `DrainTasks` and `PollingAndMerge`; `Uninit` and `UninitLoop` are
`Uninit`, which runs `LoopOnce` until nothing is unfinished.

### SharedMode

Channels with their threads, `QatPollerManager` with its mutex held while it waits for a
poller's answer, the pollers with their task queues and their maps of workers, addresses of
workers that can be reused, and `Reset`. Requests of a channel are counted. `Uninit` of a worker
holds its poller until the worker's requests are called back; `EngineFatal` is an engine that will not
answer (finding 3), and `stuck` the workers this has happened to. While a poller hangs there, and for a
call whose task came behind `kShutdown`, `SharedLive` promises nothing.

### DataFlow, DsaDescriptors

Per channel: the lists `cached_resource`, `queue` and `expired_queue` of request objects, the
pending timers and what the device does with each object (`hw`). Shared: `size` of each work
queue. The lists are sets: `queue_` and the timers are only appended to, so their order is that of
the requests' numbers (`Before`, `FirstOf`), and of the other two lists the order does not matter.
`SubmitDsa` is the choice of the work queue and the `fetch_add`, `DsaAccepted` and
`DsaBusy` what follows; other threads come in between. `Poll(c, max_num, due)` handles the
results and then lets the first `due` timers fire, as the code does. `Close` ends in
`"undefined"` when it removes a timer that has fired. `DsaDescriptors` extends the module by
`BuildMoveCtx` and `BuildCrcCtx`, the sequences of descriptors `DsaCtxFactory` writes. Addresses are
reduced to "overlaps or not".

### TimerManager, ObjectPool, ChunkPool

`TimerManager` is the doubly linked list pointer by pointer, for two managers of a thread whose
nodes come from one pool and of which one's callback adds timers to the other. The loops of
HandleTimeout and ClearAndGetUserArg take a step per timer; no other call begins meanwhile, but the
clock goes on. `ObjectPool` is the
thread's pool of small objects with its caches of objects and chunks, and with objects that are
returned after the thread's pool is gone. `ChunkPool` is the shared pool: a thread cuts chunks into
blocks of one class, other threads give blocks back through the owner's queue (linking and counting
are two steps), chunks return to the centre above a threshold, and the cache of a thread that exits
waits for an adopter.

### AddressTable, QatBuffer, QatUnits

`AddressTable` is the pool's preallocation and reset with every failure part-way, and the table of
physical addresses with its copies per thread; a page is mapped to a frame no mapping had before, so
a stale translation shows. `GetPhysAddrBound` is a function checked against the mapping. `QatBuffer`
is the cache of buffer lists, the mapping of a source without its header and footer, the copies and
the release, with allocations that may fail at any point. `QatUnits` is who holds which hardware
instance, the choice of the least busy device, failover, the black list, and sessions per unit. A
failover gives up the old unit, tries new ones one at a time and returns the discarded ones in steps of
their own, each of which is a section of the code under the manager's mutex.

### Lifecycle, CApi

`Lifecycle` has `Init` and `Uninit`, each one step under the code's mutex, as a composition of
stages of which any may fail; the failed `Init` runs the same `UninitImpl`, which may itself fail.
`regions` are those a failed `Preallocate` leaves in a pool that is not initialised.
`CApi` is a correct C program: it fills in options with C's numbers, starts the library, creates,
uses and destroys channels; conversions of options, the section name's copy and the temporary list
of blocks are modelled by what they do, and each of the twelve flags is carried both ways. The factories behind it refuse what the engines refuse.

### ErrSimulation, UdsListener, DsaUioConfig, DummyDriver

`ErrSimulation` goes from the tool's flags over the packed message to the errors that the threads
of a unit get, by number or for a time. `UdsListener` has its thread, its owner and clients that
write in pieces or die; the kernel's sockets are external. `DsaUioConfig` has two processes, the
tool that enables devices and the library that takes their queues, which may die and restart.
`DummyDriver` has the groups of functions the stubs look up, the flags derived from them, and the
calls the library makes.

### ZstdHelper, Conversions

`ZstdHelper` is the life of the helper's buffer and channel around each block, and of a helper that is
used on after a `Close` that failed. `Conversions` has
the pure functions: size classes, the concurrency in the QAT configuration, the quota list, frame
headers with their XxHash and footers, the CRC of a frame put together from its parts (a CRC of 6
bits instead of 32; the table of powers of x for 32 bits, its literals in `ChecksumTable`, is checked
entry by entry), the copy of part of a source, the sequences of a zstd block and the pieces of a C call. Each is
applied to every input of a bounded set and compared with a reference definition.

### DataReplay, QatLz4Simple, PerfLoops

`DataReplay` is the tool that replays recorded requests, per file or merged, with its table of
crash records that a signal handler reads entry by entry while the other threads go on; two threads
may be in the handler. `QatLz4Simple` is the demo of shared
channels: threads, callbacks on the poller's thread, windows on the threads' stacks. `PerfLoops` has
the request loops of the performance programs and the chunks they cut from huge pages.

## 4. The runs

Parts that share no state and need no composition are checked together: `MCThreads`, `MCChannels`
and `MCSystem` have a variable `part`, fixed by the initial state, that says which component the
behaviour is one of; the variables of the others rest. This is the disjoint sum of the components'
state graphs, so each property is checked exactly as in a run of its own.

| Run | What it shows |
|---|---|
| `qat_engine_ha` | bookkeeping (`InductiveInvariant`), `EachRequestOnceInOrder`, `ResultIsOwn`, `HardwareBuffersUntouched`, refinement of `AsyncChannel`, `EveryRequestAnswered` with HA |
| `data_flow` | objects, quotas and timers (`ObjectsExact`), `AnsweredOnce`, `DescriptorsCorrect`, `EveryRequestAnswered` |
| `threads` | worker: `WorkerSafe`, `WorkerLive`; scheduler: `SchedulerSafe`, `CompletedNeverStarts`, `EveryTaskRuns`; shared mode: `SharedSafe`, `SharedLive` |
| `channels` | KAE: `KaeSafe`, `EveryRequestAnswered`; cypher: `CypherSafe`, `CypherIsChannel`, `CypherAnswers`; listener: `MessagesIntact`, `StopReturns` |
| `system` | queue: `InductiveInvariant`, `QuiescentSize`, `FifoSpec`, `PopReturns`; timers: `TimersExact`; memory: `MemoryAccounted`, `DmaExact`; `UnitsExact`; library: `AllOrNothing`; `ErrorsAsAsked`; `QueuesAccounted`; `StubCallsLoaded`; channels and C interface: `CallsExact`; tools: `RequestsOutlive`, `ReportsExact`; functions: `ConversionsExact` |
| `qat_engine_deleters`, `scheduler_stop`, `poller_worker_uninit`, `data_flow_close`, `zstd_helper`, `library_retry`, `kae_order` | findings 1 to 7 |

### Bounds

* `qat_engine_ha`, `_deleters`: 2 requests in the device, 2 slots, 2 buffer pairs, 1 spare device,
  3 requests (`_deleters`: 4). A slot is used a second time while a request of its first use can be
  in the hardware, timed out or in a retired device; HA succeeds once and fails afterwards.
* `data_flow`: 2 channels (2 and 1 requests), 2 request objects each, 2 work queues with quota 1,
  3 strategies. A thread overshoots the quota and is seen by the other; the first request fills the
  internal batch of 7 exactly.
* `threads`: 2 users with 2 tasks each and room for 2 requests in the engine, so that accepted and
  rejected submissions alternate; 2 scheduled tasks with intervals 1 and 3, so that a new one
  becomes the earliest while the thread waits; 3 channels, two with equal options, on 2 pollers
  with 3 addresses, so that an address returns on another poller.
* `channels`: a KAE ring of 4 and 6 requests, so that places and contexts are used again and the ring
  can be full; a cypher channel
  with 2 requests in the hardware, 5 requests and 2 sessions, so that slots and ring are reused after
  timeouts; 2 clients with messages of 3 bytes, both of which hold the bytes of the ending.
* `system`, queue: 3 producers, 4 pushes, 4 answers, `size_t` of 3 bits: two unlinked nodes lie
  behind each other, and the counter wraps. The instances of the other parts are in `MCSystem`, each
  with a comment; they have at least two of whatever competes (threads, handles, processes, workers,
  page sizes) and one resource less than would make every call succeed.

`CHECK_DEADLOCK FALSE` is used everywhere: the numbers of requests are bounded, and a closed
channel, a stopped scheduler and an exited poller stop for good. Symmetry is used for the buffers of
`qat_engine_deleters`, where no liveness is checked.

### Fairness

* `QatEngine`: a call that has begun ends (weak); the user polls again and again (strong,
  because other calls come in between); the clock advances, so a timer is not short of its
  deadline at every Poll (strong). The hardware owes nothing.
* `CypherChannel`: as `QatEngine`; in addition `PollInstance` does not fail for ever (strong), which
  is an assumption about the device that no code enforces,
  because a failing one makes Poll return before it looks at timers, and `Close` and
  `RemoveSession`, once begun, end.
* `KaeChannel`: the user polls and the device completes every request. The channel has no
  timeouts, so nothing can be promised without the latter.
* `UdsListener`: its thread runs, and a client that has connected writes on or dies (a client that
  does neither blocks the thread in `read`, see section 7).
* `MpscQueue`: a producer inside `Push` is scheduled again, and so is the consumer. `Push` has
  no lock and no loop, so this is only the fairness of the operating system.
* `Scheduler`: its thread and threads inside `Stop` and `AddPeriodicTask` run, time passes.
  Nobody has to call anything and no wakeup is spurious.
* `PollerWorker`: the poller's thread loops (`QatPoller::Run`), and an engine polled again and
  again answers, which `qat_engine_ha` shows; a fatal engine without HA is exempt.
* `SharedMode`: the pollers' threads run, waiting threads go on when their answer is there, and
  requests in a worker whose engine answers are called back (`WorkerLive`).
* `DataFlow`: the user polls again and again, also between submissions, and time passes; a
  Submit that has begun ends. The device owes nothing.

The remaining modules have safety properties only and assume no fairness.

## 5. The proofs

For every value of the constants that satisfies the named assumptions:

| Module | Theorems | Assumed |
|---|---|---|
| `QatEngineProofs` | `Bookkeeping`, `TypeCorrect`, `OnceInOrder`, `OwnResult`, `BuffersUntouched`, `WithinLimits`, and `ImplementsChannel`, the refinement of `AsyncChannel` | at least as many slots as requests in the device, at least one; any number of buffers, spare devices and requests; HA on or off |
| `ConcurrencyProofs` | the queue: `ListInOrder`, `NeverUsesFreed`, `SizeExact` (the counter wraps and is still exact when nobody is in `Push`), and `ImplementsFifo`, the refinement of `FifoQueue`; the scheduler: `SchedulerBookkeeping`, `TasksInStep`, and the action property `CompletedStaysOff` | any producers, any width of the counter; the scheduler's `ConstantsOK`: intervals are natural numbers; any number of tasks |
| `CypherChannelProofs` | `CypherBookkeeping`, `CypherAlwaysSafe`, and `CypherImplementsChannel`, the refinement of `AsyncChannel` | `ConstantsOK`: at least as many slots as requests in the instance, slots and ring not empty |
| `DataFlowProofs` | `ObjectsAlwaysExact`, `AnsweredExactly` | finitely many channels, a work queue with a quota; any options, strategies and requests |
| `ServiceProofs` | timers: `TimersStayExact`; listener: `ListenerStaysIntact`; error simulation: `ErrorsStayAsAsked`; life cycle: `LibraryStaysWhole` | each component's `ConstantsOK`: nullptr is no node and timeouts are natural numbers; messages have the expected length; units are named by numbers and the codes of result errors are not those with a meaning of their own. Any number of nodes, clients, units and ticks; of the life cycle nothing is assumed |
| `SharedModeProofs` | `SharedBookkeeping`, `WorkersFound` | `ConstantsOK`: finitely many channels with any options, a null pointer is no address, a free mutex has no holder, there is a poller; with and without `Reset` |
| `MCThreads` | the worker: `WorkerBookkeeping`, `WorkerInOrder`; the run: `WorkerStaysSafe`, `SharedStaysSafe` | any number of users and tasks, any positive batch size and engine size (`SizeAssumption`, `BoundAssumption`), with HA or without |
| `MCChannels` | the KAE channel: `RingBookkeeping`, `ResultsInOrder`; the run: `KaeStaysSafe`, `CypherStaysSafe`, `CypherKeepsPromise` | any size of the ring, any number of requests, any order of completions |

*From components to runs.* `MCThreads` and `MCChannels` compose components whose theorems are proved
in modules of their own. The theorems "of the run" say that the composed specification, the one TLC
checks, keeps the promise of the worker, the shared mode, the KAE and the cypher channel. They instantiate the component's proof module with the run's
variables and constants: a step of the composition is a step of the component or leaves its variables
alone, and the component's theorem does the rest. The constants an instance fixes are checked against
the component's `ConstantsOK` there. Fairness is a conjunct of its own in these specifications
(`ThreadsFairness`, `ChannelsFairness`), because safety does not use it. The worker and the KAE
channel are the components these two modules extend; their proofs come first in the module, before
the instances.

*The engine's inductive invariant.* `EachRequestOnceInOrder` alone is not inductive: a callback
completes "the request in the slot of this id", so one needs that a slot is valid exactly for
the request with a timer (`SlotOwnership`). That two requests in the device never share a slot
follows from `InflightWindow`: what is in the device are the ids `next_recv_req_id ..
next_req_id - 1`, no more than there are slots, and ids closer together than the number of slots
have different remainders (`SlotsDistinct`). The window in turn needs the counters: `in_qat_num`
is never below the number of contexts in the ring, also while callbacks have been counted and not
yet subtracted. `BufferOwnership` says that until `Close` a context owns buffers exactly while a
device may access them or its submission is unwound. There is one lemma per action or group of actions, and
`NextPreserves` puts them together. The properties follow from the invariant, and the refinement
from `OnceInOrder` and the fact that a Poll only appends to `received`.

*The queue's inductive invariant.* `QueueInOrder` numbers the nodes between `tail_` and `head_`;
`Links` says that each is linked to the next unless exactly one producer is about to do it;
`ConsumerReads` that what the consumer has read is still true when it acts on it.

*The KAE channel's.* `RingInvariant` says of every request between the head of the ring and its end
that its place holds its own result, or, while the device still has it, nothing newer than the
result of an earlier round (`RingExact`). This holds until a submission meets a full ring; only the
count of the device's requests is claimed beyond that. Places of different requests differ as long as there are
at most as many as the ring is long (`PlacesDistinct`, from the uniqueness of division with
remainder). A poll takes the longest finished prefix, and removing it keeps what is said of the rest.

*The cypher channel's.* `CypherSafe` says that what the hardware works on stays alive and that each
result is the request's own. `HardwareInOrder` identifies what is in the instance: the last
`in_qat_num` ids, in order, each with a context that holds buffers and an open session.
`SlotsExact` ties the slots to those ids and says that a context is in the pool until its request is
answered and not afterwards, which is why a late callback after a timeout cannot reach the slot's
next user. `PendingExactlyTimed` says that a request has a timer exactly until its place in the
ring holds its result, so each is answered by its callback or by its timeout and never by both.
`PhasesFit` carries what `Close` has done so far, and the balance of buffers. The refinement
follows because what was handed out is then the sequence of ids from the first on (`HandedExactly`).

*The data flow's.* `Invariant` says of each channel that every object is in exactly one of the lists
or with the Submit under way, that cached objects are idle in the device, that exactly the queued
objects that have not expired have timers, and that the accepted requests are shared out between
results, waiting objects and what `Close` threw away. `QuotaExact` counts the objects of all channels
on a work queue, together with the threads between `fetch_add` and the answer of the device; each
action changes that set by one element or not at all. A Poll of an ordered channel takes the longest
finished prefix of the queue, so results stay in order and what remains is younger.

*The scheduler's.* A task with a status is in the heap or runs, and not both (`Placed`); what
`CompleteTask` has returned for is not on (`CompletedOff`), and the thread starts only what is on.
`PhasesFit` relates the thread to `Start` and `Stop`.

*The timers'.* `Books` says of each manager that its links, both ways, are the sequence of timers
added and neither removed nor fired (`Links`), that no node is in a list twice, in both lists or in
the pool as well, and that deadlines grow along the list. While a HandleTimeout runs its list is
"open": the new head still points back at a node that was returned, and the tail of an emptied list
is stale. That no call other than the callback's `AddTimer` to the other manager meets an open list
is why the end of HandleTimeout repairs it in time. The growing deadlines give that looking at heads
is enough. The lemmas say, field by field, what adding, unlinking and resetting a node does to a
list it is in and to one it is not in.

*The listener's.* `ReadsInOrder`: what ReadFd has in its buffer is what the client wrote first, and
only the connection being read has been read from; so the first `ExpectedMsgLen` bytes are that
client's message. *The error simulation's.* `SetAsAsked`: an error that is set is the one asked for
last and is not used up; the count is what was asked for less what was given. *The life cycle's* adds
`EnginesOwned` to `AllOrNothing` and `NothingDangles`: an `Uninit` that returns early, because there
is no resource manager, leaves no engine running. Each stage of `Init` and of `UninitImpl` has a
lemma on what it leaves.

*The shared mode's.* Reference counts are only exact together with who waits for what:
`OneCallAtATime` says that a task to get or return a worker belongs to the thread that holds the
manager's mutex, and that there is no second one; `HoldersReach` that a channel with a worker finds
it under its option on the poller the map names, so that its return is never refused;
`MapFollows` that map and workers differ at most in the worker being got or returned. A count of 1 at
a return means that the returning channel is the only holder (a set of one element), so no open
channel loses its worker. After a poller has exited what is claimed are the types, the mutex and that
an accepted request is still in a living worker: no poller exits before the requests of its workers are
called back.

*The worker's.* `CallbacksInOrder` needs to know which number each waiting task has. `TasksInOrder`
says that `task_buffer` and the queue continue the pushed tasks after `req_id`; `NumbersPlaced` that
the numbers from `expected_req_id` to `req_id` are spread over results, engine and failed tasks, each
of them increasing, none twice, the results before the engine. So when the next number is not that
of the first failed task, it is that of the first result (`ResultIsNext`, the code's
`VESAL_DCHECK(matched)`). `Placed` states this of any three sequences, with a lemma for each way the
thread moves a task, and the step lemmas use it.

*Only model-checked*:

* all liveness: fairness and `ENABLED` are outside of the prover;
* `DescriptorsCorrect` and `ConversionsExact`: they are about what functions on sequences compute
  (flattening, filtering, recursion), and induction over data is outside of the prover too;
* `UnitsExact` and `QueuesAccounted`: what they count goes through a recursive function and a
  sorted sequence;
* the other properties of `MCSystem` (`MemoryAccounted`, `DmaExact`, `StubCallsLoaded`, `CallsExact`,
  `RequestsOutlive`, `ReportsExact`): no proof of them is attempted.

`MCSystem` reaches the recursive operators of `Conversions`, so what is proved of the queue, the
timers, the error simulation and the life cycle is proved of the components' specifications, not of
the composition; the same holds for the scheduler in `MCThreads` and the listener in `MCChannels`,
whose parts of those runs are the components' specifications step for step. The run evaluates their assumptions for the values TLC uses.

## 6. Findings

Each is the counterexample of a run that is expected to fail.

1. `qat_engine_deleters`: the memory of a timed-out request is remembered by an `IOVector` whose
   block pointer leads into the slot, which a later request overwrites; the deleters of that
   request's blocks are called (`qat_codec_engine.cc:112`, `io_vector.h:38`).
2. `scheduler_stop`: `Stop` notifies without the mutex; the wakeup can fall between the thread's
   test and its wait, and with an empty heap `join` does not return (`scheduler.cc:85`).
3. `poller_worker_uninit`: without HA a fatal engine never answers what it holds, and `Uninit`
   loops for ever on the poller's thread (`qat_poller_worker.cc:83`).
4. `data_flow_close`: `Close` removes a timer that has fired (`data_flow_channel_impl.cc:255`,
   `timer_manager.h:55`).
5. `zstd_helper`: after a block that was answered by a timeout the helper's only buffer is reused,
   decoded from and given back, although the hardware may still write to it
   (`zstd_helper_impl.cc:216`, `status.h:105`).
6. `library_retry`: a failed `Init` has removed the logger; when the next `Init` fails in
   `InitLogging`, its clean-up logs through the null logger (`log_setting.cc:162`, `vesal.h:80`).
7. `kae_order`: the limit counts the requests in the device and not the results nobody polled; with the
   ring full `NewReq` returns -1 and a result is never handed out (`kae_codec_channel.cc:274`,
   `codec.h:468`).

## 7. Observations

Behaviour met while modelling that no run is devoted to. Where a property is named in brackets, the
module states it and it does not hold: added to a configuration that runs the module's `Spec` with the
instance of `MCSystem` (`MCChannels` for the cypher channel), TLC shows a behaviour that violates it.

* *Engine*. When `PollInstance` fails without triggering HA, `Poll` returns before it shows the
  popped errors to HA (`qat_codec_engine.cc:263`). Callbacks that run inside `Close` are not
  subtracted from `in_qat_num_` when `Close` then fails, which costs room in the ring. `Close`
  drops results that were not polled and the memory of timed-out requests (`:304`, `:305`), and
  destroys buffers that a device given up by HA may still access (`:307`).
  `CopySrcData` copies each further block to the start of the destination (`qat_codec_engine.h:456`;
  [`CopiesAll`]).
* *HA*. Fallback is triggered by the `vesal_qat_ha_trigger_error_num`-th error (`qat_ha.h:109`),
  the flag's description says "more than this number" (`qat_ha.cc:40`).
* *Units*. `GetQatDeviceInfos` reads without the mutex and lists ids that are not set yet. A handle's
  `Uninit` deletes its discarded sessions even when closing them failed.
* *Buffers*. After an `Init` that failed part-way, `Clear` meets a `VESAL_CHECK` that does not hold
  ([`ChecksHold`], [`DataFreedBeforeMeta`], `qat_buffer.cc:65`).
* *Configuration*. The concurrency may be taken from a section whose name does not match
  (`qat_util.cc:136`, [`SectionOnly`]).
* *Cypher*. When the decrypt session cannot be initialised after the encrypt one was, its memory is
  freed without `cpaCySymRemoveSession`. A failing `PollInstance` makes Poll call `user_cb` for
  results nobody wrote (`qat_cypher_channel.cc:553`), and as long as it fails no timeout is handled.
  A replaced context has no IV pointer (`:641`, comment at `:178`; [`IvInDmaMemory`]). The timer that frees the memory
  of a timed-out request copies a vector that points into the reused slot, as in finding 1 (`:167`).
* *Dedicated channel*. A synchronous call made while asynchronous requests are outstanding returns
  the oldest result ([`SyncOwnResult`], `codec.h:435`), and `user_cb` is called for synchronous
  requests too ([`UserCbOnlyAsync`], `codec.h:129`). The KAE channel does the same.
* *Software channels*. A second `Close` frees the decompression context again; `Close` drops results
  that were not polled; allocations of libdeflate are not tested. The cypher's `Poll` is always 0,
  because the submission returns the result. Zlib levels 3 to 5 write the "fast" flag in the header
  while the software compresses at zlib's default level.
* *Scheduler*. `CompleteTask` returns while the task may be running (`scheduler.cc:101`).
* *Worker*. A task pushed after `Uninit` has drained the queue is never called back
  (`qat_poller_worker.cc:104`).
* *Shared mode*. `GetOrNewWorker` or `ReturnWorker` during a shutdown can wait for ever, with the
  manager's mutex held, when the task comes behind `kShutdown` (`qat_poller.cc:90`). A worker that
  hangs in `Uninit` (finding 3) does the same to them.
  `QatPollerManager::Reset` is not called by the library. `Close` of a shared channel returns Ok with
  requests in flight (`qat_codec_shared_channel.cc:168`). `operator<` of the options ignores
  `device_id` (`codec.cc:119`), so channels that ask for different devices share a worker.
* *KAE*. The cypher channel, with the same ring as in finding 7, tests for both kinds of requests.
  `Close` returns Ok with requests in flight.
* *Stub drivers*. `g_driver_load_kae_ok` is never read, so the KAE codec calls null pointers when
  `libkaezip.so` is missing (`kae_codec.h:38`). A driver with the cypher functions only leaves
  `icp_sal_userStart` unset, and `cpaDcSetCrcControlData` and `icp_sal_cnv_simulate_error` are
  optional and not tested (the latter is not called by the library).
* *Data flow*. `Poll` ignores its `timeout`. The software engine appends to `crc_output` without
  clearing it. Calls after `Close` use freed objects. All quotas zero make the round robin
  divide by zero, and an unknown NUMA node (-1) is used as an index.
* *DSA configuration*. `rc = -errno` may be 0 after a call that does not set `errno`, so a queue of a
  device that is not enabled is used ([`HandedOutEnabled`]). `InitDsaConfig` sets its flag first, so a
  failed initialisation is never repeated. A device id that is negative as a `short` ends in a search
  of a null list. Commands that time out are taken as successful. The tool's test whether a device is
  busy and its reset are two steps, of which the model makes one; without `lsof` no device is busy.
* *Memory*. A block may be pushed to the queue of a cache that is being destroyed
  ([`QueueOutlivesPush`]). The comment at `memory_pool.h:152` allows sizes from 0 to 1 MB, the code
  refuses 0 and more than 512 KB. A `Preallocate` that fails leaves its regions mapped, because
  `Reset` does nothing for a pool that is not initialised (`chunk_pool.cc:61`). An address registered again leaves old copies in other threads. A pool
  whose `Init` failed is not usable after a retry ([`RetriedPoolIsUsable`]).
* *Listener*. `Stop` after a failed `Start` aborts; descriptors may be closed twice; `EINTR` ends the
  thread; a client that connects and is silent blocks `Stop`; a client that dies after the message and
  before the ending has it handled. The codec is destroyed before the listener is stopped.
* *Error simulation*. An expired hang returns `Timeout` once more (`err_simulation.h:125`); an unknown
  instance is answered with a null unit; the number at the end of a name is read with its digits
  reversed.
* *C interface*. A section name of 256 characters or more loses its terminating zero
  (`c_api_vesal.cc:106`). `destroy` ignores a failing Close, and the destructor aborts with requests in
  the hardware; Poll of a shared channel aborts although "Poll has no effect on shared channel"
  ([`NeverAborts`]). The joined source of `vesal_cypher_submit_sgl` dies with the call, which is safe
  only because it is copied again without SVM ([`SourceAlwaysAlive`]). A second `vesal_init` changes
  the flags of a running library ([`FlagsOfStart`]). A synchronous call that takes another request's
  result loses that request's context. `kSliceHang` has no C code; C's last engine and checksum
  numbers are C++'s `kKae` and `kNum`, of which the validation refuses only `kNum` itself.
* *Tools*. `data_replay`: after a failing result the rest of the polled batch is forgotten, so draining
  ends by timeout and frees buffers of requests in the channel ([`BuffersOutlive`]); numbers more than
  `kMaxCrashSlots` apart share a crash record. `qat_lz4_simple`: a callback that comes after a thread
  gave up uses that thread's stack ([`WindowsAlwaysOutlive`]); failures of Create and Close are reported
  with a default code. `data_flow_perf` unmaps memory with requests under way ([`MappedWhileUsed`]) and
  does not close its channel. `perf_simple`'s histogram includes the warm-up, and an empty interval is
  averaged as 0/0. `zstd_perf` ignores error codes.

## 8. Not modelled

* Metrics, logging and the text of output: nothing depends on them. That the logger exists when it is
  used is part of `Lifecycle`.
* Contents of memory, unless a property is about them (`QatBuffer`, `Conversions`); keys and algorithms;
  the reading of `/proc/self/pagemap`, sysfs and registers, which succeed or fail.
* Weak memory orders; time other than the order of deadlines.
* `DataFlow`'s Init and Uninit and the preallocation of its descriptors. Of its life cycle `Lifecycle`
  has what matters to the library.
* XxHash of four bytes and more, which nothing in the library computes, and the table-driven CRC for
  CPUs without the instruction, which has no control of its own.
* The selection of units by NUMA node, VF and instance (as the one by device), and C calls that only
  forward to a function that is modelled.
* Performance programs: latencies and histograms (floating point), CSV files, flags; `shared_codec` and
  `zstd_perf`, whose loops only call what other modules model.
* Benchmarks, examples, scripts, tests, declarations and the vendors' headers under `dummy_driver`:
  no state of their own.
