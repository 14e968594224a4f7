# A verification project for GHEX

GHEX is a C++ library for halo exchanges: every thread of every rank owns
subdomains of a grid, and before each step of a computation the halos around a
subdomain are filled with data that other subdomains own. These modules model
how that happens: how ranks find out who owns what, how the data gets from one
memory to another, and the synchronization between threads, processes, devices
and messages on which it depends. Paths are relative to `src/include/ghex/` unless they start with `src/`.

## The system

| part | state | operations | what makes it hard |
|---|---|---|---|
| barrier (`transport_layer/util/barrier.hpp`) | two atomic counters per rank, one `MPI_Ibarrier` | `operator()`, `in_node`, `rank_barrier` | counters reused by threads that are rounds apart; relaxed orders |
| bulk communication object (`bulk_communication_object.hpp`, `structured/rma_range_generator.hpp`) | registered fields, source and target ranges, three lists of functions | `add_field`, `init`, `exchange`, `handle::wait` | writes straight into another thread's field; no global order of rounds |
| access guards (`rma/access_guard.hpp`, `rma/thread`, `rma/shmem`, `rma/xpmem`) | the mode of a halo, behind a lock or a byte | start, try to start and end an epoch on either side | lost wake-ups, lifetime, memory order |
| ranges, handles, events (`rma/range.hpp`, `rma/*/handle.hpp`, `rma/event.hpp`) | where a process has mapped the owner's memory, the stream of puts | make a source range of an archive, put, record, wait | page offsets, caches of mappings, puts that run after the guard is given back |
| MPI communicator (`transport_layer/mpi/`, `transport_layer/callback_utils.hpp`) | send and receive queue of callbacks, counters of progress | send and receive with callback, `progress`, `test`, `cancel` | callbacks that post again, indices that move, cancels that race completions |
| communicator facade (`transport_layer/communicator.hpp`) | a counter shared by the sends of `send_multi` | `send_multi`, `recv`, ... | partial failure |
| communication object (`communication_object_2.hpp`, `packer.hpp`, `buffer_info.hpp`) | buffers per neighbour and tag, futures, `m_valid` | `exchange`, `wait` | tags, reuse of buffers, handles never waited for |
| first-generation and in-place objects (`communication_object.hpp`, `unstructured/communication_object_ipr.hpp`) | ordered halos, buffers, requests | `exchange`, `wait` | sends awaited inside `exchange`, receives that write the field itself |
| exchanges on devices (`packer.hpp`, `cuda_utils/`) | a stream and an event per buffer | launch, send when packed, unpack when received | everything is asynchronous; four ways through the code |
| UCX transport (`transport_layer/ucx/`, `transport_layer/util/pthread_spin_mutex.hpp`) | workers, one of them shared under a recursive spin lock, request storage, endpoints | as the MPI communicator; construction and destruction of contexts | callbacks on other threads and inside the lock, storage that is handed out again, closing with messages under way |
| pattern construction (`structured/`, `unstructured/pattern.hpp`) | none after start-up | collective set-up of halos, neighbours and tags | index arithmetic, tags, turns of blocking messages |
| fields (`structured/*field_descriptor.hpp`, `structured/pack_kernels.hpp`, `structured/rma_put.hpp`) | memory with a layout | pack, unpack, put | strides of every layout, turned tiles |
| memory (`allocator/`, `transport_layer/*message_buffer.hpp`) | buffers | allocate, free | - |
| glue, bindings | none of its own | forwarding | - |

How they meet: a pattern is made once, by all ranks together; it tells the
communication objects which cells to pack for whom and under which tag, and field
descriptors turn cells into memory. The bulk object sends each target range (address, guard, event) to
its source through the communicator, once; then `exchange` opens the guards, lets
the communication object pack and send to remote ranks, and puts into each
local halo whose guard is open; `wait` unpacks messages, then waits for the
guards to come back. The communicator is one object per thread; the guards and
the barrier's counters are what threads share.

What each part has to guarantee, and the hazards that threaten it, are listed
with their lines in `PROJECT.json` ("hazards"), with the properties that cover
them or the reason why none does yet.

## Modules

| module | what it is |
|---|---|
| `BarrierAbstract` | a barrier in one step: arrive, leave when all have arrived |
| `Barrier`, `MCBarrier` | the two counters, one action per atomic access |
| `BarrierProofs` | its theorems |
| `BarrierViews`, `MCBarrierViews` | the same steps with the happens-before order of C++ |
| `HaloExchange` | what an exchange promises: start, deliver, complete |
| `BulkExchange`, `MCBulkExchange` | the bulk object on all threads, with its guards and messages |
| `BulkProofs` | its theorems |
| `AccessEpochs` | turns of two parties on a resource |
| `AccessGuard` | the guard with mutex, condition variable and destruction |
| `RmaRange`, `MCRmaRange` | a halo that another thread or process writes: handle, guard, put, event |
| `RmaProofs` | their theorems |
| `Completions` | what a communicator promises of operations with callbacks |
| `CallbackQueue`, `MCCallbackQueue` | the callback queues of one MPI communicator |
| `CallbackProofs` | its theorems |
| `CommObject`, `MCCommObject` | the communication objects of all threads and ranks |
| `CommProofs` | its theorems |
| `UcxCommunicator` | the communicators of the threads of a rank over UCX, with the recursive lock and `send_multi` |
| `UcxContext`, `MCUcx` | the UCX contexts of all ranks from construction to destruction |
| `UcxProofs` | the theorems of both |
| `Boxes` | coordinates and boxes |
| `RegularHalos`, `CubedSphere`, `StructuredGrids` | domains and halos of regular grids and cubed spheres, as operators, with their definitions by geometry |
| `GridRanks`, `StructuredPattern` | `make_pattern` on all ranks |
| `PatternProofs` | its theorems: tags, pairs of halos, halos and owners |
| `StagedPattern` | `make_staged_pattern` on all ranks |
| `UnstructuredPattern` | `make_pattern` for meshes, with and without hints |
| `UnstructuredExchange` | exchanges on such a mesh, copying (first generation) and in place |
| `FieldTransfer` | the memory of fields: pack, unpack, put |
| `GpuExchange` | exchanges of fields on devices |
| `GpuProofs` | its theorems |
| `MCPatterns` | the instances of the modules from `Boxes` on |

### Barrier

`b_count`, `b_count2` and `ex` (the value a compare-exchange expects) are the
variables of the code; `posted` counts the `MPI_Ibarrier`s of a rank; `done`,
`opened1` and `opened2` are history. `FullRounds` are the rounds in which
`operator()` is called, the others call `in_node`. Every load, compare-exchange
and store of `in_node1` and `in_node2` is an action, so that any interleaving
the hardware produces on each atomic is one of the model. Spurious failures of the weak
compare-exchange are left out: they lead back to the same load.
`progress` calls in the waiting loops do not touch the barrier.

`BarrierViews` adds to every thread and every atomic a *view*, the
arrivals that happen before it, joined along synchronizes-with edges only: the
compare-exchanges are relaxed, the plain loads and stores are sequentially
consistent. `barrier_views` finds a call that returns without the arrivals of all
threads in its view. On the counters alone the barrier is right; data written
before it by other threads is not ordered by it.

### BulkExchange

One communication object `c` per thread. A *link* `l` is a halo of `Dst[l]` that
`Src[l]` fills; links in `Local` are put into, the others are sent. `pc` and
`todo` are where a thread is and which ranges the list it works off still has;
`archive` and `mode` are the handshake and the guard of a range; `chan` holds the messages
of a remote link; `field` is a version of the data `c` owns, `Compute` makes the
next one; `halo` is the version found in a halo, or `Torn` while a put is under way.
`sent` is history: the versions each round started with.

Ranges are visited in any order, as `await_requests` does for puts and waits;
the handshake visits them in list order, which is one of the orders allowed here
and blocks no differently because all archives are sent before. Packing copies the field before
`exchange` goes on to the puts; the sent message is therefore the field at that time.
`ExchangeRemote` and `Unpack` stand for `communication_object::exchange` and
`wait`. One range per pair and direction; message order then needs no tags.
Archives are assumed to be small enough for the transport to send without a
matching receive or with the progress of other calls, as `target_range::send`
sleeps on a condition variable without progressing the communicator.

### AccessGuard and RmaRange

The target owns the halo, the source writes it. `start_*_epoch`,
`try_start_*_epoch` and `end_*_epoch` are cut at each lock and unlock of the
mutex; falling asleep releases it in the same step, and a sleeper may wake for no reason.
`Destroy` is the owner releasing the bulk object after the last round.

`RmaRange` puts the guard to its use. `Deserialize` makes the source range: the handle of a
thread is the pointer itself; xpmem maps whole pages, and the pointer is shifted
by the offset in them; CUDA maps a device's memory once per process and keeps the address in
a cache. A handle is modelled by what it does, a map of the source's addresses to
the owner's, and a put through one that leads elsewhere ends the program. `Put` copies
at once or leaves a "put" on the stream of the range; `Record` puts an "event" behind it,
when a device is involved; `Execute` is the device; `AwaitEvent` is
`target_range::start_target_epoch`. `range` picks the kind of guard: the one with the
mutex (threads, and processes with boost) or the byte of xpmem, whose `StoreMode` may not
overtake the source's stores only if `ordered`: the code does not see to it, the
hardware may. With `ordered = FALSE` TLC finds `RangesImplementEpochs` violated.
One generation of ranges is modelled; the destructors of source ranges are not.

### CallbackQueue

`m_queue`, `m_index`, `m_ready` and the counters are those of the code, with
positions counted from 1. `req` is the MPI request of an operation: `Match` completes
it at any time. `progress` is cut where it calls back, because the callback may
post and test (`InProgram`); all else a thread does to its own communicator is
one step. `held` are the requests whose `m_queue` pointer the caller has not
lost through `test` or `cancel`; `reported`, `calls` and `cancelled` are history.
Assumed: callbacks do not call `progress` or `cancel`; the queue stays within its
256 reserved elements. With `CancelsUntested = FALSE` a caller
cancels only what it has found not ready.

### CommObject

`m_valid`, `recv_memory`, `send_memory`, `m_recv_futures` and `m_send_futures` are
those of the objects; `pc`, `call`, `current` and `todo` say where a thread is in its
`Program` of exchanges and in the packing of one; `posted` and `chan` are the
receives and messages that MPI has not matched yet. A field on a domain is an
*instance*; its content is the number of exchanges it has been in. `Exchange` is
`exchange_impl` and `post_recvs` (tag map, buffers, receives), `Pack` one buffer in
any order, as on GPUs (on a CPU it is that of the map), `Unpack` one message,
`WaitReturns` the end of `wait` with `clear`. `Exchange` is not enabled on an object whose
last exchange has not been waited for: there the code throws and changes nothing.
A thread waits for its open objects whenever and in whatever order it likes.

Buffers have one entry per pair of domains whatever the patterns, as in the code: fields
of two patterns share a message if they share the pair, under the tag of the first.
Assumed: one device, no empty halos, one `max_tag` per pattern on all ranks (what
`structured/pattern.hpp:365-368` computes), receives of one call posted in one
step (they are on different channels unless tags collide), and an MPI library with
tags up to `TagUB` for all messages of a call (`TagUBAssumption`). Instances
are the parties of `HaloExchange`, so `ExchangeRemote` and `Unpack` of
`BulkExchange` rest on `ImplementsHaloRounds`.

`ProgramsFit` says what the library leaves to the program: one exchanging thread per
rank, as many calls on each thread, in the `n`-th calls of two neighbors the same fields in the same order and
under the same tag offsets, and a field on a domain always exchanged with the same object. Without the
first part messages may be mismatched (`exchange_threads`, finding 5). `MCCommObject` assumes that the
programs of `exchange_patterns` fit, and TLC evaluates it.

### UcxCommunicator and UcxContext

Threads send through workers of their own and receive through one worker of
the rank. `stack[t]` is the stack of calls of thread `t`, since a callback may post a receive
that completes early and calls back again, all inside the lock. `m_lock` and
`level` are the spin lock and the thread's nesting level; `storage` is the memory of requests that UCX
hands out again, with the `m_kind` it was left with; `ucp` is the state of an operation in UCX,
`wire` the messages that nobody has received. `RecvEarly` is a receive whose message is there:
`recv_callback` recognizes it by the blank kind. `SendMulti` and its callbacks
keep the counter and the shared message. Assumed: the program uses either
callbacks or futures; with both, `request_cb::cancel` may follow a pointer into storage that
a future has zeroed (the `TODO` at `ucx/request.hpp:255`). Callbacks of sends post
nothing. Posting is bounded by the sets of operations, and there is request storage for
all receives at once. `ToCount` are the completions a frame has still to count: an early
one, and a received one whose callback has not returned.

`UcxContext` has the exchange of addresses through MPI (a broadcast after the other, each
root ahead of the rest) or PMI (publish and fence), the workers, the endpoints they connect
with and the destructor: a barrier with progress, the endpoints with
their flush or its limit of two seconds (`CloseEndpoint` drops what is under way), a second
barrier without progress, and the end of the workers. Ranks do not send to themselves.

### Patterns of structured grids

`Halos`, `Intersect`, `CubedHalos` and `CubedIntersect` are the functions of the halo
generators; `GridCell` and `Folded` are what they are compared with: the
cell of the grid at a local coordinate, by arithmetic modulo the grid or by the
geometry of a cube in space. `StructuredPattern` has every rank go through `make_pattern`:
two gathers, the numbering of tags, and a turn for every rank as root, which broadcasts and then
sends to each peer with blocking sends (`eager` is whether MPI buffers). `HalosPaired` says that each
domain ends with the send halos that answer the receive halos which name it, and no other;
`HalosReachOwners` that every halo cell is then taken from its owner. `HalosCover` is
what the second asks of the halo generator alone. Ranks count from zero and domain ids are unique and ordered
(`GridsType`, after `doc_src/scope/scope.rst:272`). `StagedPattern` has the
stages of `make_staged_pattern`, whose receives are posted before the sends: `TagsRoute` says that the tags of
all stages lead from each receive halo to the send halo of the domain it names, `StagedHalosFilled` that the
stages exchanged one after the other fill all halo cells, `StagesCover` what that asks of the slices alone. Assumed: halos that
neither straddle the periodic boundary (`regular/halo_generator.hpp:136` wraps
them by their first cell) nor are wider than a domain; no cubed halo of one cell; for staged patterns a cartesian
decomposition with both widths of a dimension zero or positive.

### UnstructuredPattern and UnstructuredExchange

`given` is what each rank has contributed to each collective call, so that a rank
reads only what the calls before have brought it. Without hints, ranks look up the halos
of all others; with hints, each knows the owners of its own. `MapOf` is the map of halos by rank and tag.
`UnstructuredExchange` goes on with the patterns: style "copy" is
`communication_object.hpp`, which waits for its sends inside `exchange`; "inplace" is
`communication_object_ipr.hpp`, where a message lands in the field itself. `memory` is the
content of each place and level: vertex, level, field and round. Neighbors may be a round ahead.
Assumed: ids below 128 (tags are `(id << 7) + id`); the same fields in every in-place exchange;
MPI buffers where two objects of a rank have neighboring domains.

### FieldTransfer

A field is a function from offsets to values. `Strides`, `Coordinate`,
`BufferStrides` and the moves of pack, unpack and put are those of the code for each layout
and architecture, loops over boxes being sets of moves; `Position` is where a cell is by
definition, by counting the cells in front of it. Pack, unpack and put run for every layout, also where the
code writes beyond the end of a message or of a row, as it does for components that are not outermost
(findings 7 and 8): such writes land in the next halo of the message or in the next cells, or are lost outside of
the memory. So `TransferExact` claims the exact transfer only under `PackFits` (each halo of the
message ends where its part of the buffer does) or `PutFits` (a fused row is as wide as the halo), and for the
others that unpacking touches no memory but the halo. In the instances here the restriction is tight: without it every other
transfer is wrong. The change of sign of vector components over an edge of the cube is left out.

### GpuExchange

Each buffer has a stream, a sequence of kernels (the blocks they move) and events. The device runs
their heads whenever it likes, and messages are read when MPI likes. A send completes when MPI has copied its message
(`BufferSend`; `buffered` holds the copies, in order) or when its receive has taken it (`Transmit`), so that a
sender is held back by its own receives only, and where messages go one way may be any number of exchanges ahead.
`exchange` posts its receives (`PostRecvs`) before it packs (`LaunchPack`): a callback may unpack in between.
A kernel argument that is too small makes the launch throw, and the rank stays "thrown". `variant`
chooses among `exchange`/`wait`, `exchange_u`/`wait_u_gpu` and both with fat callbacks, which
unpack from the callback of the receive. `Batches` and `Capacity` are the distribution of blocks to
kernels of at most 34 arguments. The program's kernels on a field have ended when it is exchanged.

## Runs

| run | bounds | what it shows |
|---|---|---|
| `barrier_full` | 2 ranks, 3+1 threads, 3 rounds, the second one `in_node` | synchronization, one `MPI_Ibarrier` per round, every call returns, refinement of `BarrierAbstract` (its inductive invariant is proved below) |
| `barrier_views` | 2 ranks, 2+1 threads | **violation**: returns are not ordered after arrivals |
| `bulk_exchange` | 3 objects; halos a to b and b to a local, b to c remote; 2 rounds, 2 versions | fresh halos, exclusive access, termination, refinement of `HaloExchange` |
| `guard_epochs` | ranges of 1 to 5 cells at 4 places of pages of 4, mapped at 2 addresses, all pairs of host and device, both guards | no lost wake-up, starts return, refinement of `AccessEpochs` with nothing of a put left over |
| `guard_lifetime` | none needed: finite state | **violation**: `notify_one` on a destroyed guard |
| `callback_requests` | 1 send, 3 receives | indices, cancels of tested requests hit their own operation, counts, at most one callback or cancel, callbacks come, refinement of `Completions` |
| `callback_lost` | the same | **violation**: a refused cancel loses the callback |
| `callback_stale_cancel` | the same, untested cancels | **violation**: a request cancels another operation |
| `exchange_patterns` | 2 ranks, 3 domains, 2 patterns, 3 fields, 2 objects per thread, 3 calls | messages match, fresh halos, every exchange ends, refinement of `HaloExchange` |
| `exchange_threads` | 2+1 threads, 2 calls | **violation**: threads of a rank receive each other's messages |
| `ucx_transport` | 2 threads, `send_multi` to 2, 3 receives of which a callback posts one, a future; contexts of 2 ranks with one communicator each | the lock, the storage, counts, one callback per `send_multi`, refinement of `Completions`, calls and destructors return |
| `patterns` | 4x4 grids in 4 decompositions with 4 pairs of widths, periodic or not; cubes of edge 2; 9 staged grids per period; 2 meshes of 6 and 4 vertices on 2 ranks, 2 rounds; fields of 4x4 in 8 layouts and tiles with components; device exchanges of 1 to 69 blocks, 3 rounds, messages both ways or one way | halos lead to owners, receive and send halos in pairs, tags, staged tags, corners, fresh halos, exact transfers where messages and puts fit, no kernel argument too small, construction and exchanges return |

Why the bounds are enough: three rounds let a fast thread of the barrier reuse
each counter while a slow one leaves the round before, with all kinds of
neighbouring rounds; three threads on a rank let the compare-exchange fail more than once.
In the bulk exchange two rounds bring the first and second epoch of
each guard together, a pair a/b gives the cycle of mutual waiting, and c a reader
that lags any number of rounds; a second version of the data shows a stale one.
In `patterns`, grids are small but every side, corner and period occurs, several
domains per rank, ids out of order, a domain that is its own neighbor and one that lies on both
sides of another; cubes have split and whole tiles; 34, 35 and 69 blocks are
around one and two full kernels, and in three rounds MPI holds up to three messages of a buffer. A behaviour of `patterns` is one of a single part, as is one of
`ucx_transport`: the parts meet only in data that the first has finished before the
second starts. In `guard_epochs` a range starts within a page, at its begin, and spans a
boundary. Three receives over UCX let storage be handed out again while another
request is pending, and early completion meet both.

Halos of an object on itself (periodic domains) are left out of the run to keep
it short, and are covered by the theorems. Three receives let a removal move
an element, with another in front of it, while a callback posts.

The program of `exchange_patterns` passes two patterns that share a pair of domains, first in
one order and then in the other, so that buffers of the first call are reused with
another tag; without the tag map the last call mixes up two messages. A second
object is open at the same time on the same channels.

## Fairness

- Barrier: weak fairness of every thread. The operating system schedules
  threads, and each is inside a loop that retries; `MPI_Ibarrier` completes once
  all ranks have posted and one of them makes progress.
- BulkExchange: weak fairness of every thread's library steps, including the
  program's calls of `exchange` and `wait` in turn. Nothing forces a program to
  compute.
- AccessGuard, RmaRange: weak fairness of each party's steps, and strong fairness of
  `Lock`: a thread that keeps asking for a `std::mutex` that is free again and
  again gets it at some time. The code needs this no less than the model: a
  waiter competes with the other side's calls. The retry calls of the program
  keep the parties going. A device works off its stream, and stores become visible.
- CallbackQueue: weak fairness of `progress`, which the documentation asks
  the program to call (`transport_layer/mpi/communicator.hpp:114`).
- UcxCommunicator: weak fairness of the calls a thread is in and of `progress`
  (`transport_layer/ucx/communicator.hpp:190`), strong fairness of taking the spin lock, which is not
  handed on in turn. UcxContext: weak fairness of construction and destruction on each rank; nothing says that
  messages arrive.
- Patterns: weak fairness of every rank. Nothing is asked of the order in which MPI delivers.
- CommObject: weak fairness of every thread, which goes on with its program and at
  some time waits for what it has started, and of MPI on every channel where a
  receive and a message are.

## Proofs

For every number of ranks, threads and rounds, every map of threads to ranks and every set of
full rounds (`BarrierProofs`), from the assumptions on the constants in `Barrier`:

- `BarrierInvariant`: `BarrierInv` is inductive. Each counter equals the
  cardinality of the set of threads that have counted in the round whose door is
  still closed, and no thread is more than a round away from either door. Without
  the second part the first is not preserved by a reset, without the first
  the leader would not know that everybody is there.
- `BarrierTypes`, `BarrierSynchronizes`, `BarrierElectsOneLeader` follow from it.
- `BarrierRefines`: each step maps to a step of `BarrierAbstract` or a stutter.

For every set of objects and every topology of local and remote links, with halos of an
object on itself, and any number of rounds and versions (`BulkProofs`):

- `BulkInvariant`: `BulkInv` is inductive. A guard is in mode remote exactly
  when its halo was opened once more than it was put into (`EpochInv`), which ties
  the rounds of two threads that never compare them; before the archive has
  arrived both ends are still before their first exchange (`HandshakeInv`);
  messages under way are the last ones sent (`MessageInv`).
- `BulkHaloFresh` follows from it, and `BulkExclusiveAccess`: a put is under way only in the source's epoch, in
  the round of the halo's owner, who has not waited for it yet, and from a field that is as it was when its
  owner called `exchange`; `BulkRefines` maps
  steps to `HaloExchange`.

For every finite set of sends and receives, and callers that test a request before
they cancel it (`CallbackProofs`, assuming `~CancelsUntested`; the run
`callback_stale_cancel` shows that the assumption is needed):

- `CallbackInvariant`: `CallbackInv` is inductive. Elements know their position
  (`IndexInv`), and the life of an operation is tied to the queue (`OpInv`): it is
  queued while its MPI request is pending, called at most once and then only queued
  while that callback runs, ready or cancelled when it has left. Without the second
  part a request could not be known to find an element at all.
- `CallbackTracksElements`, `CallbackCancelsOwn` follow from it; `CallbackReports`
  adds that a progress call starts to count at zero; `CallbackRefines` maps
  steps to `Completions`.

For every set of ranges, page size and way to map memory (`RmaProofs`; the last two for
byte guards whose stores are ordered, the assumption that finding 10 is about):

- `RangeNoLostWakeup`: `NoLostWakeup` is inductive with the positions of the parties,
  and with the fact that only mutex guards put a party to sleep.
- `RangeInvariant`: `RangeInv` is inductive. Puts in the stream have the event behind
  them unless it is recorded next (`StreamInv`), stores are visible before the mode
  changes, and a put is pending in mode remote only while the source is in its
  epoch (`PutInv`); so the owner, who waits for the event once in the epoch of the
  guard, is never in its halo with a put.
- `RangeRefines`: each step maps to a step of `AccessEpochs` or a stutter; the turn
  passes to the owner with the last trace of the put, not with the mode.

For any number of ranks and communicators, either way to exchange addresses, any sets of
operations, callbacks and threads, and any nesting of calls (`UcxProofs`, from the
assumptions on the constants in `UcxContext` and `UcxCommunicator`):

- `ContextInvariant`: `ContextInv` is inductive. Nobody leaves a barrier or a collective
  exchange before all have entered it, a worker is there from its construction to the
  second barrier of the destructor, an endpoint from its use to the end of
  the flush in between; `EndpointsSafe` follows.
- `LockInvariant`: the level of each thread is the number of frames on its stack that are inside the
  lock, and only the holder has any. `LockSafe` follows.
- `LifeInvariant`: `LifeInv` ties where an operation is in UCX to its request, its storage and the
  frames of all stacks: an operation has storage while UCX or one frame works on it, two
  operations never share one, and whoever frees storage has blanked its kind. `StorageSafe` follows,
  and `UcxRefines` maps steps to `Completions`.
- `CountsSafe` adds what is still to be counted by frames on the stacks, which is where a
  completion on another thread hides; `MultiSafe` that the shared counter of `send_multi` is the
  number of its sends that have not completed, those not yet posted included.
- `UcxTypes` is their type correctness.

For any exchanges of messages with any numbers of blocks, and any number of rounds (`GpuProofs`):

- `GpuInvariant`: `GpuInv` is inductive. A block is packed or a kernel in the stream will pack it, in front
  of the event for which the message waits (`Packed`); received or waiting behind a kernel until the stream
  drains (`Drained`); and the exchanges the sender has begun are those of which the receiver has the message, then
  those MPI has buffered, in this order, then at most one whose send is not complete (`InOrder`). Without the
  last part the message that a receive gets could be that of another round. `GpuFresh` follows, from `KernelsCover`,
  the batches of `pack_u` and `unpack_u` leave out no block, and `KernelsFit`, no kernel argument is too small for
  them. Nothing is assumed of when sends complete.

For any domains, patterns, fields, objects and threads, and any programs that fit (`CommProofs`, from
`ProgramsFit` and the assumptions on the constants in `CommObject`):

- `CommInvariant`: `CommInv` is inductive. `Pos(k, n)` counts the calls up to the `n`-th that use channel
  `k`. The receives and the messages that channel `k` still holds are those of the calls after the last match, in
  the order of the calls (`CountInv`, `PostedInv`, `SentInv`), so the next match joins the two ends of one
  call. That says nothing unless a buffer keeps the fields and the tag of its call until it is waited for
  (`MemoryInv`), what was received is what that call's sender packed (`ReceivedInv`), and the sender, who may be
  calls ahead, packed the content of that exchange (`HistoryInv`); `HaloInv` then
  tells a halo that still waits for its message from one that is filled.
- `MessagesStayMatched` and `HaloStaysFresh` follow from it, and so does `TypeCorrect`: types alone are not
  inductive, as unpacking reads a message at the positions of the receiver's fields.
- `CommRefines`: `Exchange` starts the rounds of its instances, `Unpack` fills their halos with the round the
  neighbor has started, `WaitReturns` completes them once all are filled; other steps are stutters.

For any grids with finitely many domains, any halo generator and any order in which the ranks run
(`PatternProofs`, from `GridsType`):

- `TagInvariant`: a tag is the position of its halo in the order of all that one rank sends
  another, from when the receiver has numbered them; the maximum of a rank that
  has not passed the second gathering is its own, of one that has it is that of all. `TagsSafe` follows: positions in
  a totally ordered finite set differ and stay below its size.
- `PairInvariant`: `PairInv` is inductive. To `TagInv` it adds that numbering changes nothing but
  tags, so that `send_halos_map` is that of the receive halos (`MapInv`); that who is past a turn has heard its root,
  and waits for it only if announced (`TurnInv`); that the messages of a root, in the order of `Outbox`, are those
  received, then those in its channel to each rank, then those not yet sent, where `pending` counts
  what is left (`ChanInv`); and that a domain has the send halos of the roots whose
  turns it is past and those received from the current one (`SendInv`). Without the counting the
  message with the number of domains could not be told from those with halos, which use the same channel
  and tag; an eager root runs ahead any number of turns, and its messages wait.
- `HalosStayPaired` follows: when all have finished nothing is left in a channel.
- `HalosReach`: with `HalosCover` for every grid, `HalosReachOwners`. The theorem is that tags, messages and
  turns lose, swap or add nothing that the halo generator found. `HalosCover` itself is a computation on one grid without any
  rank running. `HalosReachOwners` on the run `patterns` shows it for the grids there: by `HalosPaired`
  the two say the same once a pattern is made.

For any cartesian decompositions, in which a domain is the neighbor of its neighbors, and any number of
dimensions (`PatternProofs`, from `StagedGridsType`):

- `StagedInvariant`: `StagedInv` is inductive. A rank has the halos it has built, changed in nothing but
  tags: those of receive halos are counted when the rank has posted the receives of the stage, those of send halos are the
  receiver's when it has waited (`BuiltInv`). The destinations and the sources of a stage are the same ranks, each once
  (`StageInv`); the messages in a channel are those of the stages that the sender has sent and the receiver has not
  received, in the order of the stages (`WayInv`). Nothing in a message says of which stage it is; that an eager rank
  may be stages ahead is why the order has to be part of the invariant: a receive of one stage must never take the tags of
  the next.
- `TagsStayRouted`: hence `TagsRoute`. Two receive halos of a rank from the same rank differ in their tag, so one
  send halo has it, and the item that `WaitAll` finds in a message is the one of the two domains.
- `StagedFill`: with `StagesCover` for every grid, `StagedHalosFilled`. `StagesCover` is the claim about
  slices and corners on one grid without any rank running; by `TagsRoute` the run `patterns` shows it for the grids there.

Only model-checked: all liveness properties, hence the fairness part of each
refinement (the theorems show initial states and steps), because
liveness under fairness and `ENABLED` are out of the prover's reach; what depends on computing with the
data of an instance, by folds and recursion over it, for which induction is out of reach
(`HalosCover` and `StagesCover`, which `HalosReach` and `StagedFill` assume; `UnstructuredHalosMatch`,
`UnstructuredHaloFresh`, `TransferExact`).

## Findings

1. `transport_layer/util/barrier.hpp:125`: relaxed compare-exchanges, so the
   barrier does not order memory between threads (`barrier_views`).
2. `rma/thread/access_guard.hpp:124`: the source notifies after it has given the
   guard away; the owner may have destroyed it (`guard_lifetime`).
3. `transport_layer/mpi/future.hpp:186`: a refused cancel waits for, and so frees,
   the completed request; its callback is lost (`callback_lost`).
4. `transport_layer/mpi/request_cb.hpp:53`: cancel of a ready request acts on
   whoever has its old index (`callback_stale_cancel`).
5. `communication_object_2.hpp:440`: tags of patterns that are exchanged in different
   calls overlap, also between the threads of a rank (`exchange_threads`).

Met while modelling, without a run of their own; the modules name the assumption that
leaves each one out, or for 7 and 8 the property names it:

6. `structured/cubed_sphere/halo_generator.hpp:230`: the "invalid" intersection of a halo of one cell is valid.
7. `structured/rma_put.hpp:92`: a put with components innermost copies too much or too little unless
   the halo is as wide as there are components.
8. `structured/regular/field_descriptor.hpp:129`: the strides of a buffer are for one component too many, so messages
   overrun it and their spaces overlap unless components are outermost. The test for components first
   (`tests/bindings/test_f_cubed_sphere.f90:113`) is commented out because it crashes.
9. `unstructured/communication_object_ipr.hpp:478`: a reused in-place receive keeps the pointer of the first exchange.
10. `rma/xpmem/access_guard.hpp:126`: the byte guard does not order the put before the mode.
11. `rma/xpmem/handle.hpp:117`: `xpmem_detach` gets the owner's address.

## Not modelled, and the plan

What would come next, most important first:

1. `CommObject` with the tags of staged patterns, whose `max_tag` each rank computes alone,
   and with handles that are dropped.
2. Theorems for `UnstructuredExchange`, whose channels are those of `CommObject` without the tag map, and for
   the parts of `FieldTransfer` that need no recursion over the data.
3. Callback queues whose callbacks progress and cancel, and grow beyond what is reserved.
4. The second generation of ranges: destructors of source ranges against the cache of mappings.
5. Several links between one pair in `BulkExchange`, and programs that call `exchange` twice.

Left out for good: allocators and message buffers (single objects without steps), the
decompositions of `util/` (arithmetic used by tests only), Fortran bindings and glue (forwarding),
timers and other utilities. `PROJECT.json` names each part with what is left out of it.
