# Verification of the low_level_programming repository

TLA+ models, TLC runs and TLAPS proofs for the code under `src/`. The repository
is a course of systems programming exercises that ends in a small stock exchange,
`src/4_order_book_proj`: an OUCH matching engine between two queues and a network
device. That program is the core of this project; the earlier exercises
(allocators, lock-free structures, a thread pool, network protocols) are the rest.

## 1. Inventory

### The order book program (`4_order_book_proj/src`)

```
clients -> kernel -> reader thread -> incoming_queue -> engine thread
clients <- kernel <- writer thread <- outgoing_queue <-------'
```

| Part | State | Operations | What makes it correct |
|---|---|---|---|
| `spsc_queue` (queues.hpp, queues_impl.hpp) | cells with a sequence number and a payload, two positions | `enqueue`, `dequeue`, both spinning | a bounded FIFO; the plain payload accesses never race; nobody spins for ever |
| `mpsc_queue` | the same, the enqueue position atomic | the same, compare-and-swap among producers | the same for several producers |
| `Allocator` (allocator.hpp) | slots, intrusive free list | `allocate`, `deallocate`, `full` | a slot has one holder; `full` is exact |
| `Engine` (engine.hpp) | levels of linked order blocks, best indices, counts, cancel map, pool | `insert_order` (buy, sell, limit, market), `cancel_order` | price-time priority; the indices, counts, lists, map and pool agree; clients' messages add up |
| codec (messages.hpp, message.cpp) | none | field views and builders, `decode` | what a builder wrote is what a view reads |
| `NetworkDeviceIOUring` (network_device.hpp) | submission ring, mutex, requests in flight | `receive_msg`, `send_msg` | the ring is used by one thread at a time; one recv per socket; no response lost |
| `NetworkDeviceEpoll` | epoll set, a descriptor per client | the same | requests and responses arrive unchanged, whatever descriptor they use |
| `main.cpp` | three threads | loops | no circle of waiting threads |

What is hard to test: the interleavings of the two ends of a ring a lap apart; the
order of payload and sequence stores; the three threads waiting on two bounded
queues and a mutex; short sends; long sequences of inserts, partial fills,
reductions and cancels that leave a best index, a count, a list end or a map entry
stale; the pool running out for an accepted order; bytes of a freed slot read
after the free-list pointer went over them. `PROJECT.json` lists these as hazards,
each at its line.

### The exercises

| Part | State | Operations | What makes it correct |
|---|---|---|---|
| bump allocator, C++ arena (1_mem_allocator/bump_allocator, 2_cpp_basics/0_bump_allocator) | one pointer into an arena | `alloc_init`, `alloc_malloc`, `alloc_free`, `alloc_reset`, `alloc_deinit`; the arena's constructor, destructor, `alloc`, `dealloc`, `reset` | regions handed out never overlap or change |
| implicit list (implicit_free_list) | blocks with a header, one after the other | the same five | the same, and the blocks tile the arena, after resets too |
| improved implicit list (implicit_free_list-improved) | a region of entries and one of data, linked both ways | the same five | the same; both regions stay inside their bounds |
| coalescing list (implicit_free_list_coalasce) | boundary-tagged blocks, `start_ptr`, `last_ptr`, `size` | the same five | the same, and merging is complete |
| explicit free list (list_explicit_free) | the same, and a circular list through the payloads of free blocks, static `HEAD` | the same five | the same, and the list is exactly the free blocks |
| `mpmc_queue` (3_lock_free/2_mpmc_queue) | cells with a sequence number and a payload, two atomic positions | `enqueue`, `dequeue` (both may refuse), `main`'s threads that retry | one thread per cell at a time; items come out in the order of the claims; the joins return |
| `thread_pool` (4_thread_pool/th_pool.cpp) | a locked queue per worker, ticket counter, condition variable, stop tokens | `schedule_job`, `thread_handler`, destructor | no task lost or run twice, no lost wake-up, futures settle, the destructor returns |
| three order books (4_order_book_proj/data_structure_bench) | sorted vectors; sorted linked lists; a list per price with cached best prices; each with a map from ids | limit insert, cancel, market order, top of book | links, maps and cached prices exact; all three answer alike |
| echo servers (3_machine_below/3_event_poll) | epoll set, or a ring of submitted operations | accept, read, echo, close | a client gets back its own bytes, in order |
| framing (5_network/framing) | length or message being read, what is left of it | `recv` and the parser | messages come out as they went in, wherever the stream is cut |
| multi-threaded receive (5_network/multi_thread_rx) | a buffer per connection | sender thread, epoll loop | every registered client's message is printed, and the loop ends when all could be registered |
| UDP multicast (5_network/udp_mcast) | publisher's counter, subscriber's last number and membership | publish, receive, leave, join | every message passed over is reported |

Hard here: a compare-and-swap after a lap has passed; producers publishing in
another order than they claimed; long mixes of split, merge and whole reuse over
stale tags and links; a task that arrives behind the back of a worker about to
sleep; a stop request between predicate and wait; a list cut at head, middle and
tail by different code; completions and datagrams in any order; streams cut
anywhere; descriptor numbers used again.

## 2. Modules

| Module | Models | Kind |
|---|---|---|
| `BoundedFifo` | what a queue promises | abstract specification |
| `SpscQueue` | `spsc_queue`, one action per atomic step | component |
| `SpscQueueProofs` | | theorems |
| `Allocator` | the pool | component, instantiated by `Engine` |
| `AllocatorProofs` | | theorems |
| `PriceTimeBook` | what the engine promises | abstract specification |
| `Engine` | the matching engine at pointer level, on top of `Allocator` | component |
| `EngineProofs` | | theorems |
| `Pipeline` | the io_uring device and the three threads around two FIFOs | composition |
| `PipelineProofs` | | theorems |
| `MpmcQueue` | `mpmc_queue` and the threads of its `main` | component |
| `MpmcQueueProofs` | | theorems |
| `ThreadPool` | `th_pool.cpp` | component |
| `ThreadPoolProofs` | | theorems |
| `Heap` | what malloc and free promise | abstract specification |
| `Arena` | the mapped words, the `Allocator` fields and the caller, shared by the arena allocators | variables and operators |
| `BumpAllocator` | `bump_allocator/allocator.c` and the C++ arena | component |
| `ImplicitFreeList` | `implicit_free_list/allocator.c` | component |
| `ImprovedFreeList` | `implicit_free_list-improved/allocator.c` | component |
| `BoundaryTags` | `implicit_free_list_coalasce/allocator.c` | component; the next one extends it |
| `ExplicitFreeList` | `list_explicit_free/allocator.c` | component |
| `Allocators` | the pool and the six arena allocators, one per behaviour; the arena ones implement `Heap` | composition |
| `HeapProofs` | | theorems |
| `OrderBooks` | `data_structure_bench/base.hpp` | operators |
| `VectorBook`, `ListBook`, `TickBook` | `sorted_vector_str.cpp`, `list_str.cpp`, `tick_offset_str.cpp` | components |
| `LockstepBooks` | one script of calls on the three books | composition |
| `Codec` | `messages.hpp`, `message.cpp`: offsets, widths and conversions | operators |
| `EpollServer` | `NetworkDeviceEpoll` between clients, queues and an engine that answers | component, on top of `Codec` |
| `Ascii` | decimal numbers in text, for `FramingServer` and `GapDetector` | operators |
| `EchoServers` | `epoll_server.cpp`, `io_uring_server.cpp` | component |
| `FramingServer` | `framing/server.cpp`, `framing/client.cpp` | component |
| `GapDetector` | `udp_mcast/publisher.cpp`, `udp_mcast/subscriber.cpp` | component |
| `StreamReceiver` | `multi_thread_rx/main.cpp` | component |
| `Feeds` | the four networking exercises, one per behaviour | composition |
| `FeedsProofs` | | theorems |
| `MC...` | | instances for TLC |

Definitions whose comment says "Mutant of X" are wrong variants of X, each the way
a plausible slip in that code would be wrong. No specification uses them; putting
one in X's place makes the property paired with it in `PROJECT.json` fail.

**SpscQueue.** A call of `enqueue` is five steps: the call, the acquire load that
ends the spin, the payload copy, the release store of the sequence number, the
position update; `dequeue` likewise. The two threads share nothing else than the
cells, and each cell is handed over by an acquire/release pair on its own
sequence number, so interleaving these steps covers what the memory model allows
as long as the payload accesses do not race, which is `NoDataRace`. Positions are
64-bit in the code and natural numbers here: 2^64 messages are out of reach, and
2^64 is a multiple of S, so wrapping would not change cells. `S` needs only be
positive in the model; that it is a power of two makes `pos & mask_` the remainder.

**Allocator.** `next[s]` is the pointer that overlays slot s; once the slot is
handed out its value is `Overwritten` (the holder's data), which lies outside the
pool, so any use of it shows. `live` is what callers hold, `free_list` an
auxiliary sequence used by the invariant and the proofs.

**Engine.** `block`, `order_buffer`, `order_blocks_map`, the counts, the best
indices and the counters are the engine's members. One operation is several steps,
because each `publish` may wait for the outgoing queue: `InsertOrder` up to the
Accepted message; per trade `FillIncoming` and `FillResting`; then one of
`Filled`, `CancelMarketRest`, `CancelPoolFull`, `RestOrder`. A cancel publishes
once, at its end, and is one step. The buy and the sell functions of the code are
mirror images except for their loop conditions and index loops, which are kept
apart (`BuyMatches`/`SellMatches`, `NextBestSell`/`NextBestBuy`). The pool is
instance `Pool` of `Allocator`. A freed block's side reads `overlaid`, as the
free-list pointer lies over it. `open` is a ghost: what the published messages
tell a client is still open of its order. A side other than B and S throws on the
engine thread and ends the process (`InvalidSide`). Prices lie in
`0 .. BUFFER_SIZE - 1` or are the market price, which the README of the order
book requires of the inbound side; price 0 is included, and works.

**Pipeline.** The queues are the FIFOs that `SpscQueue` implements. The reader
takes the oldest completion, locks, and handles it; for a message it unlocks,
enqueues, locks again and submits the next recv. Which answer the engine gives is
left open: none for a type it cannot decode, one for a cancel, and for an order one,
two more per trade (to the sender and to any other party) and one more if something
is cancelled. The writer locks for each send. The kernel is external: submitted operations complete in any order, may
fail, and a send may go out in pieces. Critical sections are separate steps, so
that a thread can be seen holding the mutex.

**MpmcQueue.** A thread's call is a load of the shared position, an acquire load
of the cell's number, the compare-and-swap, the copy and the release store; each
is a step, and so is a failing exchange, which may fail spuriously
(`compare_exchange_weak`) and reloads the position. A refused call is made again,
as in `producer` and `consumer`. The position is a local variable and is
forgotten between calls. `claimed` (the item of a position between its claim and
its read) and `taken` are ghosts. As with `SpscQueue`, cells are handed over by an
acquire/release pair, and `CellExclusive` is what makes interleaving the plain
copies enough.

**Arena and the arena allocators.** The heap is a function from word addresses
to words, so headers, flags, footers, entries and links are where the code puts
them, stale ones included: a reset or a merge leaves them in place. One address is
8 bytes, `sizeof(size_t)`; `ALIGN` (16) is 2. A call is one step. Between calls the
caller fills the words it asked for, so a call that writes a tag or a link into a
held payload shows (`HeldIntact`). Searches, splits and merges read the image only
through what the code reads. mmap may fail; where the code keeps the failed
address, the model keeps it, and what malloc and free do with such an arena is
outside the code's contract and not taken. The improved list's second region lies
right behind its first, so that a block that outgrew the first would be seen in
the second. One `Allocator` exists at a time. Frees are of pointers the caller
holds, of NULL, and of blocks that are free already and still blocks of their own.
`Allocators` chooses one allocator in the initial state; `HeapSpec` maps each to
the abstract `Heap`: malloc returns a region disjoint from all others or nothing,
and only the caller's own calls take a region away.

**Books.** The buy and sell halves of each book are the same code with its
comparisons turned round, and every operator takes the side; the comparisons
themselves are those of `base.hpp`, with the id as the second key. The list and
the tick book are modelled at pointer level, with the code's separate cases for
head, middle and tail; a block's address is its id. `LockstepBooks` makes each call
on all three, as the benchmark does. Its cancels use the id the insertion
returned, which is one higher in the list and the vector than in the tick book.
`overtaken` is a history variable: it remembers that a market order has come to rest
at the tick of an older limit order, after which the books differ (Findings).

**Codec, EpollServer.** Offsets and widths are written down once per view and once
per builder, as in the code, so that a disagreement of the two shows. Numbers are
big-endian and strings padded; a byte has eight values, which keep type letters,
padding and digits apart. The server's `read` fills a prefix of an uninitialised
buffer: the rest is a value of its own that no field may contain. Registration may
fail, writes may be short or fail, peers may vanish and descriptors are used
again. The engine accepts an order, trades it with any orders entered before, up to
`MaxTrades` of them, and leaves the rest on the book or cancels it; it answers a
cancel with either message. Prices of trades are the incoming order's, and all
trades of a sweep but the last are of one share: the quantities only have to be
carried unchanged. A read that fails closes the connection with what was unread. A
`read` returns one whole request, which the design document assumes. A closed
connection, and one to which a write fell short, is not followed further.

**EchoServers.** A byte is its sender and its position, so a byte on the wrong
connection or out of order shows. The ring's operations name descriptors, and the
kernel serves whoever has the descriptor when it gets to them.

**FramingServer.** The parser takes one character at a time with its three
variables. `recv` returns any part of what has arrived. The client's last write
includes the NUL of its literal; it writes all of its messages before it closes. A
`recv` that fails changes nothing, and is a stuttering step. `size_t` has 16 bits
here. A message has one to
99 characters (`FeedsAssumption`), so that its length has one digit or two.

**StreamReceiver.** epoll is level-triggered; each ready descriptor is handled in
turn, in any order, after the call that reported it, and the listening descriptor
gives one connection per call. `connect`, `accept4`, `epoll_ctl` and `read` may fail,
`MaxFailures` times in all: a connection that was not accepted stays in the backlog,
a client that was not registered is never heard again, a failed `read` leaves its
bytes for the next turn, and `send` on the socket of a failed `connect` ends the
process with SIGPIPE (the kernel's part, external). `epoll_wait` interrupted by a
signal reports nothing and is a stuttering step. The loop ends when two messages have
been printed, one per sender of the program, and `main` then joins the sender thread.

**GapDetector.** The network loses, doubles and reorders datagrams, and the
subscriber leaves and joins by turns, as its loop does.

**ThreadPool.** An operation of a worker's queue holds that queue's mutex
throughout and is one step; `cv_mutex` is held over several steps and is a
variable. A worker serves its own queue, then tries each queue in turn, then takes
`cv_mutex` and evaluates the predicate one queue per step, while tasks may arrive
in queues it has passed. `condition_variable_any` is external: notify_all sends
every sleeper back for the mutex, a wait with a stop token leaves when stop was
requested and otherwise releases and blocks in one step, and spurious wake-ups may
happen. Each job has its own calling thread. The destructor stops the workers in
order, joins them, and then destroys the queues, which breaks the promises in them.
The lock that `schedule_job` takes around notify_all closes a window only in a pool
of one worker: with two or more, a worker that misses a notification is inside its
predicate, so every other worker is awake or is woken by that same notification.

## 3. Runs

| Run | Bounds | Question |
|---|---|---|
| `spsc_queue` | 2 cells, 2 payloads, 5 messages (the ring wraps twice) | `QueueInv`, `NoDataRace`, refinement `FifoSpec`, liveness `NobodySpinsForever` |
| `allocators` | pool of 5 slots; arenas of 9 words (bump and C++, requests of 1 and 4 words), 3 and 14 (implicit), 9 (improved, requests of 0 and 1) and 13, 4 and 15 (coalescing), 4, 15 and 25 (explicit); unbounded calls | `FreeListInv`, `FullMeansAllLive`, `NoDoubleAllocation` of the pool; `BlocksTile`, `HeldIntact`, `NoFreeNeighbours`, `ListIsFreeBlocks` and refinement `HeapSpec` of the others |
| `coalescing_alignment` | arena of 15 words | expected violation, see Findings |
| `engine` | 3 prices, pool of 3, 2 accounts with 2 UserRefNums, quantities 0 to 2, 4 orders, unbounded cancels | structure, exactness of cached state, conservation, every matching turn trades (`InsertAdvances`), refinement `PriceTimePriority` |
| `engine_reused_ref` | 2 prices, pool of 2, 3 orders, UserRefNums may be reused | expected violation, see Findings |
| `pipeline` | 2 clients, queues of 2, sends in up to 2 pieces, 1 request with up to 1 trade, 2 faults | `RingExclusive`, `OneReadPerClient`, `NoResponseLost` |
| `pipeline_drains` | 1 client, queues of 1, sends in up to 2 pieces, 3 requests with up to 1 trade | liveness `Drains`: no circle of waiting threads, short sends are finished |
| `mpmc_queue` | 4 cells (the smallest the constructor accepts), 2 producers, 2 consumers, 3 items each | `CellExclusive`, `SequenceInv`, `TakenIsClaimed`, liveness `AllJoin` |
| `thread_pool` | 2 workers, 3 jobs | `JobInOnePlace`, `SomebodyAwake`, liveness `FutureSettles`, `DestructorReturns` |
| `books` | 5 ticks, limit orders on the lowest 3, sizes 1 and 2, 5 orders, unbounded cancels | `BooksAgree`, `BooksSound` |
| `wire` | 3 connections on 2 descriptors, 2 requests, orders of up to 2 trades, queues of 2 | `RequestsIntact`, `ResponsesIntact` |
| `feeds` | 2 conversations of 3 and 5 messages, receives of up to 8 bytes; 2 senders of 12 bytes to messages of 10, 2 failing calls; 3 peers on 2 descriptors with 2 bytes each; 5 datagrams, membership changing every 2 turns | `FramesIntact`, `EchoesOwnBytes`, `GapsReported`, liveness `EverySenderPrinted` |

The type invariant of a module is a conjunct of its main structural invariant
(`LevelsInv`, `NoResponseLost`, `SequenceInv`, `BlocksTile`, `JobInOnePlace`) where
it has no row of its own.

Why the bounds are enough. Ring: what matters is the distance of the two
positions (0 to S) and the lap; five messages on two cells reach every distance
on three laps. Engine: four orders on three prices give two orders on one level
and one elsewhere, a taker that walks two levels or exhausts one side, unlinking
at head, middle (three on one level) and tail, a full pool of three, and a cancel
at any of these points; two accounts with the same two UserRefNums separate keys.
Pipeline: for the circle of waiting threads, both queues must be full while
reader, engine and writer each hold one more, which three requests of up to four
answers do with queues of one place (only that a queue can be full and empty matters
to the threads; the `pipeline` run has queues of two); the mutant that keeps the
lock while enqueueing deadlocks here. A send is cut once in two pieces; the theorems are for any number of pieces and trades.
MPMC queue: six items on four cells fill the queue and start a second lap with two
threads contending on each side. Arenas: the smallest hold no block, so every
malloc fails; 14 or 15 words hold three blocks, which is what splitting and merging
with both neighbours take, with odd requests and blocks larger than asked for; 25
words hold five equal blocks, and the explicit list gets three nodes; requests of 0
are the only ones that fill the improved list's entries before its data. Thread
pool: with two workers every queue is one that the other steals from, and three
jobs put two in one queue. Books: five orders on three limit prices and the two
market prices put three orders on one price, let a taker walk two prices, and cut
every list at head, middle and tail; limit and market sell orders meet at the lowest
tick in both orders. Wire: the third connection gets a used
descriptor; a field's digits all differ, so a shifted or swapped byte shows. Feeds:
frames of one and two length digits, with the bar as content, cut at every point;
five datagrams with a membership change between any two.

Receiver: two failures hit one client twice or both clients once, at any calls.

Deadlock checking is off for the SPSC ring, the pipeline, the wire and the feeds,
whose clients stop sending at the bound; liveness properties take its place in
three of them. It is on everywhere else.

Fairness. `SpscQueue!FairSpec`: weak fairness of each thread, which in `main.cpp`
loops for ever and waits for nothing but its cell. `Pipeline!FairSpec`: weak
fairness of each thread and of the completion of submitted sends, that is, peers
read or their connections fail (the order book's README: "if a consumer stalls,
the engine can stall too"). No fairness is assumed of the mutex's choice between
waiting threads, and none of the clients. `MpmcQueue!FairSpec`: every thread is
scheduled, and a weak exchange that could succeed again and again does succeed
(the standard allows spurious failure but hardware does not fail it for ever).
`ThreadPool!FairSpec`: every worker, every call once its ticket is drawn, and the
destructor once started go on; nothing is assumed of spurious wake-ups, and nobody
has to schedule a job or destroy the pool. `Feeds!Spec`: weak fairness of the
sender thread and of the receive loop of `multi_thread_rx`, each a thread that
waits for nothing but the socket it calls; nothing is assumed of the others. That
calls fail `MaxFailures` times at most says that `accept4` and `read`, which the loop
makes again, do not fail for ever.

## 4. Theorems

For every `S >= 2` and every set of payloads (`SpscQueueProofs`): `TypeCorrect`,
`QueueCorrect`, `NoRace`, `Refinement`. `NoDataRace` is not inductive: it says
nothing of the cells' numbers. `QueueInv` adds what the numbers mean: with
`Published` and `Freed` the positions whose release stores have been made,
positions `Freed .. Published-1` have `p + 1` in their cell and
`Published .. Freed+S-1` have `p`; and a thread past its acquire load still has
its cell. The arithmetic rests on two lemmas, `DistinctCells` (positions less
than S apart have different remainders) and `NextLap`. `S >= 2` is used at one
place, the producer's acquire load: in a full ring the cell it looks at holds
`E - S + 1`, which differs from `E` only then. The refinement maps the FIFO to
the payloads of positions `Taken .. Published-1`; enqueue takes effect at its
release store, dequeue when it moves the payload out.

For every pool size (`AllocatorProofs`): `PoolTypeCorrect`, `FreeListCorrect`,
`FullCorrect`, `AllocateFresh`, from the conjunction of `PoolTypeOK` and
`FreeListInv`, which is inductive: the pointer chain spells out `free_list`,
whose slots are distinct and are those nobody holds.

**The matching engine** (`EngineProofs`), for every number of levels, blocks,
clients and orders: `LevelsCorrect`, `BestCorrect`, `UncrossedCorrect`,
`NoUseAfterFreeCorrect` and the action property `InsertAdvancesCorrect`. None of
these invariants is inductive by itself. A matching loop takes its
block from a best index: that this is a block at all, and of the side the loop
means, needs the indices exact, the two sides apart in the one array of levels, and
the lists sound; and removing a block keeps the indices exact only if its level's
list holds just the blocks of that price. `IndInv` is the conjunction: `Sound`
(types, open quantities, distinct ids, lists linked both ways by age, uncrossed),
`CountsInv`, `MapInv` (an entry of the cancel map leads to a live block of its
key), the pool's invariant, taken over from `AllocatorProofs` through an instance,
and `OrderInv` about the order in hand between two of its steps. `MapInv` and the
counts do not need distinct UserRefNums, so `NoUseAfterFree` holds with reused ones,
too. The lemmas are one
per change of the data structure (`Unlinked`, `Appended`, `Reduced`), over any
blocks and levels, and the actions cite them.

`CancelFindsOrderCorrect` and `ClientsKnowOpenQtyCorrect` assume `DistinctRefs`,
clients that use a UserRefNum once: without it both fail, which is the first
finding below. They add `ClientInv`, which relates `open` to the quantity in the
book and the quantity in hand, key by key.

`EngineRefines`: the pointer-level engine implements
`PriceTimeBook`. The book is the set of orders of the live blocks; each action is
one abstract step or none, and the two choices the abstract book makes freely are
where the work is: the front block of the level a loop stands on is the best and
the oldest order that crosses, and when a loop stops nothing crosses any more.

**The device and its threads** (`PipelineProofs`), for every set of clients, queue
size and number of pieces: `RingExclusiveCorrect`, `OneReadPerClientCorrect`,
`NoResponseLostCorrect`, whatever number of trades an order makes. `RingInv` ties the holder of the mutex to the places of
reader and writer, and says where the one recv of a connected client is: submitted,
completed and in the ring, or in the reader's hands. `OwedInv` adds that what is
owed equals the pieces in the outgoing queue, in the writer's hands, in the kernel
and among the completions. These are sums over a sequence and over a function; that
they change by what an append, a removal or an update says is proved first
(`TotalIs` and the lemmas behind it).

**The MPMC queue** (`MpmcQueueProofs`), for every power of two from 4 on, any equal
numbers of producers and consumers and any number of items: `SequenceCorrect`,
`NoSharedCell`, `DequeueReturnsClaimed`. Knowing what a cell's number means is not
enough. `CellsInv` gives each cell the position it serves, never more than a lap
behind `enqueue_ptr`; `ProducerInv` and `ConsumerInv` say what a thread between its
exchange and its release knows; and `ClaimInv` that a thread that has read the
number and not yet exchanged the position either finds the number unchanged or
fails its exchange, which is what makes the check before the exchange enough.

**The thread pool** (`ThreadPoolProofs`), for every number of workers and finite
set of jobs: `JobInOnePlaceCorrect`, `SomebodyAwakeCorrect`. `PlacesInv` keeps
queues and hands disjoint; `SleepInv` says that a worker that scans, is about to
sleep or sleeps has passed over no job whose `schedule_job` has returned, because
that call needs `cv_mutex` after its enqueue.

**The arena allocators** (`HeapProofs`), for every number of words, every set of
arena sizes and every workload, for all six at once: `BlocksTileCorrect`,
`HeldIntactCorrect`, `NoFreeNeighboursCorrect`, `ListCorrect`, `HeapRefines`.
None of the properties is inductive: that a walk by sizes ends at `last_ptr` says
nothing of what a call does to the words in between, and the list property
speaks of nodes met from HEAD. `HeapInv` (`HeapCorrect`) says instead which blocks
there are. The argument has five layers:

1. `Chain`: a set of headers whose blocks follow one another from `start_ptr` to
   `last_ptr`. The recursive functions behind the loops of the C code are shown to
   exist, by induction from the end of the arena down, and what they compute is read
   off the chain: `WalkIs` (collecting headers gives exactly the chain) and `FindIs`
   (a search ends at a free block that fits, or at `last_ptr`).
2. `Cut` and `Splice`: a call replaces the blocks between two headers by others that
   fill the same words and touches no word outside. Reusing, splitting, appending and
   freeing with or without neighbours are instances, and `Laid` (the allocated blocks
   are what is held, with the caller's words in them) survives each (`Handed`,
   `Released`).
3. `Heaped` adds boundary tags: footers repeat sizes and no two free blocks touch.
   `Merging` shows that the footer in front of a block leads to the header in front
   of it, and that one look to each side finds all there is to merge. The improved
   list has `Table` in place of a chain: entries in order, blocks in order, each
   naming the other.
4. `Ring` and `Cycle`: the free blocks named once each in the order they are linked.
   Unlinking, pushing and replacing a node are shown on the links alone (`Unlinked`,
   `Pushed`, `Replaced`), for blocks at least five words apart, and `CycleIs` reads
   the property off the ring: as many steps from HEAD as there are free blocks meet
   each of them.
5. `Listing` joins the two: links lie inside free payloads, so they disturb neither
   tags nor what callers hold, and tags disturb no links.

Two hypotheses are about callers. `Nonzero`: nobody asks the explicit list for 0
words, for a block of 0 words has no room for its links (see Findings); the theorems
about all allocators carry it because the explicit list is one of them.
`HeapRefines` assumes that no request at all is of 0 words: for those a bump
allocator returns one address twice and the implicit lists may return the address
behind the arena, neither of which is a region. The run checks the refinement with
requests of 0 to the improved list inside its arena, which the theorem leaves out.
Sizes and addresses are natural numbers, so a request that wraps when rounded is
outside the theorems.

**The networking exercises** (`FeedsProofs`):

* `EchoesCorrect`, for any clients and descriptors. The bytes of a client lie in up
  to three places, its stream to the server, the buffer of a submitted write and
  its stream back. `BytesInv` orders them by position, and `RingInv` says that at
  most one operation of the ring names a descriptor in use, and none a closed one,
  so that a descriptor used again carries nothing over.
* `GapsCorrect`, for any number of messages and any loss or reordering. `GapInv`
  adds to the property that the last number received was received, which a report
  needs to reach up to what is known already.
* `FramesCorrect`, for every conversation and buffer size. `FramingInv`: the
  client's text is what was parsed, what the socket holds and what is unsent, in
  this order, and the parser is where that much of the text leads it (`ParserAt`):
  in frame i, after j of its characters, with messages `1 .. i - 1` printed.
  `FlattenLayout` says where each frame lies in the text, `FrameStep` what one
  character of it does, and `ParserSteps` that the fold over a receive is that many
  steps.

Assumptions. Those on constants are the ASSUMEs of the modules: what the code
checks (`Size` of the MPMC queue, S of the ring), what it is compiled with (sizes
not 0, a market price above the last level), and names that must differ
(`NoClient`, `NoTask`). `ArenaAssumption` says that an arena fits into the words
there are to map, twice in the improved list. `FeedsAssumption` bounds the length of a message by two
digits.

Induction. The library's induction theorems cannot be applied with the provers at
hand, so where a proof goes by induction (sums, folds, flattened sequences, the
characters of a receive, walks through a heap, nodes of a ring) the module proves that a set of naturals with 0 and closed
under successor is all of them (`AllOf`), from the well-foundedness of `<`. That a
fold's or a sum's recursive function exists is proved in the same way.

`TypeCorrect`, `PoolTypeCorrect` and `HeapCorrect` stand for themselves; every other
theorem states a property of a run.

Only model-checked:

* liveness (`NobodySpinsForever`, `Drains`, `AllJoin`, `FutureSettles`,
  `DestructorReturns`, `EverySenderPrinted`): the prover does not reason about
  fairness;
* the books (`BooksAgree`, `BooksSound`), whose operators walk a list by RECURSIVE
  operators, out of the prover's reach;
* the wire (`RequestsIntact`, `ResponsesIntact`), a statement about concrete
  layouts, which the run enumerates.

## 5. Findings

* **Reused UserRefNum** (`engine_reused_ref`). A second order entered under the
  key of a resting one takes over the map entry; when one of the two leaves, a
  cancel of the other gets a Cancel Reject although it rests. The order book's
  README promises the reject only when the order is missing or would not shrink.
* **Alignment in the coalescing list** (`coalescing_alignment`). The comment in
  `alloc_malloc` says that all payloads stay 16-byte aligned because the header
  has 16 bytes. The footer adds 8, so every second block's payload is only 8-byte
  aligned. The explicit list has the same layout.

Seen while modelling, without a run of their own:

* The tick book lets an unmatched market sell order rest at price 1, the other two
  at 0. After a limit sell order at price 1 it queues behind it in the tick book and
  before it in the others, and the next market buy order trades with different
  orders. The benchmark draws prices from 1 on and calls the results directly
  comparable. `BooksAgree` says that nothing else can part the books; with its
  disjunct `overtaken` taken out, the `books` run shows the difference after two
  calls. Buy orders have the same at Size - 1, which the benchmark's prices keep
  clear of.
* A ring of one cell: the `static_assert` in `queues.hpp` accepts S = 1, where
  "published at position p" and "free for position p + 1" are the same number.
  `main.cpp` uses 2048 cells, and the theorems assume two or more.
* In both boundary-tag allocators a block that is merged into the one in front
  keeps a stale header with the flag set, so a second free of it is accepted; the
  rejection that `test.c` asks for holds for blocks that were not merged.
* A request of 0 bytes gives the explicit list a block without the two words its
  links need; in the improved list such a block at the very end of the data region
  has a payload address that free rejects. Rounding a request just below SIZE_MAX
  wraps around. All `Allocator`s of a program share the explicit list's `HEAD`.
* The epoll device and both echo servers drop the rest of a short write, and the
  client's stream is out of step from then on (`ResponsesIntact` is stated for
  streams that no write has cut). The io_uring device submits the rest again, but
  behind responses the writer has submitted meanwhile; it never closes the
  descriptors of clients that have left. The epoll device closes them, and the next
  client with that number takes over the orders that rest under it.
* `multi_thread_rx` leaves a client that `epoll_ctl` refused neither registered nor
  closed and waits for its message for ever; a failed `connect` is only printed, and
  the first send on that socket ends the process. `EverySenderPrinted` says so.
* The framing server never completes a message of length 0 and writes a message of
  `BUFFER_SIZE` characters or more past its buffer; the client sends neither.
* The UDP subscriber follows late datagrams backwards and then reports messages
  missing that did arrive, and it cannot see the loss of message 0.
* `pop` of the lock-free stack dereferences null on an empty stack, and `empty()`
  of the SPSC ring would race with both ends; nothing calls either that way.

## 6. Not modelled, and plan

Out of the models: symbol, timestamps, capacity and the other fields the engine
only echoes (the codec has them); prices, match numbers and reason codes inside the
engine's messages; socket setup; what happens after an out-of-range price (the
inbound side must reject it); destructors that only free memory.

Components without a module:

* `mpsc_queue`: it has no caller. Its enqueue is the MPMC queue's that yields and
  retries instead of refusing, its dequeue is the SPSC ring's.
* Producer/consumer with a mutex: two threads and one hand-off each, in one critical
  section or behind one flag.
* The mutex, ring and linked SPSC queues: steps towards the SPSC ring that is
  modelled and proved.
* The lock-free stack: one thread pushes and pops once, and `shared_ptr` counts
  references, so that the ABA problem does not arise.
* Hello-world threads and counters; benchmarks, the performance and compiler
  atlases, theory notes: they measure time and have no state to check.

Plan, in order:

1. Proofs: `RequestsIntact` of `EpollServer` for any number of connections and
   descriptors.
2. The MPMC queue against an abstract queue, with `mpsc_queue` as a second
   implementation.
3. The order of a client's bytes in `Pipeline`, and two arenas that share `HEAD`.
4. The three books against `PriceTimeBook`.
