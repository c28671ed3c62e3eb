# A TLA+ model of OS_Exploring

OS_Exploring is a course on operating systems in the form of about 130 small C
programs, one directory per day (`src/d1_...` to `src/d27_...`).  Each program
is complete in itself; nothing is shared between them but the ideas.  The
repository has no tests and no documentation apart from the comments in the code
and the output the programs print, so the comments are what the code is held to.

This directory holds TLA+ models of the programs that carry an algorithm or a
protocol, TLC configurations that check them on small instances, and TLAPS proofs
of the most important properties for all sizes.

## 1. Inventory

| Part | Source | State | Operations | What is hard, and what must hold |
|---|---|---|---|---|
| Bounded buffer | d12 `consumer_producer.c` | `data`, `count`, mutex, two semaphores | `product_item`, `consume_item`, main's creates and joins | interleavings; nothing but the semaphores bounds `count`; no item lost or doubled, all joins return |
| Dining philosophers | d13 `demo_deadlock.c` | forks (mutexes) | `philosopher_activity` | circular waiting; the parity rule must exclude it |
| Thread pool | d10 `single_thread_pool.c` | ring of tasks, mutex, two conditions, `shutdown` | `create/start/destroy_thread_pool`, `add_task`, `worker_thread` | signals after the unlock, spurious wakeups, destroy racing the workers; no task lost or run twice, no lost wakeup, destroy returns |
| Thread-safe queue | d8 `combined.c` | ring `data`, `front`, `rear`, mutex, two conditions | `queue_push`, `queue_pop`, main | one slot unused, wrap-around, re-test after a wait; it is a FIFO queue |
| Shared counters | d11 `demo_race_condition.c`, d7 `thread_concepts.c` | `shared_counter`, mutex | the increments | lost updates; the locked versions lose none |
| One-cell handoff | d9 `demo_thread_communication.c`, `real_time_communication.c` | cell, flag, mutex, condition | producer, consumer | flag never reset in the one, samples overwritten in the other; what may be received |
| Pipe ping-pong | d6 `context_switch_measuring.c` | one pipe | parent, child | both processes read the pipe both write; neither may hang |
| Banker's algorithm | d14 `Safety_algorithm.c`, `Banker_algorithm.c` | `max`, `allocation`, `need`, `available` | `isSafe`, `requestResources` | greedy scan without backtracking, tentative grant and rollback; safe stays safe |
| Wait-for graph | d14 `Wait-for_graph.c` | adjacency matrix, `visited`, `recStack` | `detectCycleDFS`, `detectDeadLock` | told apart: visited and on the path; exactly the cycles are found |
| Resource ordering | d14 `ResourceOrderingSystem.c` | `priority`, `available`, last resource | `requestResource` | several clients; no circular wait |
| Deadlock recovery | d14 `recoverFromDeadlock.c` | priorities, ages, resources held | `selectVictimProcess`, `releaseResources` | everyone's turn comes |
| Resource allocation graph | d14 `Resource_Allocation_Graph.c` | `allocation`, `request`, `available` | `detectDeadLock` | the loop must end |
| Page replacement | d19, d20 | frames, FIFO head, stamps | `FIFO-`, `LRU-`, `optimalPageReplacement` | which page goes; optimal is optimal |
| Demand paging | d15 `Virtual_Memory.c` | page table, frame table | `accessMemory`, `allocateFrame` | all frames used; no shared frame |
| Address translation | d16 `Translation_mechanism.c`, `AddressTranslator.c` | TLB, page table, clock; address map | `translateAddress`, `createAddressMapping` | evictions, clock overflow, remapping; the buffer is transparent |
| Memory hierarchy | d15 `Memory_Hierarchy.c` | two caches, main memory | `accessMemory` | fills at a wrong index; no wrong data |
| First-fit allocator | d15 `First_Fit_alloc.c` | headers in the memory, `free_list`, `used_size` | `memoryAlloc`, `memoryFree` | long sequences of splits and merges; the list tiles the memory |
| Partition allocator | d17 `Memory_Allocation_Algo.c` | block lists | `allocMemory`, three strategies | exact fits; lists stay in order |
| Memory pool | d24 `Memory_Pool.c` | free list inside the blocks | `pool_init`, `advanced_pool_create`, `pool_alloc`, `pool_free` | clients overwrite the links; alignment |
| Allocators of d18 | d18 `Memory_Allocators.c` | flags and `free_blocks`; list of variable blocks | `allocateFixedBlock`, `freeFixedBlock`, `allocateVariableBlock` | double frees; splits, no block without a header's room |
| Heap allocator | d23 `Custom_Memory_Allocator.c` | `free_list`, `used_list`, `total_size`, `used_size`, table of `debug_malloc` | `init_heap`, `custom_malloc`, `custom_free`, `debug_malloc`, `debug_free` | growth while a fit is looked for, the two lists; blocks never overlap, the two lists share the memory out |
| Segmentation | d21 `memory_segmentation.c` | two segment tables, memory | create, allocate, share, translate | limits of 0, a place given twice, a full target table; first fit, shared entries lead to the bytes of their source |
| Segments of d16 | d16 `Segmentations.c` | segment table | add, translate | not modelled: `addSegment` never counts what it adds |
| Compaction, protection | d17 `Memory_Compaction.c`, `Memory_Protection.c` | block list, regions | compact, check | not modelled: see section 6 |
| Set-associative cache | d15 `Cache_Memory_Management.c` | sets of lines | lookup, replace | not modelled: see section 6 |
| Open files | d25 `file_system_interface.c` | handle table, `file_count` | `fs_open`, `fs_read`, `fs_write`, `fs_close` | descriptors reused, a close that fails; no descriptor without a handle, one handle per descriptor |
| File buffering | d25 `buffering_system.c` | buffer, position, size, dirty flag | `buffer_read`, `buffer_write`, `buffer_flush` | full and empty buffers, short reads, failing calls; bytes in order until a read fails, each call ends |
| Descriptor table | d25 `file_descriptor_management.c` | table of descriptors | enter, take out | not modelled: the same table as `file_system_interface.c` |
| Directories | d26 `directory_implementation.c`, `directory_operations.c` | entries, journal, cache of directories, clock | `add_directory_entry`, `log_directory_operation`, `recover_directory_state`; `cache_lookup`, `cache_insert` | a crash between log and operation, torn records, a cache at its limit; recovery gives the directory that was logged, but for records behind a torn one |
| Block allocators | d27 `contiguous_`, `extent_based_`, `indexed_`, `dynamic_block_allocation.c`, `linked_allocations.c`, `block_size_optimization.c` | marks, free lists, chains | `allocate_contiguous`, `allocate_extent`, `allocate_linked_block`, `create_indexed_file`, `allocate_blocks`, `allocate_optimal_block` | gaps, requests of 0, uninitialised marks; no block twice |
| Transaction log | d27 `recovery.c` | `journal_entries`, `journal_count` | `log_transaction`, `create_checkpoint`, `destroy_recovery_manager` | full journal, failing `malloc`; nothing lost, printed twice or freed twice |
| Prefetch queue | d27 `performance_optimization.c` | queue, heat map | `update_access_pattern`, `predict_next_blocks`, `queue_prefetch` | the queue at its limit |
| Free regions | d27 `fragmentation_management.c` | `free_regions`, `region_count`, metrics | `update_fragmentation_metrics`, `defragment` | sort and merge in place; no free block lost, none doubled |
| Index levels | d27 `multi_level_index_allocation.c` | direct, indirect and double indirect indices | create, look up | boundaries between the levels |
| Hybrid allocation | d27 `hybrid_allocation.c` | an allocator of one of several types | allocate | not modelled: see section 6 |
| CPU scheduling | d4, d5 | process tables, clock | FCFS, SJF, priority, round robin | arrivals while another runs, ties, idle time; the order and the reported times, where the code computes them right |
| Data-parallel programs | d9 `working_template.c`, `process_thread_implementation.c`, `compare_performance.c` | array, pieces, workers | create, work, join; fork, work, wait | remainders, more workers than items, a fork that fails; each item once |
| Demonstrations | d1-d3, parts of d6-d10, d22, d25, `Serial_Communications` | none of their own | system calls and output | nothing to check |

The programs do not interact.  Inside a program the interaction is that of
threads over shared variables (d6-d13), of a client and an allocator (d15-d24),
or of a caller and the function it calls (d14, d20).  What is hard to test is
listed, line by line, under `hazards` in `PROJECT.json`, with the properties that
would catch it going wrong.

## 2. Modules

| Module | Models |
|---|---|
| `ProducerConsumer`, `ProducerConsumerProofs` | d12 `consumer_producer.c` |
| `Philosophers` | d13 `demo_deadlock.c`, with its proofs at the end |
| `ThreadPool`, `ThreadPoolProofs` | d10 `single_thread_pool.c` |
| `BoundedFIFO` | the abstract queue that `SafeQueue` implements |
| `SafeQueue`, `SafeQueueProofs` | d8 `combined.c` |
| `Banker` | d14, the two banker programs: the scan both share, and the requests of the second |
| `WaitForGraph`, `ResourceOrdering`, `DeadlockRecovery` | d14, three tools |
| `ResourceAllocationGraph` | d14 `Resource_Allocation_Graph.c` |
| `PartitionedWork` | d9, the data-parallel programs |
| `SharedCounter`, `Handoff`, `PipePingPong` | d6, d7, d9, d11 |
| `PageReplacement`, `DemandPaging`, `TLB`, `AddressMap`, `MemoryHierarchy` | d15, d16, d19, d20 (d19 and d20 hold the same code) |
| `FirstFit`, `Partitions`, `MemoryPool`, `MemoryAllocators` | the allocators of d15, d17, d24 and d18 |
| `HeapAllocator`, `Segments` | d23 `Custom_Memory_Allocator.c`, d21 `memory_segmentation.c` |
| `Schedulers` | d4, d5 |
| `OpenFiles`, `BufferedFile` | d25 `file_system_interface.c`, `buffering_system.c` |
| `Directories`, `DirectoryCache` | d26: a directory with its journal, and the cache of directories |
| `BlockAllocators`, `FreeRegions`, `MultiLevelIndex`, `TransactionLog`, `PrefetchQueue` | d27 |
| `MCDeadlock`, `DeadlockProofs` | runs the banker, the wait-for graph, the ordering and the recovery |
| `MCThreads`, `ThreadsProofs` | runs the workers of `PartitionedWork`, the counters, the handoffs and the pipe |
| `MCMemory`, `MemoryProofs` | runs the allocators, the segments and the paging programs |
| `MCSystem`, `SystemProofs` | runs the schedulers and the programs of d25, d26 and d27 |

A suite module (`MCDeadlock`, `MCThreads`, `MCMemory`, `MCSystem`) starts one of
several independent programs and lets that one run: a variable says which, and
the variables of the others keep a fixed value.  A proof about a program of a suite
is in the suite's proof module and its theorem is about the suite's specification.

How code becomes actions:

* **Threads.**  A thread has a program counter.  A step ends wherever another
  thread could notice it: at a lock, an unlock, a wait, a post, and at every
  access to shared data outside a lock.  A section under a lock that only
  touches what the lock guards is one step (`ThreadPool`), unless the property
  is about what happens inside (`ProducerConsumer`, `SafeQueue`, `Handoff`).
* **Condition variables.**  `pthread_cond_wait` releases the mutex and sleeps; a
  woken thread competes for the mutex again and re-tests its `while`.  A signal
  wakes any one waiter, a broadcast all, and a waiter may wake without either.
  A signal that the code sends after the unlock is a step of its own.
* **Data races.**  The unlocked `shared_counter++` is a load, an addition and a
  store; the compiler may keep the counter in a register, so a thread may also
  make several additions between a load and a store.
* **Sequential code.**  One turn of the loop that matters is one step
  (`isSafe`, the search, the replacement loops, the first-fit walk); short
  functions are one step.
* **Clients.**  Where a file has no main, or main makes a few fixed calls, the
  client is any sequence of legal calls: the thread pool is destroyed when no
  `add_task` is in progress; an allocator gets back only pointers it gave out
  (except `freeFixedBlock`, which checks); a page is mapped in the TLB's page
  table once.  `recoverFromDeadlock` is called again until nothing is held; its main
  calls it once.  Nobody writes to the memory behind the segments, as no code does.
* **Data.**  Items are pairs <<thread, round>> so that two are never confused;
  the data of a memory cell is its address; addresses in the allocators count
  units, of which a header takes `HEADER`.
* **Crashes.**  `Directories` is the one program that prepares for them: it logs an
  operation to a file before performing it.  A crash may come between the two, and in
  the middle of a record (which is longer than a buffer of stdio); memory
  is lost, what reached the file stays, and the next start replays it.  The history
  variable `spoiled` marks the runs in which the code itself cannot
  recover: records after a torn one, an operation logged without its entry, and the
  entry that `init_directory` leaves unwritten holding a client's name.
* **Failing calls.**  `fork` (`PartitionedWork`), `malloc` (`TransactionLog`), `sbrk`
  (`HeapAllocator`), `read`, `write`, `open` and `close` (`BufferedFile`, `OpenFiles`) may
  fail, and `read` may be short.  A failed `read` goes on as in the code: the size becomes
  `SIZE_MAX` and the calls that follow return stale bytes (`CopyStale`).
* **Functions the repository does not define.**  `directory_operations.c`,
  `fragmentation_management.c` and `multi_level_index_allocation.c` use functions or
  clients that are in no file (removing an entry, giving blocks back, filling the
  index).  They do what their names say, and are marked external in the map.  Of
  `flush_joural_entries` the model assumes that it empties the journal in memory and does
  not write its entries to the file, where each of them is already; if it did, every
  record would be in the file twice.
* **Left out.**  Printed text, sleeps (any delay is possible anyway), time
  measurements, statistics that nothing reads, and failures of `malloc` that only end
  the program.

`ThreadPool` reads two misspelt names of its file as what they mean; without
that the file does not compile.

## 3. Runs

`tlc -workers 2 -config X.cfg M`, for each run of `PROJECT.json`:

| Run | Module, cfg | Checks |
|---|---|---|
| `producer_consumer` | `ProducerConsumer` | `SlotAccounting`: semaphores, threads in between and `count` add up; `InBounds`; `EveryItemOnce`; `Terminates` |
| `philosophers` | `Philosophers` | `NoSharedFork`, `NoCircularWait` at every moment, `SomeoneEats` for ever |
| `thread_pool` | `ThreadPool` | `TaskConservation`, `NoLostWakeup`, `NoUseAfterFree`, `TasksRun`, `DestroyReturns` |
| `safe_queue` | `SafeQueue` | `ImplementsFIFO` (refinement of `BoundedFIFO`), `Terminates` |
| `deadlock_tools` | `MCDeadlock`, `Deadlock.cfg` | `VerdictExact`: the greedy scan answers safe exactly when some order lets all finish; `SafetyKept`; `RollbackExact`; `Conservation`; `RequestsReturn`; `SearchExact`: a cycle is reported exactly when there is one; `OrderingNoDeadlock`; `RecoveryAllReleased` |
| `threads` | `MCThreads`, `Threads.cfg` | `CounterValues`: what each counter demonstration may print; `CellValues`: how old or repeated a received value may be; `EachItemOnce`: when main has waited, each item of the array was processed once, but for the pieces of children that `fork` did not start; `ProgramsEnd` |
| `memory` | `MCMemory`, `Memory.cfg` | `HeapTiled`, `HeldExact` for the first-fit allocator; `AllocatorsSound` for partitions, pool and the allocators of d18; `HeapSound`: the two lists of the heap allocator share the memory out; `SegmentsKept`: every placed segment, main's three in a row too, has the lowest free bytes that hold it, which may be those of another, and one shared after it was placed is the same bytes through both tables, also when sharing has overwritten the size of the second (that two segments lie apart is not claimed: it is false); `ResidentPages`: FIFO and LRU against their definitions; `FewestFaults`: optimal replacement against every other choice of victims; `FramesDisjoint`; `LookupsExact` |
| `system` | `MCSystem`, `System.cfg` | `SchedulesExact`: reported times are those of the schedule run, except the waiting times of `priority_scheduling`, which are wrong (see Findings) and of which nothing is claimed, priorities are respected, no other scheduler completes more processes by any moment than shortest job first, round robin starves nobody; `StorageExact`: no block has two owners, no descriptor leaks and, while no close has failed, none has two handles, chains, counts, index levels and free regions are exact, but nothing is said of the triple indirect level nor of adjoining regions among three or more; `RecordsInOrder`: journal and prefetch queue keep what they are given, in order, each prediction has the hottest block in it or one as hot, and the file buffer delivers the file's bytes in order until a read fails; `DirectoryRecovered`: wherever crashes fall, replay gives the directory that was logged, unless further records follow a torn one (or the run is `spoiled` otherwise, see section 2) |
| `rag_detection` | `ResourceAllocationGraph` | violated: `DetectionReturns` |
| `advanced_pool` | `MemoryPool`, `AdvancedPool.cfg` | violated: `AllocNeverCrashes` |
| `directory_cache` | `DirectoryCache` | violated: `EvictedIsGone` |
| `buffered_file` | `BufferedFile` | violated: `WriteReturns` |

Every property of a passing run has a mutant in `PROJECT.json`: a definition that
models code, changed the way a plausible bug would change it (the operators marked
*Fault* in the modules), under which TLC finds the property violated.  A property of
several parts has one: that of `AllocatorsSound` is in the pool, that of
`StorageExact` in a block allocator.

### Bounds

* `producer_consumer`: 3 producers, 2 consumers, 2 rounds, 2 slots.  Both
  semaphores reach 0, several threads queue at each, and items are left at the end
  as in the program, whose own values (3, 2, 5 rounds, 10 slots) leave 5.  That
  what is left fits into the buffer is `SurplusAssumption`; only termination rests
  on it.
* `philosophers`: 5, the program's own number.
* `thread_pool`: 2 workers, 2 submitters with 3 tasks each, a ring of 2: it fills,
  empties and wraps around, and both submitters and both workers wait.
* `safe_queue`: capacity 2, 2 producers and 2 consumers, 3 rounds.
* `deadlock_tools`: all systems of 3 processes and 2 resources over the small claims,
  holdings and pools of `MCDeadlock`, safe and unsafe ones, and all request sequences;
  all directed graphs on 3 processes; 3 clients and 3 resources; 3 processes with
  different and equal priorities.
* `threads`: 3 threads, 3 increments; 4 rounds; 4 items for 3 workers, pieces of 1, 1
  and 2, so that the remainder falls to the last one.  More workers than items, where
  `chunk_size` is 0, is covered by the theorem `EachItemProcessedOnce` only.
* `memory`: first fit over 10 units with headers of 2 and requests of 0, 1 and 3, so
  up to four blocks with gaps that are reused, split, or taken whole; pools and tables
  of 4 blocks; a variable allocator of 18 units; a heap of 30 words that grows by
  pages of 24 up to 80, where `sbrk` fails, with headers of 5, even sizes and requests
  of 0, 1, 9 and 21, which fit exactly, split, and force growth; 3 segments with
  limits 0, 2 and 7 over 6 bytes, of which bytes 1 and 3 may not be free: the limits fit
  anywhere, behind or between them, or nowhere; the copy behind a full table overwrites
  its size, and copies further behind are not made.  Paging: all strings of 7
  references to 4 pages up to renaming, 1 to 3 frames; a TLB of 2 entries over 3 pages with a clock of 3 bits,
  which wraps around; 4 pages over 3 frames; 8 cells over levels of 1, 2 and 4.
* `system`: all tables of 3 processes arriving at 0 to 2 with bursts of 1 to 3 and two
  priorities, so that the processor idles, processes are preempted and tie; 6 blocks
  with requests of 0 to 3 and groups of 2 sub-blocks; 3 handles over 4 descriptors; a
  journal and a queue of 2 with up to 5 calls, which overrun them twice, with
  `MAX_PREFETCH` at the code's 256 (a window as long as that leaves no room for the
  hottest block, and `HottestAdded` says nothing of it); free regions in 5 blocks,
  enough for three of them in every order; an index of 2 direct blocks and indirect
  blocks of 2, filled up to the last double indirect one; a buffer of 2 over a file of
  5, with requests smaller and larger than the buffer (after a failed read no call begins
  past position 5); a directory of 3 names, 3
  records in the file (3 creations or a creation, a deletion and another) and a memory
  journal of 2.
* `directory_cache`: 2 slots and 3 paths, the least with an eviction that is not of
  the last slot.  `buffered_file`: a buffer of 2, requests of 1 and 3.

The suites and the violated runs switch the deadlock check off: their programs end,
or an allocator is full with nothing left to call.

### Fairness

Liveness is checked under weak fairness of each thread's own steps: a thread that
can run is scheduled in the end.  A mutex is not assumed to be fair to its waiters:
weak fairness of a `lock` step says nothing while others keep taking the mutex.
Condition variables may wake a waiter spuriously, but not for ever, or two
waiters could keep each other from running with nothing happening.  The sequential
programs (the banker's calls, `DeadlockRecovery`, `ResourceAllocationGraph`, a call of
`buffer_read` or `buffer_write` that has begun) just run on; nothing makes a client
begin a call.

### Findings

* `rag_detection`: `detectDeadLock` of d14 `Resource_Allocation_Graph.c` should
  "Find an unfinished process that can be completed" (line 47) but never tests
  `finish`: it completes a finished process again, sets `found`, and goes round
  for ever (while `work` does not overflow; the model has `Width`-bit integers
  and the loop stays endless).
* `advanced_pool`: `align_size` of d24 `Memory_Pool.c` has a logical `!` where the
  comment below it describes a bitwise complement.  It returns 0, all blocks of
  the pool coincide, and the second `pool_alloc` follows a null pointer.

* `directory_cache`: `cache_insert` of d26 frees the least recently used directory but
  gives up the last slot, so that the freed one can still be looked up.
* `buffered_file`: `buffer_flush` of d25 returns at once when the buffer is dirty, so
  `buffer_write` never ends once the buffer is full.

More, seen while modelling and kept in the models as the code has them:
`priority_scheduling` subtracts a `burst_time` that it has counted down to 0, so its
"Waiting" column repeats the turnaround time and its "Average Waiting Time" is wrong too
(`TimesExact` claims nothing of either);
`predict_next_blocks` says that the hot block is chosen "skipping already predicted"
(line 107) but only skips the current block, so a block may be queued twice
(`HottestAdded` holds for either choice: the predictions contain a block at least as
hot as any other accessed);
`custom_free` (d23) steps back one word too far from the data and follows the size of
the block as a pointer (`HeapAllocator` ends there); the sort in `defragment` (d27)
compares the wrong pair and leaves some orders of three regions unsorted, and with no
region it brings an old one back (`FreeRegions`); `get_block_address` (d27) subtracts
too little before the triple indirect level (`TripleAddress`); `allocateSegment` (d21)
marks nothing and nobody writes, so that two segments may get one place, `shareSegment`
writes behind a full table, and `createSegment` makes a segment valid before it has a
place (`Segments`); a failed `read` in `buffer_read` (d25, line 63) is taken for a full
buffer, whose stale bytes are returned as a success (`CopyStale`); a handle whose `close`
failed (d25) keeps a descriptor that the next `open` may return for another handle, so
that two handles share it and closing one closes the other's file (`HandlesExact` says
nothing of it, `CountKept` and `NoneLeaked` go on); `init_directory` (d26)
writes ".." over "." (`Directories`).

Three seen in code that is not modelled: `addSegment` (d16 `Segmentations.c`) never
increments `num_segments`; `path_resolution.c:43` (d26) compares where it should
assign; `Cache_Memory_Management.c:51` (d15) looks at entry `set_start + 1` in every turn of
its loop.

Three harmless disagreements met while modelling, kept in the models as the
code has them: `Memory_Hierarchy.c:104` fills the second-level cache at the index
of the first (`MainHit`); `worstFit` refuses a block that fits exactly
(`Partitions`), so a request may fail although the memory is there; the TLB
may evict a valid entry of stamp 0 while unused ones are left (`lru_idx`).

## 4. Proofs

`tlapm M.tla` for `Philosophers` and the seven proof modules, for all values of the
constants.  The
theorems `TypeCorrect` and `Invariance` state the inductive invariants; the others
state what the runs check.

* **`ProducerConsumerProofs`** (from `SizesAssumption`).  `InBounds` follows from
  `SlotAccounting`, which is not inductive alone: that a thread leaves a group of
  threads when it posts needs the control state.  The inductive invariant is `TypeOK /\
  Control /\ SlotAccounting`, where `Control` ties the program counters to `main` and to
  the mutex.  The counting uses cardinalities of the groups of threads between a wait
  and its post (`Joins`, `Leaves`, `Counted`).  For `EveryItemOnce` it is strengthened
  to `ItemInv`: the mutex is exclusive, a producer between its store and its `count++`
  has its item just above the buffer (`Armed`), and every item stored is in exactly one
  slot or was taken (`Placed`).
* **`Philosophers`**, its last part (from `RingAssumption`: an odd number, at least 3).
  The inductive invariant `TypeOK /\ Unborn /\ MutexesAgree` says that the forks' owners
  and the philosophers' program counters tell the same story.  `NoCircularWait` then
  follows from an argument on the parity rule (`OrderRises`): along a chain of waiting
  philosophers the rank would have to rise for ever.
* **`ThreadPoolProofs`** (from `PoolAssumption`).  `Lifecycle` ties the threads to what
  `destroy_thread_pool` has done, `Hands` says who has a task, `Ring` and `Placed` that
  the window from `front` to `rear` holds the tasks that wait, each once, and `Wakeups`
  is what replaces `NoLostWakeup` in the induction: for the sleepers beside a task or a
  free slot there are enough threads that have a signal still to send or are awake and
  will look.  `TaskConservation`, `NoLostWakeup` and `NoUseAfterFree` follow.
* **`SafeQueueProofs`** (from `QueueAssumption`).  The inductive invariant `TypeOK /\
  Locking /\ Looping /\ Pending` fixes who holds the mutex and what the thread between
  its test and its store knows of the ring.  The refinement mapping takes the slots from
  `front` to `rear` as the abstract queue; `InitRefines` and `StepRefines` show that
  every step is a push, a pop or a stutter.  The facts about the ring (`RingPush`,
  `RingPop`, `RingStore`) are proved once and cited.
* **`DeadlockProofs`** (from `BankerAssumption`, `RequestAssumption`,
  `DeadlockAssumption`).  The banker's inductive invariant `TypeOK /\ NeedOK /\
  Tentative /\ Scanned /\ Counted` records that `need = max - allocation`, what a
  request in progress has changed, and that the scan has so far built an order in which
  the finished processes can finish (`trail` holds the pool before each of them):
  `DeniedIsNoOp`, `StaysSafe` and the sound half of `VerdictExact`.  For the complete
  half, `Dominates` says that `work` is at least what any chain of finishing processes
  inside `finish` ends with, and `Exhausted` that nobody passed over in a round without
  success can go on: any order that lets everybody finish would have a first process
  outside `finish`, and that one could go on.  `Conservation` needs sums over the
  processes (`SumOf`, with its own lemmas).  The search: what is visited and no longer
  on the stack (`Black`) lies on no cycle and leads only to such vertices (`Explored`),
  and the stack is a path (`OnPath`).  The ordering: everybody holds only resources
  before the one it waits for (`Ascending`), so that along a circle of waiting the
  resources would rise for ever.
* **`ThreadsProofs`** (from `WorkAssumption`, `ThreadsAssumption`).  The workers: the
  pieces of `chunk_size` items lie one behind the other (`PieceBounds`), are disjoint
  (`PiecesDisjoint`) and, the last one taking the remainder, cover the array
  (`PiecesCover`, by the least piece that ends behind the item).  The inductive
  invariant `TypeOK /\ Loops /\ Progress /\ Joins` says that a worker's counter stays in
  its piece, that the items behind it were processed once and the others never, and that
  every wait of main took a worker unless none was left; the last part counts the joined
  workers, because `wait` returns for any child.  The handoffs: the cell is of this
  round or the one before (`HandoffInv`), and while the flag is up everything received
  is older than the cell (`RealTimeInv`).  The counters, for both programs at once:
  `IsSum` gives the number of turns taken so far.  With a lock the counter is that
  number except while its holder is about to store (`Locked`).  Without one (`Unlocked`)
  nobody has seen more than that number, and a thread past its first turn has seen a
  counter of at least 1, its own or a later store, so that it stores 2 or more; the last
  store of all ends some thread's last turn.  That gives the lower bound of 2 on what
  `demo_race_condition.c` can print.
* **`MemoryProofs`** (from `FirstFitAssumption`, `MemoryAssumption`).
  - First fit: `Valid(h, B)` says that the headers at `B` form a doubly linked list that
    tiles the memory, `Tight` that no two free blocks are neighbours (but for one in the
    middle of a `memoryFree`).  That `Blocks`, a walk from `free_list`, meets exactly
    such a `B` is shown once, by a least counterexample in each direction (`IsWalk`,
    `BlocksOf`).  Each operation on the list has a lemma: setting a flag, splitting
    (`SplitDone`), absorbing the next block (`Absorbs`), and what each does to the sum
    of the used sizes (`Weight`).
  - Demand paging and mapping: a used frame has one page (`DemandInv`, `MappingInv`).
  - The lookaside buffer: a mapping is final, so what is in the buffer agrees with the
    page table whatever the clock says (`BufferInv`).
  - The hierarchy: every valid block of a level holds the data of its address, wherever
    it stands (`HierarchyInv`).
  - The segments: a placed one is where first fit puts its limit (`InFirstPlace`), which
    depends on nothing but the limit, since the memory does not change; so a copy leads to
    the place that its source has whenever it is placed again (`SegmentInv`).
  - The partitions (`PartitionInv`, `Tiles`): the blocks lie end to end and all but the
    last are allocated, so that the last one is the only candidate of the three
    strategies.
  - The pool (`PoolInv`, `Threads`): there is a sequence of exactly the blocks nobody
    holds that the pointers in them follow, and what clients write into their own blocks
    cannot reach it.
  - The allocators of d18: `FixedInv` counts the blocks in use, `VarList` says that the
    list of the variable allocator tiles its memory, with a lemma for the split and one
    for the best fit; the walk over the list is the one of first fit (`IsWalk`).
  - Page replacement: `Serving` is what a turn of all three functions has in common.
    That optimal replacement is best is an exchange argument in one invariant, `Ahead`:
    for every stretch of the references to come, the optimal side's faults and the pages
    of the stretch that the other side has in its frames are together no more than the
    other's faults and the pages of the stretch that the optimal side has.  `Exchange`
    shows that one turn of each side keeps this, from the one thing `findFarthest`
    promises (`FarthestFound`: if the page that goes is used again before turn m, all
    the others are).  The rival of the model is such a side; FIFO and LRU, which ran
    before, are sides too, because their runs can be recorded (`Run`, `Recorded`) and
    replayed.  What FIFO keeps is read off the ring (`QueueInv`: from `head` on, the
    pages brought in last, in order), what LRU keeps off the stamps (`StampInv`: a stamp
    is the last reference to its page, and a page that is out was last referenced before
    all that are in).
  - The heap of d23: `Shared` says that its blocks fall into the free ones and the used
    ones, that the links of each lead through exactly these (`Linked`: back is the
    inverse of forth, only the head has nothing before it, and a rank falls along the
    list, so that it has no circle), and that all of them lie side by side up to
    `total_size` (`Paved`).  Without the rank the links alone would allow a circle
    beside the list, which no walk meets; with it `ListsWalked` shows that the walk from
    each head is a sequence of exactly its blocks. What `split_block`, growing and the
    move from list to list do to single fields (`Cuts`, `Grows`, `Moves`) is kept apart
    from what that does to `Shared`: a new head ranks above all, and for the remainder
    of a split all ranks are doubled, which leaves a number between two neighbours.
    `used_size` is a number of words by disjointness (`OutGrows`).
  - `MemoryAssumption` includes that the two powers of 2 are positive integers, which
    the provers do not know of an exponent that is not a number.
* **`SystemProofs`** (from `SystemAssumption`).  `SystemInv` has one inductive invariant
  for each of the nine programs; each has a lemma for the initial states, one for the
  steps and one that it gives the property.
  - The schedulers (`SchedInv`): the units of time a process ran (`Units`) are its
    burst without what remains, and what is reported of a finished one is computed
    from the last of them (`Told`, priority's waiting times included, as the code
    computes them); first come first served reports sums of bursts
    (`InTurn`); under priority scheduling nobody waits for a process of lower priority
    (`Respects`). That at no time has another way to use the processor completed more
    processes than shortest job first is an exchange argument (`Unbeaten`, `Best`: for
    every set of processes left out of the sum of the rival's remaining work there is
    one no larger that leaves shortest job first no more work).  That round robin
    starves nobody rests on how many turns the others had since a process' own
    (`NoneStarves`, `Away`).
  - The disks (`BlocksInv`): files are apart from each other and from what was marked
    before (`Apart`), each file of the two first-fit methods is the first run that the
    earlier ones left (`FirstFit`), the chain of a file leads through its blocks to the
    end (`Chained`), and each count is what is left.
  - The open files (`FilesInv`): every descriptor in use has a handle and, while no close
    has failed, only one.
  - The free regions (`RegionInv`): they are disjoint and are the free blocks (`Cut`),
    whatever order the sort leaves them in, and merging keeps this.
  - The index (`IndexInv`): which block of indices holds an address follows from how
    many were entered before it, level by level.
  - The log (`LogInv`): the entries are numbered from the last checkpoint on, and the
    buffers alive are those of the entries in the journal.
  - The prefetch queue (`PrefetchInv`): the queue is the last part of all predictions
    (`Latest`), the heat of a block is the weight of its accesses, and the last one added
    is as hot as any (`HeatAdded`).
  - The buffered file (`BufferInv`): until a read fails, what is in the buffer is the piece
    of the file before the descriptor's offset; from then on what is delivered is stale
    (`Delivered`).
  - The directory (`DirInv`): unless a run is `spoiled`, what the journal file makes of
    a new directory (`Rebuilt`, by `Replay`) is at every moment what was logged
    (`Matches`), and the directory in memory is new after a crash, or one logged
    operation behind, or that.
  - Loops are recursive functions in the model; what each computes is shown by the least
    turn after which it would be wrong.

Induction: the provers have none over data.  Where an argument needs it (sums, walks,
orders, pieces) it is made by a least counterexample, from `LeastNatural`, which follows
from the library's well-foundedness of the naturals.

Only model-checked:

* everything temporal but invariance, action properties and refinement: liveness
  under fairness is out of the prover's reach.  Every invariant and every action property
  of a passing run has a theorem.

## 5. Plan

Done: the threads and deadlock programs (d6-d14), paging and segmentation, the
allocators, the schedulers, and the file systems of d25 to d27 as far as their files
define them; proofs of every invariant and action property that a passing run checks.
Next, in this order:

1. A submitter that waits in `add_task` while the pool is destroyed
   (`single_thread_pool.c:88`), which the model of the thread pool excludes:
   `destroy_thread_pool` wakes the workers only.
2. Barriers and cancellation of d8 into `MCThreads`; page tables of d22 into `MCMemory`.

## 6. Not modelled

* d1-d3, the single-call demonstrations of d6, d8, d9, d10, d25 and
  `Serial_Communications`: system calls and output without a state of their own.
* The benchmarks of d9: they measure time.
* d22, setters and getters of single table entries; d17 protection, the access control
  of d26, the checks of d18's `updateStats`: pure tests or functions nobody calls.
* d17 compaction: on the lists the program makes, where no block is ever freed, it
  changes nothing.  d16 `Segmentations.c`: its table stays empty.
* d15 `Cache_Memory_Management.c`: a lookup reads another set's line or what lies behind
  the array, so that every answer is possible.
* d25 `file_descriptor_management.c`: the same table as `OpenFiles`, without files.
* d26 tree, hash and path resolution: they rest on functions that no file
  defines.  d27 `hybrid_allocation.c` passes one kind of allocator to functions for
  another.  The buddy allocator and the pool of d18 have a constructor only.
* `coalesce_blocks` of d23 and the lines of `custom_free` behind its crash: never reached.
* The content of memory handed out by an allocator, and the physical memory
  behind the address map: the programs never read it back.  (The latter is allocated with
  the size of an `int` and cleared with the size of the memory, `AddressTranslator.c:61`;
  what that write destroys is not modelled.)
* Where the code's own result is wrong and nothing is claimed: the waiting times of
  `priority_scheduling`, blocks behind the double indirect level, adjoining regions among
  three or more, copies further behind a full segment table, records that follow a torn
  one.
* `pool_destroy` and the other clean-up at the end of a main.
* A process with `burst_time` 0, which the loops of d5 never complete; a journal or
  queue of capacity 0 and a prefetch window above `MAX_PREFETCH`, with which the
  code leaves its arrays; a program whose descriptor 0 is closed, which
  `fs_open` would take for a free entry.
* A client that breaks an allocator's contract (double `memoryFree`, a write
  outside its block), or that destroys a thread pool during `add_task`.
