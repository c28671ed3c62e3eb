------------------------------ MODULE MCSystem ------------------------------
(***************************************************************************)
(* The schedulers of d4 and d5 and the file systems of d25, d26 and d27.     *)
(* They are separate programs: program says which one a behaviour is of, the *)
(* variables of the others are 0.                                            *)
(***************************************************************************)
EXTENDS Schedulers

CONSTANTS
    BLOCKS, GROUP, REQUESTS,                            \* BlockAllocators
    MAX_OPEN_FILES, DESCRIPTORS, TRANSFERS, OFFSETS,    \* OpenFiles
    JOURNAL_CAPACITY, BLOCK_NUMS, CALLS,                \* TransactionLog
    PREFETCH, MAX_PREFETCH,                             \* PrefetchQueue
    BUFFER_SIZE, FILE_SIZE, COUNTS,                     \* BufferedFile
    REGION_BLOCKS,                                      \* FreeRegions
    DIRECT_BLOCKS, INDIRECT_BLOCKS,                     \* MultiLevelIndex
    MAX_ENTRIES, JOURNAL_SIZE, NAMES, RECORDS           \* Directories

ASSUME SystemAssumption ==
    /\ n \in Nat /\ TIME_QUANTUM \in Nat \ {0}
    /\ Arrivals \subseteq Nat /\ Bursts \subseteq Nat /\ Priorities \subseteq Int
    /\ BLOCKS \in Nat /\ GROUP \in Nat \ {0} /\ REQUESTS \subseteq Nat
    /\ MAX_OPEN_FILES \in Nat /\ DESCRIPTORS \subseteq Nat \ {0} /\ TRANSFERS \subseteq Nat
    /\ JOURNAL_CAPACITY \in Nat \ {0} /\ BLOCK_NUMS \subseteq Nat
    /\ PREFETCH \in 1 .. MAX_PREFETCH /\ MAX_PREFETCH \in Nat
    /\ BUFFER_SIZE \in Nat \ {0} /\ FILE_SIZE \in Nat /\ COUNTS \subseteq Nat
    /\ REGION_BLOCKS \in Nat \ {0}
    /\ DIRECT_BLOCKS \in Nat \ {0} /\ INDIRECT_BLOCKS \in Nat \ {0}
    /\ MAX_ENTRIES \in Nat /\ MAX_ENTRIES >= 2 /\ JOURNAL_SIZE \in Nat \ {0}
    /\ {"..", "?"} \cap NAMES = {}

VARIABLES
    program,
    method, disk_blocks, free_list, free_blocks, free_sub_blocks,               \* BlockAllocators
    next_block, marked, files,
    open_files, file_count, offsets, close_failed,                              \* OpenFiles
    journal_entries, journal_count, live, destroyed, committed, logged,         \* TransactionLog
    queue, heat_map, accesses, predicted,                                       \* PrefetchQueue
    data, position, dirty, failed, offset, call, left, got, mixed,              \* BufferedFile
    free_regions, used_space, largest_free_block, measured, free, tidied,       \* FreeRegions
    idx, indirect_blocks, used, addresses,                                      \* MultiLevelIndex
    entries, slots, count, file, pending, restarted, expected, spoiled          \* Directories

blockVars == <<method, disk_blocks, free_list, free_blocks, free_sub_blocks, next_block,
               marked, files>>
fileVars == <<open_files, file_count, offsets, close_failed>>
logVars == <<journal_entries, journal_count, live, destroyed, committed, logged>>
queueVars == <<queue, heat_map, accesses, predicted>>
bufferVars == <<data, position, dirty, failed, offset, call, left, got, mixed>>
regionVars == <<free_regions, used_space, largest_free_block, measured, free, tidied>>
indexVars == <<idx, indirect_blocks, used, addresses>>
directoryVars == <<entries, slots, count, file, pending, restarted, expected, spoiled>>
allVars ==
    <<program, vars, blockVars, fileVars, logVars, queueVars, bufferVars, regionVars, indexVars,
      directoryVars>>

Allocators == INSTANCE BlockAllocators
    WITH total_blocks <- BLOCKS, blocks_per_group <- GROUP, Requests <- REQUESTS
Files == INSTANCE OpenFiles
    WITH Descriptors <- DESCRIPTORS, Sizes <- TRANSFERS, MaxOffset <- OFFSETS
Log == INSTANCE TransactionLog
    WITH journal_capacity <- JOURNAL_CAPACITY, BlockNums <- BLOCK_NUMS, MaxLogged <- CALLS
Prefetch == INSTANCE PrefetchQueue
    WITH total_blocks <- BLOCKS, prefetch_size <- PREFETCH, MaxAccesses <- CALLS
Buffered == INSTANCE BufferedFile WITH Counts <- COUNTS
Regions == INSTANCE FreeRegions WITH total_blocks <- REGION_BLOCKS
Index == INSTANCE MultiLevelIndex WITH file <- addresses
Directory == INSTANCE Directories
    WITH Names <- NAMES, Other <- "?", MaxRecords <- RECORDS

NoSchedule ==
    /\ algo = 0 /\ arrival_time = 0 /\ burst_time = 0 /\ priority = 0 /\ remaining_time = 0
    /\ waiting_time = 0 /\ turnaround_time = 0 /\ current_time = 0 /\ completed = 0
    /\ i = 0 /\ ran = 0 /\ rival = 0
NoBlocks ==
    /\ method = 0 /\ disk_blocks = 0 /\ free_list = 0 /\ free_blocks = 0
    /\ free_sub_blocks = 0 /\ next_block = 0 /\ marked = 0 /\ files = 0
NoFiles == open_files = 0 /\ file_count = 0 /\ offsets = 0 /\ close_failed = 0
NoLog ==
    /\ journal_entries = 0 /\ journal_count = 0 /\ live = 0
    /\ destroyed = 0 /\ committed = 0 /\ logged = 0
NoQueue == queue = 0 /\ heat_map = 0 /\ accesses = 0 /\ predicted = 0
NoBuffer ==
    /\ data = 0 /\ position = 0 /\ dirty = 0 /\ failed = 0 /\ offset = 0 /\ call = 0
    /\ left = 0 /\ got = 0 /\ mixed = 0
NoRegions ==
    /\ free_regions = 0 /\ used_space = 0 /\ largest_free_block = 0
    /\ measured = 0 /\ free = 0 /\ tidied = 0
NoIndex == idx = 0 /\ indirect_blocks = 0 /\ used = 0 /\ addresses = 0
NoDirectory ==
    /\ entries = 0 /\ slots = 0 /\ count = 0 /\ file = 0 /\ pending = 0
    /\ restarted = 0 /\ expected = 0 /\ spoiled = 0

MCInit ==
    /\ program \in {"schedule", "blocks", "files", "log", "prefetch", "buffer", "regions",
                    "index", "directory"}
    /\ IF program = "schedule" THEN Init ELSE NoSchedule
    /\ IF program = "blocks" THEN Allocators!Init ELSE NoBlocks
    /\ IF program = "files" THEN Files!Init ELSE NoFiles
    /\ IF program = "log" THEN Log!Init ELSE NoLog
    /\ IF program = "prefetch" THEN Prefetch!Init ELSE NoQueue
    /\ IF program = "buffer" THEN Buffered!Init ELSE NoBuffer
    /\ IF program = "regions" THEN Regions!Init ELSE NoRegions
    /\ IF program = "index" THEN Index!Init ELSE NoIndex
    /\ IF program = "directory" THEN Directory!Init ELSE NoDirectory

MCNext ==
    /\ UNCHANGED program
    /\ IF program = "schedule" THEN Next ELSE UNCHANGED vars
    /\ IF program = "blocks" THEN Allocators!Next ELSE UNCHANGED blockVars
    /\ IF program = "files" THEN Files!Next ELSE UNCHANGED fileVars
    /\ IF program = "log" THEN Log!Next ELSE UNCHANGED logVars
    /\ IF program = "prefetch" THEN Prefetch!Next ELSE UNCHANGED queueVars
    /\ IF program = "buffer" THEN Buffered!Next ELSE UNCHANGED bufferVars
    /\ IF program = "regions" THEN Regions!Next ELSE UNCHANGED regionVars
    /\ IF program = "index" THEN Index!Next ELSE UNCHANGED indexVars
    /\ IF program = "directory" THEN Directory!Next ELSE UNCHANGED directoryVars

MCSpec == MCInit /\ [][MCNext]_allVars

-----------------------------------------------------------------------------

\* Each scheduler runs the schedule its rule promises: priorities are respected,
\* shortest job first cannot be beaten, round robin starves nobody.  The times they
\* report are those of that schedule, but for the waiting times (and their average)
\* of priority_scheduling, which are wrong.
SchedulesExact == program = "schedule" => SchedulesKept

\* The tables of blocks, of open files and of free regions and the index of a
\* file say what is really given out: no block has two owners, no chain is
\* broken, no free block is lost, no descriptor is left open without a handle and,
\* while no close has failed, none has two.  Nothing is said of addresses behind the
\* double indirect level, nor of adjoining regions among three or more.
StorageExact ==
    /\ program = "blocks" => Allocators!BlocksKept
    /\ program = "files" => Files!FilesKept
    /\ program = "regions" => Regions!RegionsKept
    /\ program = "index" => Index!AddressesExact

\* The bounded journal and the bounded prefetch queue lose and reorder nothing
\* that their limits do not make them drop, and the buffer of a file that is
\* read nothing at all, until a read fails.
RecordsInOrder ==
    /\ program = "log" => Log!LogKept
    /\ program = "prefetch" => Prefetch!QueueKept
    /\ program = "buffer" => Buffered!BytesInOrder

\* The directory comes back from its journal after crashes at any moment, unless
\* records follow one that a crash has torn (or the run is spoiled otherwise: see
\* Recovered).
DirectoryRecovered == program = "directory" => Directory!Recovered
=============================================================================
