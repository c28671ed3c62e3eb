------------------------------ MODULE MCMemory ------------------------------
(***************************************************************************)
(* The memory programs of d15 to d24: allocators, segments, paging, address  *)
(* translation and caches.  They are separate programs: program says which   *)
(* one a behaviour is of; the first-fit allocator's variables keep their     *)
(* first value in the behaviours of the others, and the variables of the     *)
(* other programs are 0 where they do not run.                               *)
(***************************************************************************)
EXTENDS FirstFit

CONSTANTS
    PARTITION_MEMORY, MIN_PARTITION_SIZE, REQUESTS,                     \* Partitions
    POOL_BLOCK_SIZE, BLOCKS,                                            \* MemoryPool
    VARIABLE_SIZE, LEAST,                                               \* MemoryAllocators
    REFERENCES, CAPACITIES, PAGES,                                      \* PageReplacement
    HEAP_BLOCK_SIZE, HEAP_ALIGNMENT, HEAP_PAGE,                         \* HeapAllocator
    HEAP_SIZE, HEAP_LIMIT, MAX_ALLOC, HEAP_REQUESTS,
    MAX_SEGMENTS, SEGMENT_MEMORY, Limits,                               \* Segments
    NUM_PAGES, NUM_FRAMES,                                              \* DemandPaging
    TLB_SIZE, PAGE_TABLE_SIZE, OFFSET_BITS, CLOCK_BITS, FrameNums,      \* TLB
    LOGICAL_PAGES, PHYSICAL_PAGES, Bits,                                \* AddressMap
    CACHE_L1_SIZE, CACHE_L2_SIZE, MAIN_MEMORY_SIZE, VIRTUAL_MEMORY_SIZE

\* The two powers are positive numbers whenever the exponents are numbers.
ASSUME MemoryAssumption ==
    /\ PARTITION_MEMORY \in Nat /\ MIN_PARTITION_SIZE \in Nat \ {0} /\ REQUESTS \subseteq Nat
    /\ POOL_BLOCK_SIZE \in Nat \ {0} /\ BLOCKS \in Nat \ {0}
    /\ VARIABLE_SIZE \in Nat /\ VARIABLE_SIZE >= HEADER /\ LEAST \in Nat
    /\ REFERENCES \in Nat /\ CAPACITIES \subseteq Nat \ {0} /\ PAGES \in Nat
    /\ {HEAP_BLOCK_SIZE, HEAP_ALIGNMENT, HEAP_PAGE, HEAP_SIZE} \subseteq Nat \ {0}
    /\ HEAP_LIMIT \in Nat /\ MAX_ALLOC \in Nat /\ HEAP_REQUESTS \subseteq Nat
    /\ MAX_SEGMENTS \in Nat /\ SEGMENT_MEMORY \in Nat /\ Limits \subseteq Nat
    /\ NUM_PAGES \in Nat /\ NUM_FRAMES \in Nat
    /\ TLB_SIZE \in Nat \ {0} /\ PAGE_TABLE_SIZE \in Nat /\ FrameNums \subseteq Nat
    /\ OFFSET_BITS \in Nat /\ 2 ^ OFFSET_BITS \in Nat \ {0}
    /\ CLOCK_BITS \in Nat /\ 2 ^ CLOCK_BITS \in Nat \ {0}
    /\ LOGICAL_PAGES \in Nat /\ PHYSICAL_PAGES \in Nat
    /\ {CACHE_L1_SIZE, CACHE_L2_SIZE, MAIN_MEMORY_SIZE} \subseteq Nat \ {0}
    /\ VIRTUAL_MEMORY_SIZE \in Nat

VARIABLES
    program,
    list, free_size,                                        \* Partitions
    kind, word, pool_list, pool_count, given, crashed,      \* MemoryPool
    is_allocated, free_blocks, variable_list,               \* MemoryAllocators
    blocks, heap_list, used_list, total_size, heap_used,    \* HeapAllocator
    allocations, faulted,
    table, target, target_size, memory, placed, sources,    \* Segments
    early,
    pages, capacity, algo, i, frames, head, last_used,      \* PageReplacement
    page_faults, loads, rival,
    frame_num, frame_status, accessed,                      \* DemandPaging
    tlb, page_table, clock, answer,                         \* TLB
    address_map, used_physical_memory, translated,          \* AddressMap
    l1_cache, l2_cache, main_memory                         \* MemoryHierarchy

partitionVars == <<list, free_size>>
poolVars == <<kind, word, pool_list, pool_count, given, crashed>>
simpleVars == <<is_allocated, free_blocks, variable_list>>
heapVars == <<blocks, heap_list, used_list, total_size, heap_used, allocations, faulted>>
segmentVars == <<table, target, target_size, memory, placed, sources, early>>
replacementVars ==
    <<pages, capacity, algo, i, frames, head, last_used, page_faults, loads, rival>>
demandVars == <<frame_num, frame_status, accessed>>
tlbVars == <<tlb, page_table, clock, answer>>
mapVars == <<address_map, used_physical_memory, translated>>
hierarchyVars == <<l1_cache, l2_cache, main_memory>>
allVars ==
    <<program, vars, partitionVars, poolVars, simpleVars, heapVars, segmentVars,
      replacementVars, demandVars, tlbVars, mapVars, hierarchyVars>>

Partition == INSTANCE Partitions
    WITH MAX_MEMORY_SIZE <- PARTITION_MEMORY, RequestSizes <- REQUESTS
Pool == INSTANCE MemoryPool
    WITH POOL_BLOCK_COUNT <- BLOCKS, ALIGNMENT <- 2, Kinds <- {"plain"},
         free_list <- pool_list, free_blocks <- pool_count
Simple == INSTANCE MemoryAllocators
    WITH BLOCK_SIZE <- POOL_BLOCK_SIZE, NUM_BLOCKS <- BLOCKS, size <- VARIABLE_SIZE,
         list <- variable_list
Heap == INSTANCE HeapAllocator
    WITH BLOCK_SIZE <- HEAP_BLOCK_SIZE, ALIGNMENT <- HEAP_ALIGNMENT, PAGE <- HEAP_PAGE,
         IniSize <- HEAP_SIZE, LIMIT <- HEAP_LIMIT, RequestSizes <- HEAP_REQUESTS,
         free_list <- heap_list, used_size <- heap_used, crashed <- faulted
Segment == INSTANCE Segments WITH MAX_MEMORY_SIZE <- SEGMENT_MEMORY
Replacement == INSTANCE PageReplacement
    WITH n <- REFERENCES, Capacities <- CAPACITIES, PageCount <- PAGES
Demand == INSTANCE DemandPaging
Buffer == INSTANCE TLB
Mapping == INSTANCE AddressMap
Hierarchy == INSTANCE MemoryHierarchy

NoPartition == list = 0 /\ free_size = 0
NoPool == kind = 0 /\ word = 0 /\ pool_list = 0 /\ pool_count = 0 /\ given = 0 /\ crashed = 0
NoSimple == is_allocated = 0 /\ free_blocks = 0 /\ variable_list = 0
NoHeap ==
    /\ blocks = 0 /\ heap_list = 0 /\ used_list = 0 /\ total_size = 0 /\ heap_used = 0
    /\ allocations = 0 /\ faulted = 0
NoSegment ==
    /\ table = 0 /\ target = 0 /\ target_size = 0 /\ memory = 0 /\ placed = 0
    /\ sources = 0 /\ early = 0
NoReplacement ==
    /\ pages = 0 /\ capacity = 0 /\ algo = 0 /\ i = 0 /\ frames = 0 /\ head = 0
    /\ last_used = 0 /\ page_faults = 0 /\ loads = 0 /\ rival = 0
NoDemand == frame_num = 0 /\ frame_status = 0 /\ accessed = 0
NoBuffer == tlb = 0 /\ page_table = 0 /\ clock = 0 /\ answer = 0
NoMapping == address_map = 0 /\ used_physical_memory = 0 /\ translated = 0
NoHierarchy == l1_cache = 0 /\ l2_cache = 0 /\ main_memory = 0

MCInit ==
    /\ program \in {"firstfit", "partition", "pool", "simple", "heap", "segment",
                    "replacement", "demand", "tlb", "map", "hierarchy"}
    /\ Init
    /\ IF program = "partition" THEN Partition!Init ELSE NoPartition
    /\ IF program = "pool" THEN Pool!Init ELSE NoPool
    /\ IF program = "simple" THEN Simple!Init ELSE NoSimple
    /\ IF program = "heap" THEN Heap!Init ELSE NoHeap
    /\ IF program = "segment" THEN Segment!Init ELSE NoSegment
    /\ IF program = "replacement" THEN Replacement!Init ELSE NoReplacement
    /\ IF program = "demand" THEN Demand!Init ELSE NoDemand
    /\ IF program = "tlb" THEN Buffer!Init ELSE NoBuffer
    /\ IF program = "map" THEN Mapping!Init ELSE NoMapping
    /\ IF program = "hierarchy" THEN Hierarchy!Init ELSE NoHierarchy

MCNext ==
    /\ UNCHANGED program
    /\ IF program = "firstfit" THEN Next ELSE UNCHANGED vars
    /\ IF program = "partition" THEN Partition!Next ELSE UNCHANGED partitionVars
    /\ IF program = "pool" THEN Pool!Next ELSE UNCHANGED poolVars
    /\ IF program = "simple" THEN Simple!Next ELSE UNCHANGED simpleVars
    /\ IF program = "heap" THEN Heap!Next ELSE UNCHANGED heapVars
    /\ IF program = "segment" THEN Segment!Next ELSE UNCHANGED segmentVars
    /\ IF program = "replacement" THEN Replacement!Next ELSE UNCHANGED replacementVars
    /\ IF program = "demand" THEN Demand!Next ELSE UNCHANGED demandVars
    /\ IF program = "tlb" THEN Buffer!Next ELSE UNCHANGED tlbVars
    /\ IF program = "map" THEN Mapping!Next ELSE UNCHANGED mapVars
    /\ IF program = "hierarchy" THEN Hierarchy!Next ELSE UNCHANGED hierarchyVars

MCSpec == MCInit /\ [][MCNext]_allVars

-----------------------------------------------------------------------------

\* The partition lists, the pool and the allocators of d18 keep their tables in
\* order too: no request sequence makes blocks overlap, and each counter of free
\* space counts what is free.
AllocatorsSound ==
    /\ program = "partition" => Partition!PartitionsSound
    /\ program = "pool" => Pool!PoolSound
    /\ program = "simple" => Simple!FixedExact /\ Simple!VariableTiled

\* However often the heap of d23 is split and grown, its two lists tile it.
HeapSound == program = "heap" => Heap!HeapSound

\* A segment of d21 gets the lowest free place, whatever was placed before, and one
\* shared from there is the same bytes through both tables.  That segments are apart
\* is not said: nothing marks the bytes of one, so the next may get the same.
SegmentsKept == program = "segment" => Segment!SegmentsKept

\* FIFO and LRU replacement keep exactly the pages their names promise.
ResidentPages == program = "replacement" => Replacement!ReplacementExact

\* No choice of victims beats the one findFarthest makes.
FewestFaults == program = "replacement" => Replacement!OptimalIsBest

\* Whatever the history of faults and remappings, two pages never share a frame.
FramesDisjoint ==
    /\ program = "demand" => Demand!FramesExact
    /\ program = "map" => Mapping!MappingsDisjoint

\* Whatever was evicted before, and after the clock has wrapped around, the
\* translation buffer and the caches answer as the level behind them would.
LookupsExact ==
    /\ program = "tlb" => Buffer!Transparent
    /\ program = "hierarchy" => Hierarchy!Coherent
=============================================================================
