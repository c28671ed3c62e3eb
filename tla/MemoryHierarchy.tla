--------------------------- MODULE MemoryHierarchy ---------------------------
(***************************************************************************)
(* d15 Memory_Hierarchy.c: two direct-mapped caches and a main memory in     *)
(* front of the virtual memory.  The data of a virtual memory cell, which no *)
(* one ever writes, is represented by the cell's address.  The times and the *)
(* counts of hits and misses are left out.                                   *)
(***************************************************************************)
EXTENDS Integers

CONSTANTS CACHE_L1_SIZE, CACHE_L2_SIZE, MAIN_MEMORY_SIZE, VIRTUAL_MEMORY_SIZE

VARIABLES l1_cache, l2_cache, main_memory

vars == <<l1_cache, l2_cache, main_memory>>

NotValid == [address |-> -1, data |-> -1]

initializeMemory ==
    /\ l1_cache = [x \in 0 .. CACHE_L1_SIZE - 1 |-> NotValid]
    /\ l2_cache = [x \in 0 .. CACHE_L2_SIZE - 1 |-> NotValid]
    /\ main_memory = [x \in 0 .. MAIN_MEMORY_SIZE - 1 |-> NotValid]

Init == initializeMemory

l1_idx(a) == a % CACHE_L1_SIZE
l2_idx(a) == a % CACHE_L2_SIZE
mm_idx(a) == a % MAIN_MEMORY_SIZE

InL1(a) == l1_cache[l1_idx(a)].address = a
InL2(a) == l2_cache[l2_idx(a)].address = a
InMain(a) == main_memory[mm_idx(a)].address = a

Copy(a, block) == [address |-> a, data |-> block.data]

L1Hit(a) == InL1(a) /\ UNCHANGED vars

L2Hit(a) ==
    /\ ~InL1(a) /\ InL2(a)
    /\ l1_cache' = [l1_cache EXCEPT ![l1_idx(a)] = Copy(a, l2_cache[l2_idx(a)])]
    /\ UNCHANGED <<l2_cache, main_memory>>

\* The second-level cache is filled at the index of the first-level one: the
\* block is lost there, but it does no harm.
MainHit(a) ==
    /\ ~InL1(a) /\ ~InL2(a) /\ InMain(a)
    /\ l1_cache' = [l1_cache EXCEPT ![l1_idx(a)] = Copy(a, main_memory[mm_idx(a)])]
    /\ l2_cache' = [l2_cache EXCEPT ![l1_idx(a)] = Copy(a, main_memory[mm_idx(a)])]
    /\ UNCHANGED main_memory

PageFault(a) ==
    LET block == [address |-> a, data |-> a % VIRTUAL_MEMORY_SIZE]
    IN  /\ ~InL1(a) /\ ~InL2(a) /\ ~InMain(a)
        /\ main_memory' = [main_memory EXCEPT ![mm_idx(a)] = block]
        /\ l2_cache' = [l2_cache EXCEPT ![l2_idx(a)] = block]
        /\ l1_cache' = [l1_cache EXCEPT ![l1_idx(a)] = block]

accessMemory(a) == L1Hit(a) \/ L2Hit(a) \/ MainHit(a) \/ PageFault(a)

Next == \E a \in 0 .. VIRTUAL_MEMORY_SIZE - 1 : accessMemory(a)

-----------------------------------------------------------------------------

Holds(level) ==
    \A x \in DOMAIN level : level[x] # NotValid => level[x].data = level[x].address

\* Every block of every level that a lookup can hit holds the data of its
\* address, although the second-level cache also has blocks at the wrong index.
Coherent == Holds(l1_cache) /\ Holds(l2_cache) /\ Holds(main_memory)
=============================================================================
