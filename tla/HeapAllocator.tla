--------------------------- MODULE HeapAllocator ---------------------------
(***************************************************************************)
(* d23 Custom_Memory_Allocator.c: a best-fit allocator with a free and a     *)
(* used list over memory from sbrk, which grows upwards without gaps and     *)
(* fails at LIMIT.  Sizes and addresses are counted in words; the first      *)
(* address is 1, NULL is 0.  blocks maps each address where a header was     *)
(* written to its fields.                                                    *)
(*                                                                           *)
(* custom_free steps back sizeof(block_t), one word more than the offset of  *)
(* data: what it takes for block->next is the size of the block, an address  *)
(* nobody can write to.                                                      *)
(***************************************************************************)
EXTENDS Integers, Sequences, FiniteSets, FiniteSetsExt

CONSTANTS
    BLOCK_SIZE, ALIGNMENT,
    PAGE,           \* the least growth, 4096 bytes
    IniSize,        \* the argument of init_heap
    LIMIT,
    MAX_ALLOC,
    RequestSizes

VARIABLES
    blocks,         \* [size, is_free, next, prev]
    free_list, used_list, total_size, used_size,
    allocations,    \* the entries of debug_malloc's table
    crashed

vars == <<blocks, free_list, used_list, total_size, used_size, allocations, crashed>>

NULL == 0
ALIGN(size) == ((size + ALIGNMENT - 1) \div ALIGNMENT) * ALIGNMENT
FreeBlock(size, next) == [size |-> size, is_free |-> TRUE, next |-> next, prev |-> NULL]

\* Writes prev of a block unless there is none.
SetPrev(b, a, prev) == IF a = NULL THEN b ELSE [b EXCEPT ![a].prev = prev]

init_heap ==
    /\ blocks = [a \in {1} |-> FreeBlock(ALIGN(IniSize), NULL)]
    /\ free_list = 1
    /\ total_size = ALIGN(IniSize)
    /\ used_size = 0

Init == init_heap /\ used_list = NULL /\ allocations = <<>> /\ crashed = FALSE

-----------------------------------------------------------------------------
(* custom_malloc *)

\* The blocks a walk along the list meets, first to last.
Walk(b, first) ==
    LET from[a \in DOMAIN b \cup {NULL}] ==
            IF a = NULL THEN <<>> ELSE <<a>> \o from[b[a].next]
    IN  from[first]

\* The first block of the free list with the least size that suffices.
Suitable(size) ==
    LET free == Walk(blocks, free_list)
    IN  {k \in DOMAIN free : blocks[free[k]].is_free /\ blocks[free[k]].size >= size}
find_best_fit(size) ==
    LET free == Walk(blocks, free_list)
        fits == Suitable(size)
        best == {k \in fits : \A l \in fits : blocks[free[k]].size <= blocks[free[l]].size}
    IN  IF fits = {} THEN NULL ELSE free[Min(best)]

request_size(size) == IF size > PAGE THEN size ELSE PAGE

\* The heap with the new block at the head of the free list.
Grown(size) ==
    LET a == total_size + 1
    IN  SetPrev([x \in DOMAIN blocks \cup {a} |->
                    IF x = a THEN FreeBlock(request_size(size), free_list) ELSE blocks[x]],
                free_list, a)

\* Fault: the block after the split one keeps its link back to it.
split_block_KeepsPrev(b, block, size) ==
    LET remaining_size == b[block].size - size
        new_block == block + size
    IN  IF remaining_size <= BLOCK_SIZE + ALIGNMENT THEN b
        ELSE [x \in DOMAIN b \cup {new_block} |->
                CASE x = new_block -> [FreeBlock(remaining_size, b[block].next) EXCEPT !.prev = block]
                  [] x = block -> [b[block] EXCEPT !.size = size, !.next = new_block]
                  [] OTHER -> b[x]]

split_block(b, block, size) ==
    LET remaining_size == b[block].size - size
        new_block == block + size
    IN  IF remaining_size <= BLOCK_SIZE + ALIGNMENT THEN b
        ELSE SetPrev([x \in DOMAIN b \cup {new_block} |->
                CASE x = new_block -> [FreeBlock(remaining_size, b[block].next) EXCEPT !.prev = block]
                  [] x = block -> [b[block] EXCEPT !.size = size, !.next = new_block]
                  [] OTHER -> b[x]], b[block].next, new_block)

\* Takes the block out of the free list.
Unlinked(b, block) ==
    LET c == SetPrev(b, b[block].next, b[block].prev)
    IN  IF b[block].prev = NULL THEN c ELSE [c EXCEPT ![b[block].prev].next = b[block].next]

\* Puts the block at the head of the used list.
Used(b, block) ==
    SetPrev([b EXCEPT ![block].is_free = FALSE, ![block].next = used_list, ![block].prev = NULL],
            used_list, block)

Take(b, first, block, total) ==
    LET s == split_block(b, block, total)
    IN  /\ blocks' = Used(Unlinked(s, block), block)
        /\ free_list' = IF s[block].prev = NULL THEN s[block].next ELSE first
        /\ used_list' = block
        /\ used_size' = used_size + s[block].size

MallocFits(size) ==
    LET total == ALIGN(size + BLOCK_SIZE)
    IN  /\ find_best_fit(total) # NULL
        /\ Take(blocks, free_list, find_best_fit(total), total)
        /\ UNCHANGED total_size

\* sbrk fails at the limit, and the call returns NULL without a change.
MallocGrows(size) ==
    LET total == ALIGN(size + BLOCK_SIZE)
    IN  /\ find_best_fit(total) = NULL
        /\ total_size + request_size(total) <= LIMIT
        /\ Take(Grown(total), total_size + 1, total_size + 1, total)
        /\ total_size' = total_size + request_size(total)

custom_malloc(size) == size # 0 /\ (MallocFits(size) \/ MallocGrows(size)) /\ UNCHANGED crashed

debug_malloc(size) ==
    /\ custom_malloc(size)
    /\ allocations' = IF Len(allocations) < MAX_ALLOC THEN Append(allocations, used_list')
                      ELSE allocations

\* The program ends at the write through block->next.
custom_free(block) ==
    /\ blocks[block].size # 0
    /\ crashed' = TRUE
    /\ UNCHANGED <<blocks, free_list, used_list, total_size, used_size>>

\* The entry of the block goes and the ones behind it move up.
debug_free(block) ==
    /\ custom_free(block)
    /\ \/ block \notin Range(allocations) /\ UNCHANGED allocations
       \/ \E k \in DOMAIN allocations :
            /\ allocations[k] = block
            /\ allocations' = [j \in 1 .. Len(allocations) - 1 |->
                                  allocations[IF j < k THEN j ELSE j + 1]]

Next ==
    /\ ~crashed
    /\ \/ \E size \in RequestSizes : \/ debug_malloc(size)
                                     \/ custom_malloc(size) /\ UNCHANGED allocations
       \/ \E block \in DOMAIN blocks :
            /\ ~blocks[block].is_free
            /\ debug_free(block) \/ (custom_free(block) /\ UNCHANGED allocations)

-----------------------------------------------------------------------------
(* Properties *)

FreeBlocks == Range(Walk(blocks, free_list))
UsedBlocks == Range(Walk(blocks, used_list))
Words(a) == a .. a + blocks[a].size - 1

\* The two lists share no block and lead to every block there is, each the same
\* way back as forth, with is_free telling which list it is on.
ListsExact ==
    /\ FreeBlocks \cap UsedBlocks = {} /\ FreeBlocks \cup UsedBlocks = DOMAIN blocks
    /\ \A a \in DOMAIN blocks :
        /\ blocks[a].is_free <=> a \in FreeBlocks
        /\ blocks[a].prev = NULL <=> a \in {free_list, used_list}
        /\ blocks[a].next # NULL => blocks[blocks[a].next].prev = a

\* Growing and splitting leave no word of the heap to two blocks or to none, and
\* used_size is the number of words given out; the table of debug_malloc lists
\* some of those, each once.
HeapSound ==
    /\ ListsExact
    /\ \A a, c \in DOMAIN blocks : a # c => Words(a) \cap Words(c) = {}
    /\ UNION {Words(a) : a \in DOMAIN blocks} = 1 .. total_size
    /\ used_size = Cardinality(UNION {Words(a) : a \in UsedBlocks})
    /\ IsInjective(allocations) /\ Range(allocations) \subseteq UsedBlocks
=============================================================================
