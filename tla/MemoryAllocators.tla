-------------------------- MODULE MemoryAllocators --------------------------
(***************************************************************************)
(* d18 Memory_Allocators.c.  The fixed allocator is a table of flags for     *)
(* NUM_BLOCKS blocks of BLOCK_SIZE; freeFixedBlock takes any pointer.  The   *)
(* variable allocator is a best-fit list of blocks with a header in front;   *)
(* it has no operation that frees a block.  Addresses start at 0.            *)
(***************************************************************************)
EXTENDS Integers, Sequences, FiniteSets, FiniteSetsExt

CONSTANTS
    BLOCK_SIZE, NUM_BLOCKS,
    size,           \* the argument of initVariableAllocator
    HEADER,         \* sizeof(VariableBlock)
    LEAST,          \* 64: a smaller rest is not split off
    Sizes           \* that the client asks the variable allocator for

VARIABLES
    is_allocated,   \* the fixed blocks whose flag is set
    free_blocks,
    list            \* the variable blocks: [size, is_allocated, next, prev] by address

fixedVars == <<is_allocated, free_blocks>>
vars == <<fixedVars, list>>

NULL == -1
BlockNums == 0 .. NUM_BLOCKS - 1

initFixedAllocator ==
    /\ is_allocated = {}
    /\ free_blocks = NUM_BLOCKS

initVariableAllocator ==
    list = [a \in {0} |->
                [size |-> size - HEADER, is_allocated |-> FALSE, next |-> NULL, prev |-> NULL]]

Init == initFixedAllocator /\ initVariableAllocator

-----------------------------------------------------------------------------
(* The fixed allocator *)

AllocateNone ==
    /\ free_blocks = 0 \/ is_allocated = BlockNums
    /\ UNCHANGED fixedVars

AllocateFirst ==
    /\ free_blocks # 0 /\ is_allocated # BlockNums
    /\ is_allocated' = is_allocated \cup {Min(BlockNums \ is_allocated)}
    /\ free_blocks' = free_blocks - 1

allocateFixedBlock == AllocateNone \/ AllocateFirst

idx(ptr) == ptr \div BLOCK_SIZE

\* Any address from the first block to one past the last, the block's own or not.
freeFixedBlock(ptr) ==
    IF idx(ptr) < NUM_BLOCKS /\ idx(ptr) \in is_allocated
    THEN /\ is_allocated' = is_allocated \ {idx(ptr)}
         /\ free_blocks' = free_blocks + 1
    ELSE UNCHANGED fixedVars

-----------------------------------------------------------------------------
(* The variable allocator *)

\* The block a walk from free_list is at after k steps, NULL behind the last.
Walk ==
    LET step[k \in 0 .. size] ==
            IF k = 0 THEN 0 ELSE IF step[k - 1] = NULL THEN NULL ELSE list[step[k - 1]].next
    IN  step

Fits(walk, want) ==
    {k \in 0 .. size : /\ walk[k] # NULL
                       /\ ~list[walk[k]].is_allocated /\ list[walk[k]].size >= want}

\* The first block of the least size that suffices, NULL if there is none.
best_fit(want) ==
    LET walk == Walk
        fits == Fits(walk, want)
        least == {k \in fits : \A l \in fits : list[walk[k]].size <= list[walk[l]].size}
    IN  IF fits = {} THEN NULL ELSE walk[Min(least)]

SplitOff(b, want) ==
    LET new == b + HEADER + want
    IN  [a \in DOMAIN list \cup {new} |->
            CASE a = new -> [size |-> list[b].size - want - HEADER, is_allocated |-> FALSE,
                             next |-> list[b].next, prev |-> b]
              [] a = b -> [list[b] EXCEPT !.size = want, !.next = new, !.is_allocated = TRUE]
              [] a = list[b].next -> [list[a] EXCEPT !.prev = new]
              [] OTHER -> list[a]]

\* Without a block that fits the call returns NULL and changes nothing.
allocateVariableBlock(want) ==
    LET b == best_fit(want)
    IN  /\ b # NULL
        /\ list' = IF list[b].size > want + HEADER + LEAST THEN SplitOff(b, want)
                   ELSE [list EXCEPT ![b].is_allocated = TRUE]

Next ==
    \/ allocateFixedBlock /\ UNCHANGED list
    \/ \E ptr \in 0 .. NUM_BLOCKS * BLOCK_SIZE : freeFixedBlock(ptr) /\ UNCHANGED list
    \/ \E want \in Sizes : allocateVariableBlock(want) /\ UNCHANGED fixedVars

-----------------------------------------------------------------------------
(* Properties *)

\* free_blocks counts the blocks whose flag is clear, also when a block is freed
\* twice, by an inner pointer or by one past the end: allocateFixedBlock gives up
\* only when every block is in use.
FixedExact == free_blocks = NUM_BLOCKS - Cardinality(is_allocated)

\* The list leads through every block, in the order of addresses and the same way
\* back; the blocks and their headers lie end to end over the whole memory.
VariableTiled ==
    LET walk == Walk
        met == {k \in 0 .. size : walk[k] # NULL}
    IN  /\ {walk[k] : k \in met} = DOMAIN list
        /\ \A k \in met :
            /\ walk[k] + HEADER + list[walk[k]].size =
                    IF list[walk[k]].next = NULL THEN size ELSE list[walk[k]].next
            /\ list[walk[k]].prev = IF k = 0 THEN NULL ELSE walk[k - 1]
=============================================================================
