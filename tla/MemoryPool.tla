----------------------------- MODULE MemoryPool -----------------------------
(***************************************************************************)
(* d24 Memory_Pool.c: a pool of blocks of one size.  The free blocks are     *)
(* linked through their own first words, which belong to the client while it *)
(* holds the block.  kind says which of the two constructors made the pool;  *)
(* both are used with the same pool_alloc and pool_free.                     *)
(***************************************************************************)
EXTENDS Integers, FiniteSets

CONSTANTS
    POOL_BLOCK_SIZE, POOL_BLOCK_COUNT,
    ALIGNMENT,          \* the alignment main asks for
    Kinds               \* subset of {"plain", "advanced"}

VARIABLES
    kind,
    word,               \* the first word of the block at each address
    free_list, free_blocks,
    given,              \* the blocks the client holds
    crashed             \* a null pointer was followed

vars == <<kind, word, free_list, free_blocks, given, crashed>>

NullPtr == -1
Data == -2              \* what a client may leave in a block
PoolAddresses == 0 .. POOL_BLOCK_SIZE * POOL_BLOCK_COUNT - 1

\* (size + (alignment - 1)) & !(alignment - 1): the logical negation is 1 for an
\* alignment of 1 and 0 for all others.
align_size(size, alignment) == IF alignment = 1 THEN size % 2 ELSE 0

BlockSize(k) == IF k = "plain" THEN POOL_BLOCK_SIZE ELSE align_size(POOL_BLOCK_SIZE, ALIGNMENT)

\* Each block points to the one behind it, the last one nowhere.
Linked(size) ==
    [a \in PoolAddresses |->
        CASE a = (POOL_BLOCK_COUNT - 1) * size -> NullPtr
          [] \E b \in 0 .. POOL_BLOCK_COUNT - 2 : a = b * size -> a + size
          [] OTHER -> Data]

pool_init ==
    /\ word = Linked(BlockSize(kind))
    /\ free_list = 0
    /\ free_blocks = POOL_BLOCK_COUNT

Init ==
    /\ kind \in Kinds
    /\ pool_init
    /\ given = {}
    /\ crashed = FALSE

pool_alloc ==
    /\ free_blocks > 0 /\ ~crashed
    /\ IF free_list = NullPtr
       THEN /\ crashed' = TRUE
            /\ UNCHANGED <<word, free_list, free_blocks, given>>
       ELSE /\ given' = given \cup {free_list}
            /\ free_list' = word[free_list]
            /\ free_blocks' = free_blocks - 1
            /\ UNCHANGED <<word, crashed>>
    /\ UNCHANGED kind

\* Fault: the list is not told of the block.
pool_free_Unlinked(block) ==
    /\ ~crashed
    /\ word' = [word EXCEPT ![block] = free_list]
    /\ free_blocks' = free_blocks + 1
    /\ given' = given \ {block}
    /\ UNCHANGED <<kind, free_list, crashed>>

pool_free(block) ==
    /\ ~crashed
    /\ word' = [word EXCEPT ![block] = free_list]
    /\ free_list' = block
    /\ free_blocks' = free_blocks + 1
    /\ given' = given \ {block}
    /\ UNCHANGED <<kind, crashed>>

\* The client uses a block it holds.
ClientWrites(block) ==
    /\ word' = [word EXCEPT ![block] = Data]
    /\ UNCHANGED <<kind, free_list, free_blocks, given, crashed>>

Next == pool_alloc \/ \E block \in given : pool_free(block) \/ ClientWrites(block)

Spec == Init /\ [][Next]_vars

-----------------------------------------------------------------------------

PoolWalk ==
    LET step[k \in 0 .. POOL_BLOCK_COUNT] ==
            IF k = 0 THEN free_list
            ELSE IF step[k - 1] \in PoolAddresses THEN word[step[k - 1]] ELSE NullPtr
    IN  step

\* Following free_list for free_blocks steps meets every block the client does
\* not hold once, and then the end, whatever clients wrote into their blocks.
PoolSound ==
    /\ ~crashed
    /\ {PoolWalk[k] : k \in 0 .. free_blocks - 1} =
          {b * POOL_BLOCK_SIZE : b \in 0 .. POOL_BLOCK_COUNT - 1} \ given
    /\ Cardinality(given) + free_blocks = POOL_BLOCK_COUNT
    /\ PoolWalk[free_blocks] = NullPtr

\* While free_blocks counts free blocks, pool_alloc finds one in the list: what
\* it takes for align_size to round block_size up to the alignment, as the
\* comment in it says.
AllocNeverCrashes == ~crashed
=============================================================================
