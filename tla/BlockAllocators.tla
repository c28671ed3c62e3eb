--------------------------- MODULE BlockAllocators ---------------------------
(***************************************************************************)
(* The allocators of d27 that only give blocks out: contiguous_allocation,   *)
(* extent_based_allocation, linked_allocations, indexed_allocation,          *)
(* dynamic_block_allocation and block_size_optimization, each under any      *)
(* sequence of requests.  They are separate programs; method says which one  *)
(* it is.                                                                    *)
(*                                                                           *)
(* A malloc that fails in a request changes nothing and is a stuttering      *)
(* step.  Data, file names and the sizes nobody updates are left out.        *)
(***************************************************************************)
EXTENDS Integers, Sequences, FiniteSets, Functions

CONSTANTS
    total_blocks,
    blocks_per_group,       \* sub-blocks in a group, total_blocks of them in all groups
    Requests                \* numbers of blocks asked for at once

VARIABLES
    method,
    disk_blocks,        \* the blocks marked as allocated
    free_list,          \* stack of free blocks: its first elements
    free_blocks,
    free_sub_blocks,    \* sub-blocks: the count of each group
    next_block,         \* linked: successor in the file
    marked,             \* the blocks marked before the first request
    files               \* history: the blocks of each answered request or file

vars == <<method, disk_blocks, free_list, free_blocks, free_sub_blocks, next_block, marked, files>>

Blocks == 0 .. total_blocks - 1
NoBlock == -1
Group(b) == b \div blocks_per_group
Groups == {Group(b) : b \in Blocks}
Searching == {"contiguous", "extent"}

init_contiguous_allocator == method = "contiguous" /\ marked = {} /\ free_list = <<>>

\* disk_blocks is not cleared: any of them may be nonzero.
init_extent_allocator == method = "extent" /\ marked \in SUBSET Blocks /\ free_list = <<>>

AllBlocks == [k \in 1 .. total_blocks |-> k - 1]

init_linked_allocator == method = "linked" /\ marked = {} /\ free_list = AllBlocks
init_index_allocator == method = "indexed" /\ marked = {} /\ free_list = AllBlocks
init_dynamic_allocator == method = "dynamic" /\ marked = {} /\ free_list = AllBlocks
init_block_size_manager == method = "sub" /\ marked = {} /\ free_list = <<>>

Init ==
    /\ \/ init_contiguous_allocator \/ init_extent_allocator
       \/ init_linked_allocator \/ init_index_allocator
       \/ init_dynamic_allocator \/ init_block_size_manager
    /\ disk_blocks = marked
    /\ free_blocks = total_blocks
    /\ free_sub_blocks = [g \in Groups |-> blocks_per_group]
    /\ next_block = [b \in Blocks |-> NoBlock]
    /\ files = <<>>

-----------------------------------------------------------------------------
(* allocate_contiguous and allocate_extent *)

RunAt(s, needed) == s .. s + needed - 1

\* A count of 0 never meets the loop's test: such a request is refused.
Starts(needed) ==
    {s \in Blocks : needed > 0 /\ RunAt(s, needed) \subseteq Blocks \ disk_blocks}

\* Fault: the count of free blocks is not reset at a block that is taken.
allocate_contiguous_NoReset(needed) ==
    /\ needed > 0 /\ Cardinality(Blocks \ disk_blocks) >= needed
    /\ LET s == CHOOSE b \in Blocks \ disk_blocks : \A c \in Blocks \ disk_blocks : b <= c
       IN  /\ disk_blocks' = disk_blocks \cup RunAt(s, needed)
           /\ files' = Append(files, [k \in 1 .. needed |-> s + k - 1])
    /\ free_blocks' = free_blocks - needed
    /\ UNCHANGED <<free_list, free_sub_blocks, next_block>>

allocate_contiguous(needed) ==
    /\ Starts(needed) # {}
    /\ LET s == CHOOSE b \in Starts(needed) : \A c \in Starts(needed) : b <= c
       IN  /\ disk_blocks' = disk_blocks \cup RunAt(s, needed)
           /\ files' = Append(files, [k \in 1 .. needed |-> s + k - 1])
    /\ free_blocks' = free_blocks - needed
    /\ UNCHANGED <<free_list, free_sub_blocks, next_block>>

\* The same loop, with a record for the extent.
allocate_extent(desired) == allocate_contiguous(desired)

-----------------------------------------------------------------------------
(* allocate_linked_block: previous is the last block of a file, or NoBlock for *)
(* a new one *)

NewBlock == free_list[free_blocks]
LastBlock(f) == files[f][Len(files[f])]

allocate_linked_block(previous) ==
    /\ free_blocks # 0
    /\ free_blocks' = free_blocks - 1
    /\ next_block' = [b \in Blocks |-> CASE b = NewBlock -> NoBlock
                                         [] b = previous -> NewBlock
                                         [] OTHER -> next_block[b]]
    /\ files' = IF previous = NoBlock THEN Append(files, <<NewBlock>>)
                ELSE [f \in DOMAIN files |-> IF LastBlock(f) = previous
                                             THEN Append(files[f], NewBlock) ELSE files[f]]
    /\ UNCHANGED <<disk_blocks, free_list, free_sub_blocks>>

create_indexed_file ==
    /\ free_blocks # 0
    /\ free_blocks' = free_blocks - 1
    /\ files' = Append(files, <<NewBlock>>)
    /\ UNCHANGED <<disk_blocks, free_list, free_sub_blocks, next_block>>

\* Nothing is ever put into recently_freed, so every block comes from free_list.
\* free_list.count and free_blocks are equal.
allocate_blocks(count) ==
    /\ count <= free_blocks
    /\ LET allocated == [k \in 1 .. count |-> free_list[free_blocks - k + 1]]
       IN  /\ files' = Append(files, allocated)
           /\ disk_blocks' = disk_blocks \cup Range(allocated)
    /\ free_blocks' = free_blocks - count
    /\ UNCHANGED <<free_list, free_sub_blocks, next_block>>

\* The first free sub-block of the first group that counts one.  Larger requests,
\* and those that find no sub-block, are passed on to malloc.
allocate_optimal_block ==
    LET free == {b \in Blocks \ disk_blocks : free_sub_blocks[Group(b)] > 0}
        s == CHOOSE b \in free : \A c \in free : b <= c
    IN  /\ free # {}
        /\ disk_blocks' = disk_blocks \cup {s}
        /\ free_sub_blocks' = [free_sub_blocks EXCEPT ![Group(s)] = @ - 1]
        /\ files' = Append(files, <<s>>)
        /\ UNCHANGED <<free_list, free_blocks, next_block>>

-----------------------------------------------------------------------------

Next ==
    /\ UNCHANGED <<method, marked>>
    /\ Len(files) < total_blocks        \* bound on empty requests
    /\ \/ \E r \in Requests :
              \/ method = "contiguous" /\ allocate_contiguous(r)
              \/ method = "extent" /\ allocate_extent(r)
              \/ method = "dynamic" /\ allocate_blocks(r)
       \/ /\ method = "linked"
          /\ \E p \in {NoBlock} \cup {LastBlock(f) : f \in DOMAIN files} :
                allocate_linked_block(p)
       \/ method = "indexed" /\ create_indexed_file
       \/ method = "sub" /\ allocate_optimal_block

-----------------------------------------------------------------------------
(* Properties *)

BlocksOf(f) == Range(files[f])
Given == UNION {BlocksOf(f) : f \in DOMAIN files}

\* No block is given out twice, to one file or to two, and none that was marked.
GivenOnce ==
    /\ \A f \in DOMAIN files : IsInjective(files[f])
    /\ \A f, g \in DOMAIN files : f # g => BlocksOf(f) \cap BlocksOf(g) = {}
    /\ Given \cap marked = {}

\* free_blocks counts every block that was not given out, the ones the extent
\* allocator found marked and will never give out included; the groups of
\* sub-blocks have each a count of their own.
CountExact ==
    /\ method # "sub" => free_blocks = total_blocks - Cardinality(Given)
    /\ method = "sub" => \A g \in Groups :
            free_sub_blocks[g] = blocks_per_group - Cardinality({b \in Given : Group(b) = g})

\* A run is without gaps and lies as far down as the earlier ones allow.
FirstRuns ==
    method \in Searching =>
        \A f \in DOMAIN files :
            LET before == marked \cup UNION {BlocksOf(g) : g \in 1 .. f - 1}
            IN  /\ \A k \in 1 .. Len(files[f]) - 1 : files[f][k + 1] = files[f][k] + 1
                /\ \A s \in 0 .. files[f][1] - 1 : RunAt(s, Len(files[f])) \cap before # {}

\* Following next_block from a file's first block meets the file's blocks and
\* stops there.
ChainsExact ==
    method = "linked" =>
        \A f \in DOMAIN files : \A k \in DOMAIN files[f] :
            next_block[files[f][k]] = IF k = Len(files[f]) THEN NoBlock ELSE files[f][k + 1]

BlocksKept == GivenOnce /\ CountExact /\ FirstRuns /\ ChainsExact
=============================================================================
