----------------------------- MODULE FreeRegions -----------------------------
(***************************************************************************)
(* d27 fragmentation_management.c: a list of free regions, measured by       *)
(* update_fragmentation_metrics and rearranged by defragment.  The client    *)
(* that takes and gives back blocks is not in the repository: it takes from  *)
(* the front of a region, drops a region that is used up and appends what is *)
(* given back.  The ratio, a floating-point number, is left out.             *)
(***************************************************************************)
EXTENDS Integers, Sequences, FiniteSets, Functions

CONSTANT total_blocks

VARIABLES
    free_regions,       \* [block_start, block_len], region_count of them
    used_space, largest_free_block,
    measured,           \* history: nothing was taken or given back since the metrics
    free,               \* history: the blocks that are free
    tidied              \* history: the number of regions defragment found, 0 once it is outdated

vars == <<free_regions, used_space, largest_free_block, measured, free, tidied>>

Blocks == 0 .. total_blocks - 1
Region(start, len) == [block_start |-> start, block_len |-> len]
BlocksOf(r) == r.block_start .. r.block_start + r.block_len - 1

init_fragmentation_manager ==
    /\ free_regions = <<Region(0, total_blocks)>>
    /\ used_space = 0
    /\ largest_free_block = total_blocks

Init == init_fragmentation_manager /\ measured = TRUE /\ free = Blocks /\ tidied = 0

Take(r, count) ==
    LET region == free_regions[r]
        taken == region.block_start .. region.block_start + count - 1
    IN  /\ count <= region.block_len
        /\ free_regions' = IF count = region.block_len
                           THEN SubSeq(free_regions, 1, r - 1)
                                    \o SubSeq(free_regions, r + 1, Len(free_regions))
                           ELSE [free_regions EXCEPT
                                    ![r] = Region(region.block_start + count, region.block_len - count)]
        /\ free' = free \ taken
        /\ measured' = FALSE /\ tidied' = 0
        /\ UNCHANGED <<used_space, largest_free_block>>

GiveBack(start, count) ==
    LET region == Region(start, count)
    IN  /\ BlocksOf(region) \subseteq Blocks \ free
        /\ free_regions' = Append(free_regions, region)
        /\ free' = free \cup BlocksOf(region)
        /\ measured' = FALSE /\ tidied' = 0
        /\ UNCHANGED <<used_space, largest_free_block>>

TotalLen(regions) ==
    LET sum[k \in 0 .. Len(regions)] == IF k = 0 THEN 0 ELSE sum[k - 1] + regions[k].block_len
    IN  sum[Len(regions)]

update_fragmentation_metrics ==
    /\ LET lens == {0} \cup {r.block_len : r \in Range(free_regions)}
       IN  largest_free_block' = CHOOSE m \in lens : \A l \in lens : m >= l
    /\ used_space' = total_blocks - TotalLen(free_regions)
    /\ measured' = TRUE
    /\ UNCHANGED <<free_regions, free, tidied>>

-----------------------------------------------------------------------------
(* defragment *)

\* One turn of the inner loop: it compares the i-th region, not the j-th, with
\* the one after the j-th.
Swap(regions, i, j) ==
    IF regions[i].block_start > regions[j + 1].block_start
    THEN [regions EXCEPT ![j] = regions[j + 1], ![j + 1] = regions[j]]
    ELSE regions

Pass(regions, i) ==
    LET turn[j \in 0 .. Len(regions) - i] ==
            IF j = 0 THEN regions ELSE Swap(turn[j - 1], i, j)
    IN  turn[Len(regions) - i]

Sort(regions) ==
    LET pass[i \in 0 .. Len(regions) - 1] ==
            IF i = 0 THEN regions ELSE Pass(pass[i - 1], i)
    IN  pass[Len(regions) - 1]

\* merged ends with the region at write_idx.
Merge(merged, region) ==
    LET last == merged[Len(merged)]
    IN  IF last.block_start + last.block_len = region.block_start
        THEN [merged EXCEPT ![Len(merged)].block_len = @ + region.block_len]
        ELSE Append(merged, region)

MergeAll(regions) ==
    LET merged[k \in 0 .. Len(regions) - 1] ==
            IF k = 0 THEN <<regions[1]>> ELSE Merge(merged[k - 1], regions[k + 1])
    IN  merged[Len(regions) - 1]

\* Without a region, region_count would become 1 and an old region come back:
\* the client calls it only when there is one.
defragment ==
    /\ free_regions # <<>>
    /\ free_regions' = MergeAll(Sort(free_regions))
    /\ tidied' = Len(free_regions)
    /\ UNCHANGED <<used_space, largest_free_block, measured, free>>

Next ==
    \/ \E r \in DOMAIN free_regions, count \in 1 .. total_blocks : Take(r, count)
    \/ \E start \in Blocks, count \in 1 .. total_blocks : GiveBack(start, count)
    \/ update_fragmentation_metrics
    \/ defragment

-----------------------------------------------------------------------------
(* Properties *)

\* The regions are the free blocks, each in one region, whatever defragment
\* swaps and merges.  While the client takes and gives back nothing, used_space
\* is exact and there is a run of largest_free_block free blocks (defragment can
\* make a longer one).  Of up to two regions, defragment leaves no two adjoining.
RegionsKept ==
    /\ UNION {BlocksOf(r) : r \in Range(free_regions)} = free
    /\ TotalLen(free_regions) = Cardinality(free)
    /\ measured => /\ used_space = total_blocks - Cardinality(free)
                   /\ \E start \in Blocks : start .. start + largest_free_block - 1 \subseteq free
    /\ tidied \in {1, 2} => \A r, s \in Range(free_regions) :
                                r.block_start + r.block_len # s.block_start
=============================================================================
