----------------------------- MODULE Partitions -----------------------------
(***************************************************************************)
(* d17 Memory_Allocation_Algo.c: three managers of a memory of the same      *)
(* size, one for each strategy, get the same requests, as in main.  The      *)
(* linked list of a manager is a sequence of blocks.  The program has no     *)
(* operation that frees a block.                                             *)
(***************************************************************************)
EXTENDS Integers, Sequences, SequencesExt

CONSTANTS MAX_MEMORY_SIZE, MIN_PARTITION_SIZE, RequestSizes

VARIABLES
    list,           \* of each manager: its blocks [size, start_address, is_allocated]
    free_size       \* of each manager

vars == <<list, free_size>>

Strategies == 1 .. 3        \* first fit, best fit, worst fit
NoBlock == 0

initMemoryManager ==
    /\ list = [s \in Strategies |->
          <<[size |-> MAX_MEMORY_SIZE, start_address |-> 0, is_allocated |-> FALSE]>>]
    /\ free_size = [s \in Strategies |-> MAX_MEMORY_SIZE]

Init == initMemoryManager

Candidates(blocks, size) ==
    {b \in 1 .. Len(blocks) : ~blocks[b].is_allocated /\ blocks[b].size >= size}
First(S) == CHOOSE b \in S : \A c \in S : b <= c

firstFit(blocks, size) ==
    LET fit == Candidates(blocks, size) IN IF fit = {} THEN NoBlock ELSE First(fit)

\* The difference must be less than the size of the memory.
bestFit(blocks, size) ==
    LET fit == {b \in Candidates(blocks, size) : blocks[b].size - size < MAX_MEMORY_SIZE}
    IN  IF fit = {} THEN NoBlock
        ELSE First({b \in fit : \A c \in fit : blocks[b].size <= blocks[c].size})

\* The difference must be more than 0.
worstFit(blocks, size) ==
    LET fit == {b \in Candidates(blocks, size) : blocks[b].size - size > 0}
    IN  IF fit = {} THEN NoBlock
        ELSE First({b \in fit : \A c \in fit : blocks[b].size >= blocks[c].size})

Selected(s, size) ==
    CASE s = 1 -> firstFit(list[s], size)
      [] s = 2 -> bestFit(list[s], size)
      [] s = 3 -> worstFit(list[s], size)

\* The selected block is split if more than a smallest partition remains.
Taken(blocks, b, size) ==
    IF blocks[b].size > size + MIN_PARTITION_SIZE
    THEN InsertAt([blocks EXCEPT ![b].size = size, ![b].is_allocated = TRUE], b + 1,
                  [size |-> blocks[b].size - size,
                   start_address |-> blocks[b].start_address + size, is_allocated |-> FALSE])
    ELSE [blocks EXCEPT ![b].is_allocated = TRUE]

Refused(s, size) ==
    \/ size < MIN_PARTITION_SIZE
    \/ size > free_size[s]
    \/ Selected(s, size) = NoBlock

\* The calls for the three managers, one after the other, do not affect each other.
allocMemory(size) ==
    /\ list' = [s \in Strategies |->
            IF Refused(s, size) THEN list[s] ELSE Taken(list[s], Selected(s, size), size)]
    /\ free_size' = [s \in Strategies |->
            IF Refused(s, size) THEN free_size[s]
            ELSE free_size[s] - list'[s][Selected(s, size)].size]

Next == \E size \in RequestSizes : allocMemory(size)

-----------------------------------------------------------------------------

\* The blocks of a manager lie end to end and free_size is the size of the free ones.
\* As nothing is ever freed there is at most one free block, the last: the
\* strategies have no choice to make, and first fit and best fit always agree.
\* (Worst fit passes over a block that fits exactly, so it can fall behind.)
PartitionsSound ==
    /\ \A s \in Strategies :
          /\ list[s][1].start_address = 0
          /\ \A b \in 1 .. Len(list[s]) :
                list[s][b].start_address + list[s][b].size =
                    IF b = Len(list[s]) THEN MAX_MEMORY_SIZE ELSE list[s][b + 1].start_address
          /\ \A b \in 1 .. Len(list[s]) - 1 : list[s][b].is_allocated
          /\ free_size[s] = IF list[s][Len(list[s])].is_allocated THEN 0
                            ELSE list[s][Len(list[s])].size
    /\ list[1] = list[2]
=============================================================================
