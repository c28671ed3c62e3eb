------------------------------ MODULE FirstFit ------------------------------
(***************************************************************************)
(* d15 First_Fit_alloc.c: a first-fit allocator whose block headers, linked  *)
(* both ways, lie in the memory it hands out.  Addresses and sizes are       *)
(* counted in units of which a header takes HEADER.  headers is the part of  *)
(* the memory that holds headers: a merged block's header stays there as     *)
(* garbage.                                                                  *)
(*                                                                           *)
(* memoryAlloc is one step for each block it looks at.  The client frees     *)
(* only what it holds, and stays inside what it was given.                   *)
(***************************************************************************)
EXTENDS Integers

CONSTANTS MEMORY_SIZE, HEADER, MIN_BLOCK_SIZE, Sizes

ASSUME FirstFitAssumption ==
    /\ MEMORY_SIZE \in Nat /\ HEADER \in Nat \ {0} /\ MIN_BLOCK_SIZE \in Nat
    /\ MEMORY_SIZE >= HEADER
    /\ Sizes \subseteq Nat

Addresses == 0 .. MEMORY_SIZE - 1
NULL == -1
NoCall == -2

VARIABLES
    headers,        \* [size, is_allocatad, next, prev] at each address
    free_list,      \* the first block
    used_size,
    curr, want,     \* of the memoryAlloc in progress, curr = NoCall if there is none
    held            \* the pointers the client has been given and not freed

vars == <<headers, free_list, used_size, curr, want, held>>

Garbage == [size |-> 0, is_allocatad |-> FALSE, next |-> NULL, prev |-> NULL]

initializeMemoryManager ==
    /\ free_list = 0
    /\ used_size = 0
    /\ headers = [a \in Addresses |->
                    IF a = 0 THEN [Garbage EXCEPT !.size = MEMORY_SIZE - HEADER] ELSE Garbage]

Init == initializeMemoryManager /\ curr = NoCall /\ want = 0 /\ held = {}

-----------------------------------------------------------------------------
(* memoryAlloc *)

AllocCall(size) ==
    /\ curr = NoCall
    /\ curr' = free_list
    /\ want' = size
    /\ UNCHANGED <<headers, free_list, used_size, held>>

Fits == ~headers[curr].is_allocatad /\ headers[curr].size >= want

AllocSkip ==
    /\ curr \in Addresses /\ ~Fits
    /\ curr' = headers[curr].next
    /\ UNCHANGED <<headers, free_list, used_size, want, held>>

\* What remains of a block of this size becomes a block of its own.
CanSplit(size) == size >= want + HEADER + MIN_BLOCK_SIZE

\* Fault: the block after the new one keeps its old back pointer.
Split_StalePrev(b) ==
    LET rest == b + HEADER + want
    IN  [headers EXCEPT
            ![rest] = [size |-> headers[b].size - want - HEADER, is_allocatad |-> FALSE,
                       next |-> headers[b].next, prev |-> b],
            ![b].next = rest, ![b].size = want, ![b].is_allocatad = TRUE]

Split(b) ==
    LET rest == b + HEADER + want
        after == headers[b].next
        split == [headers EXCEPT
            ![rest] = [size |-> headers[b].size - want - HEADER, is_allocatad |-> FALSE,
                       next |-> after, prev |-> b],
            ![b].next = rest, ![b].size = want, ![b].is_allocatad = TRUE]
    IN  IF after = NULL THEN split ELSE [split EXCEPT ![after].prev = rest]

AllocTake ==
    /\ curr \in Addresses /\ Fits
    /\ headers' = IF CanSplit(headers[curr].size) THEN Split(curr)
                  ELSE [headers EXCEPT ![curr].is_allocatad = TRUE]
    /\ used_size' = used_size + headers'[curr].size + HEADER
    /\ held' = held \cup {curr + HEADER}
    /\ curr' = NoCall /\ want' = 0
    /\ UNCHANGED free_list

AllocFail ==
    /\ curr = NULL
    /\ curr' = NoCall /\ want' = 0
    /\ UNCHANGED <<headers, free_list, used_size, held>>

memoryAlloc == AllocSkip \/ AllocTake \/ AllocFail

-----------------------------------------------------------------------------
(* memoryFree *)

\* block takes in the block after it if that one is free.
MergeNext(h, block) ==
    LET after == h[block].next
    IN  IF after = NULL \/ h[after].is_allocatad THEN h
        ELSE LET merged == [h EXCEPT ![block].size = @ + h[after].size + HEADER,
                                     ![block].next = h[after].next]
             IN  IF h[after].next = NULL THEN merged
                 ELSE [merged EXCEPT ![h[after].next].prev = block]

\* The block before it takes block in if it is free.
MergePrev(h, block) ==
    LET before == h[block].prev
    IN  IF before = NULL \/ h[before].is_allocatad THEN h
        ELSE LET merged == [h EXCEPT ![before].size = @ + h[block].size + HEADER,
                                     ![before].next = h[block].next]
             IN  IF h[block].next = NULL THEN merged
                 ELSE [merged EXCEPT ![h[block].next].prev = before]

\* Fault: used_size is reduced by the size after the merges.
memoryFree_LateSize(ptr) ==
    LET block == ptr - HEADER
        freed == [headers EXCEPT ![block].is_allocatad = FALSE]
    IN  /\ curr = NoCall
        /\ ptr \in held
        /\ headers' = MergePrev(MergeNext(freed, block), block)
        /\ used_size' = used_size - (headers'[block].size + HEADER)
        /\ held' = held \ {ptr}
        /\ UNCHANGED <<free_list, curr, want>>

memoryFree(ptr) ==
    LET block == ptr - HEADER
        freed == [headers EXCEPT ![block].is_allocatad = FALSE]
    IN  /\ curr = NoCall
        /\ ptr \in held
        /\ headers' = MergePrev(MergeNext(freed, block), block)
        /\ used_size' = used_size - (headers[block].size + HEADER)
        /\ held' = held \ {ptr}
        /\ UNCHANGED <<free_list, curr, want>>

Next ==
    \/ \E size \in Sizes : AllocCall(size)
    \/ memoryAlloc
    \/ \E ptr \in held : memoryFree(ptr)

Spec == Init /\ [][Next]_vars

-----------------------------------------------------------------------------
(* Properties *)

\* The blocks of the list, followed from free_list.
Walk ==
    LET step[k \in 0 .. MEMORY_SIZE] ==
            IF k = 0 THEN free_list
            ELSE IF step[k - 1] = NULL THEN NULL ELSE headers[step[k - 1]].next
    IN  step
Blocks == {Walk[k] : k \in 0 .. MEMORY_SIZE} \ {NULL}
End(b) == b + HEADER + headers[b].size

\* The list describes the memory after every sequence of allocations and frees:
\* its blocks lie end to end from 0 to MEMORY_SIZE, the back pointers mirror
\* the forward ones, and no two neighbours are both free, so nothing is lost to
\* a merge that was missed.
HeapTiled ==
    /\ 0 \in Blocks
    /\ \A b \in Blocks :
          LET after == headers[b].next
          IN  IF after = NULL THEN End(b) = MEMORY_SIZE
              ELSE /\ after = End(b)
                   /\ headers[after].prev = b
                   /\ headers[b].is_allocatad \/ headers[after].is_allocatad

Used == {b \in Blocks : headers[b].is_allocatad}
UsedSum ==
    LET used == Used
        sum[k \in 0 .. MEMORY_SIZE] ==
            IF k = 0 THEN 0
            ELSE sum[k - 1] + IF k - 1 \in used THEN headers[k - 1].size + HEADER ELSE 0
    IN  sum[MEMORY_SIZE]

\* The client's pointers are the allocated blocks and used_size is their sum.
HeldExact == held = {b + HEADER : b \in Used} /\ used_size = UsedSum
=============================================================================
