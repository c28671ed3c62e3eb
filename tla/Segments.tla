------------------------------ MODULE Segments ------------------------------
(***************************************************************************)
(* d21 memory_segmentation.c: two segment tables over one physical memory.   *)
(* allocateSegment takes bytes that are 0 for free ones and marks nothing,   *)
(* and no function writes to the memory: what malloc left in it decides, and *)
(* segments placed one after the other, as by main, may get the same bytes.  *)
(* The second table gets its segments by shareSegment, which does not look   *)
(* whether there is room.  Protection bits are left out: translateAddress    *)
(* does not look at them.                                                    *)
(***************************************************************************)
EXTENDS Integers, Sequences

CONSTANTS MAX_SEGMENTS, MAX_MEMORY_SIZE, Limits

VARIABLES
    table,              \* base_address and limit of the segments of the first table
    target, target_size,    \* the valid entries of the second one, and its size
    memory,             \* the addresses whose byte is not 0
    placed,             \* history: the segments that allocateSegment found a place for
    sources,            \* history: the segment each entry of target was copied from
    early               \* history: those of target copied before their source was placed

vars == <<table, target, target_size, memory, placed, sources, early>>

Error == -1
Extent(s) == table[s].base_address .. table[s].base_address + table[s].limit - 1

initSegmentTable == <<>>
initPhysicalMemory == SUBSET {1, 3}

Init ==
    /\ table = initSegmentTable
    /\ target = initSegmentTable /\ target_size = 0
    /\ memory \in initPhysicalMemory
    /\ placed = {} /\ sources = <<>> /\ early = {}

createSegment(size) ==
    /\ Len(table) < MAX_SEGMENTS
    /\ table' = Append(table, [base_address |-> 0, limit |-> size])
    /\ UNCHANGED <<target, target_size, memory, placed, sources, early>>

\* Fault: every byte overwrites the flag, so that the last one decides.
space_available_LastByte(curr_addr, size) == size = 0 \/ curr_addr + size - 1 \notin memory

space_available(curr_addr, size) == \A i \in 0 .. size - 1 : curr_addr + i \notin memory

Places(size) ==
    {a \in 0 .. MAX_MEMORY_SIZE : a + size <= MAX_MEMORY_SIZE /\ space_available(a, size)}

\* The lowest place; without one it returns -1 and changes nothing.
allocateSegment(seg_num) ==
    LET places == Places(table[seg_num].limit)
    IN  /\ places # {}
        /\ table' = [table EXCEPT ![seg_num].base_address =
                        CHOOSE a \in places : \A b \in places : a <= b]
        /\ placed' = placed \cup {seg_num}
        /\ UNCHANGED <<target, target_size, memory, sources, early>>

Copied(f, k, value) == [j \in DOMAIN f \cup {k} |-> IF j = k THEN value ELSE f[j]]

ShareInside(seg_num) ==
    LET new_seg == target_size + 1
    IN  /\ target_size < MAX_SEGMENTS
        /\ target_size' = target_size + 1
        /\ target' = Copied(target, new_seg, table[seg_num])
        /\ sources' = Copied(sources, new_seg, seg_num)
        /\ early' = IF seg_num \in placed THEN early \ {new_seg} ELSE early \cup {new_seg}
        /\ UNCHANGED <<table, memory, placed>>

\* The entry behind a full table begins where its size is: the base address becomes
\* the size, unless the compiler stores the size last.  A copy further behind goes to
\* foreign memory; the model does not make it.
ShareBehind(seg_num) ==
    /\ target_size = MAX_SEGMENTS
    /\ target_size' \in {MAX_SEGMENTS + 1, table[seg_num].base_address}
    /\ UNCHANGED <<table, target, memory, placed, sources, early>>

shareSegment(seg_num) == ShareInside(seg_num) \/ ShareBehind(seg_num)

\* t has size entries, or more when its size was overwritten.  A full table translates
\* nothing.  createSegment makes every segment valid, placed or not.
translateAddress(t, size, segment, offset) ==
    IF \/ size >= MAX_SEGMENTS
       \/ segment \notin DOMAIN t
       \/ offset >= t[segment].limit
    THEN Error ELSE t[segment].base_address + offset

Next ==
    \/ \E size \in Limits : createSegment(size)
    \/ \E s \in DOMAIN table : allocateSegment(s) \/ shareSegment(s)

-----------------------------------------------------------------------------
(* Properties *)

Free == (0 .. MAX_MEMORY_SIZE - 1) \ memory

\* First fit: whatever was placed before, a placed segment has free bytes of the
\* memory only, and none of the stretches that begin lower is free.
FirstFree ==
    \A s \in placed :
        /\ Extent(s) \subseteq Free
        /\ \A a \in 0 .. table[s].base_address - 1 : ~ a .. a + table[s].limit - 1 \subseteq Free

\* A segment shared once it had a place is the same bytes through both tables for
\* ever: it may be placed again and the second table's size may have been overwritten.
SharedAlike ==
    \A k \in DOMAIN target \ early : \A offset \in 0 .. MAX_MEMORY_SIZE :
        Len(table) < MAX_SEGMENTS /\ target_size < MAX_SEGMENTS =>
            translateAddress(target, target_size, k, offset)
                = translateAddress(table, Len(table), sources[k], offset)

SegmentsKept == FirstFree /\ SharedAlike
=============================================================================
