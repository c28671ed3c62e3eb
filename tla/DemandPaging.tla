---------------------------- MODULE DemandPaging ----------------------------
(***************************************************************************)
(* d15 Virtual_Memory.c: a page table filled on the first access to a page   *)
(* from a table of frames.  An access is given by its page number; the       *)
(* offset only travels into the result.                                      *)
(***************************************************************************)
EXTENDS Integers

CONSTANTS NUM_PAGES, NUM_FRAMES

VARIABLES
    frame_num,      \* of each page table entry, -1 while valid is 0
    frame_status,   \* the frames in use
    accessed        \* the frame of the last access, -1 if it returned NULL

vars == <<frame_num, frame_status, accessed>>

PageNums == 0 .. NUM_PAGES - 1
Frames == 0 .. NUM_FRAMES - 1
None == -1

Init ==
    /\ frame_num = [p \in PageNums |-> None]
    /\ frame_status = {}
    /\ accessed = None

\* The first free frame, -1 if there is none.
allocateFrame ==
    IF frame_status = Frames THEN None
    ELSE CHOOSE f \in Frames \ frame_status : \A g \in Frames \ frame_status : f <= g

\* main's addresses are all below NUM_PAGES * PAGE_SIZE; others are refused.
AccessInvalid(p) ==
    /\ p >= NUM_PAGES
    /\ accessed' = None
    /\ UNCHANGED <<frame_num, frame_status>>

AccessValid(p) ==
    /\ p < NUM_PAGES /\ frame_num[p] # None
    /\ accessed' = frame_num[p]
    /\ UNCHANGED <<frame_num, frame_status>>

AccessFault(p) ==
    /\ p < NUM_PAGES /\ frame_num[p] = None /\ allocateFrame # None
    /\ frame_status' = frame_status \cup {allocateFrame}
    /\ frame_num' = [frame_num EXCEPT ![p] = allocateFrame]
    /\ accessed' = allocateFrame

AccessNoFrame(p) ==
    /\ p < NUM_PAGES /\ frame_num[p] = None /\ allocateFrame = None
    /\ accessed' = None
    /\ UNCHANGED <<frame_num, frame_status>>

accessMemory(p) == AccessInvalid(p) \/ AccessValid(p) \/ AccessFault(p) \/ AccessNoFrame(p)

Next == \E p \in 0 .. NUM_PAGES : accessMemory(p)

-----------------------------------------------------------------------------

\* Two pages never share a frame, and the frames in use are those of the table.
FramesExact ==
    /\ \A p, q \in PageNums : frame_num[p] = frame_num[q] => p = q \/ frame_num[p] = None
    /\ frame_status = {frame_num[p] : p \in PageNums} \ {None}
=============================================================================
