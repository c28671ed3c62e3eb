--------------------------------- MODULE TLB ---------------------------------
(***************************************************************************)
(* d16 Translation_mechanism.c: translateAddress with a translation          *)
(* lookaside buffer in front of the page table.  The file has neither a main *)
(* nor a function that fills the page table; its client maps a page once and *)
(* does not change the mapping.                                              *)
(*                                                                           *)
(* The clock is an unsigned int and wraps around; here it has CLOCK_BITS.    *)
(***************************************************************************)
EXTENDS Integers

CONSTANTS TLB_SIZE, PAGE_TABLE_SIZE, OFFSET_BITS, CLOCK_BITS, FrameNums

VARIABLES
    tlb,            \* entries [page_num, frame_num, valid, access_time]
    page_table,     \* frame of each page, -1 while it is not valid
    clock,
    answer          \* history: the last logical address and its translation

vars == <<tlb, page_table, clock, answer>>

Entries == 0 .. TLB_SIZE - 1
TablePages == 0 .. PAGE_TABLE_SIZE - 1
Invalid == -1
Error == -1

initializeAddressTranslator ==
    /\ tlb = [e \in Entries |-> [page_num |-> 0, frame_num |-> 0, valid |-> FALSE, access_time |-> 0]]
    /\ page_table = [p \in TablePages |-> Invalid]
    /\ clock = 0

Init == initializeAddressTranslator /\ answer = [logical |-> 0, physical |-> Error]

MapPage(p, frame) ==
    /\ page_table[p] = Invalid
    /\ page_table' = [page_table EXCEPT ![p] = frame]
    /\ UNCHANGED <<tlb, clock, answer>>

page_num(logical) == logical \div 2 ^ OFFSET_BITS
offset(logical) == logical % 2 ^ OFFSET_BITS
Physical(frame, logical) == frame * 2 ^ OFFSET_BITS + offset(logical)

Tick == clock' = (clock + 1) % 2 ^ CLOCK_BITS

\* Fault: the page number of an invalid entry counts.
Hits_AnyEntry(p) == {e \in Entries : tlb[e].page_num = p}

Hits(p) == {e \in Entries : tlb[e].valid /\ tlb[e].page_num = p}

\* The first entry of least access_time.
lru_idx ==
    CHOOSE e \in Entries :
        \A d \in Entries : /\ tlb[e].access_time <= tlb[d].access_time
                           /\ d < e => tlb[e].access_time < tlb[d].access_time

updateTLB(p, frame) ==
    /\ tlb' = [tlb EXCEPT ![lru_idx] =
                  [page_num |-> p, frame_num |-> frame, valid |-> TRUE, access_time |-> clock]]
    /\ Tick

Return(logical, physical) ==
    /\ answer' = [logical |-> logical, physical |-> physical]
    /\ UNCHANGED page_table

TranslateHit(logical) ==
    /\ Hits(page_num(logical)) # {}
    /\ LET e == CHOOSE e \in Hits(page_num(logical)) :
                    \A d \in Hits(page_num(logical)) : e <= d
       IN  /\ tlb' = [tlb EXCEPT ![e].access_time = clock]
           /\ Return(logical, Physical(tlb[e].frame_num, logical))
    /\ Tick

InTable(p) == p < PAGE_TABLE_SIZE /\ page_table[p] # Invalid

\* Out of bounds, or a page fault.
TranslateError(logical) ==
    /\ Hits(page_num(logical)) = {}
    /\ ~InTable(page_num(logical))
    /\ Return(logical, Error)
    /\ UNCHANGED <<tlb, clock>>

TranslateMiss(logical) ==
    /\ Hits(page_num(logical)) = {}
    /\ InTable(page_num(logical))
    /\ updateTLB(page_num(logical), page_table[page_num(logical)])
    /\ Return(logical, Physical(page_table[page_num(logical)], logical))

translateAddress(logical) ==
    TranslateHit(logical) \/ TranslateError(logical) \/ TranslateMiss(logical)

Next ==
    \/ \E p \in TablePages, frame \in FrameNums : MapPage(p, frame)
    \/ \E logical \in 0 .. (PAGE_TABLE_SIZE + 1) * 2 ^ OFFSET_BITS - 1 : translateAddress(logical)

-----------------------------------------------------------------------------

\* The buffer is transparent: it holds a page at most once and agrees with the
\* page table, and every translation is the one the table gives, also after the
\* clock has wrapped around and the order of use is lost.
Transparent ==
    /\ \A e \in Entries : tlb[e].valid => tlb[e].frame_num = page_table[tlb[e].page_num]
    /\ \A d, e \in Entries :
          tlb[d].valid /\ tlb[e].valid /\ tlb[d].page_num = tlb[e].page_num => d = e
    /\ answer.physical # Error =>
          /\ page_num(answer.logical) \in TablePages
          /\ answer.physical = Physical(page_table[page_num(answer.logical)], answer.logical)
=============================================================================
