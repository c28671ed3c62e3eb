--------------------------- MODULE PageReplacement ---------------------------
(***************************************************************************)
(* d20 page_replacement_algo.c (d19 Paging_Mechanism.c holds the same three  *)
(* functions): FIFO, LRU and optimal replacement over one string of page     *)
(* references, one after the other as main calls them.  One step is one turn *)
(* of the loop over pages[].                                                 *)
(*                                                                           *)
(* rival is any other algorithm with as many frames, whose victims are       *)
(* chosen freely: what optimal replacement has to be measured against.       *)
(***************************************************************************)
EXTENDS Integers, Sequences, FiniteSets, SequencesExt

CONSTANTS
    n,              \* references in pages[]
    Capacities,     \* the values of capacity
    PageCount       \* different pages

VARIABLES
    pages, capacity,
    algo,           \* the function main is in
    i,              \* its loop counter, from 1
    frames,         \* frames[0 .. curr_size - 1]: the page of each used frame
    head,           \* of the FIFO queue
    last_used,      \* of each frame, under LRU
    page_faults,    \* of each function
    loads,          \* history: the pages brought in, in order
    rival           \* frames and faults of the rival

vars == <<pages, capacity, algo, i, frames, head, last_used, page_faults, loads, rival>>

\* The functions only compare pages, so strings that differ by a renaming of the
\* pages are represented by the one in which new pages appear in order.
References ==
    {s \in [1 .. n -> 1 .. PageCount] :
        \A j \in 1 .. n : \/ s[j] = 1
                          \/ \E k \in 1 .. j - 1 : s[k] = s[j]
                          \/ \E k \in 1 .. j - 1 : s[k] = s[j] - 1}

NoFrames == [frames |-> {}, faults |-> 0]

initFIFOQueue == frames = <<>> /\ head = 0

Init ==
    /\ pages \in References
    /\ capacity \in Capacities
    /\ algo = 1 /\ i = 1
    /\ initFIFOQueue
    /\ last_used = <<>>
    /\ page_faults = [a \in 1 .. 3 |-> 0]
    /\ loads = <<>>
    /\ rival = NoFrames

page == pages[i]
isPagePresent == \E j \in 1 .. Len(frames) : frames[j] = page
Free == Len(frames) < capacity

\* What every turn does, whether or not the page was there.
Turn(fault) ==
    /\ i' = i + 1
    /\ page_faults' = IF fault THEN [page_faults EXCEPT ![algo] = @ + 1] ELSE page_faults
    /\ loads' = IF fault THEN Append(loads, page) ELSE loads
    /\ UNCHANGED <<pages, capacity, algo>>

-----------------------------------------------------------------------------
(* FIFOPageReplacement *)

FIFOHit == isPagePresent /\ Turn(FALSE) /\ UNCHANGED <<frames, head, last_used, rival>>

FIFOFill ==
    /\ ~isPagePresent /\ Free
    /\ frames' = Append(frames, page)
    /\ Turn(TRUE)
    /\ UNCHANGED <<head, last_used, rival>>

FIFOReplace ==
    /\ ~isPagePresent /\ ~Free
    /\ frames' = [frames EXCEPT ![head + 1] = page]
    /\ head' = (head + 1) % capacity
    /\ Turn(TRUE)
    /\ UNCHANGED <<last_used, rival>>

FIFOPageReplacement == algo = 1 /\ i <= n /\ (FIFOHit \/ FIFOFill \/ FIFOReplace)

-----------------------------------------------------------------------------
(* LRUPageReplacement *)

\* Fault: a hit does not count as a use.
LRUHit_NoTouch == isPagePresent /\ Turn(FALSE) /\ UNCHANGED <<frames, head, last_used, rival>>

LRUHit ==
    /\ isPagePresent
    /\ LET j == SelectInSeq(frames, LAMBDA f : f = page)
       IN  last_used' = [last_used EXCEPT ![j] = i]
    /\ Turn(FALSE)
    /\ UNCHANGED <<frames, head, rival>>

LRUFill ==
    /\ ~isPagePresent /\ Free
    /\ frames' = Append(frames, page)
    /\ last_used' = Append(last_used, i)
    /\ Turn(TRUE)
    /\ UNCHANGED <<head, rival>>

\* The first frame of least last_used.
lru_idx ==
    CHOOSE j \in 1 .. capacity :
        \A k \in 1 .. capacity : /\ last_used[j] <= last_used[k]
                                 /\ k < j => last_used[j] < last_used[k]

LRUReplace ==
    /\ ~isPagePresent /\ ~Free
    /\ frames' = [frames EXCEPT ![lru_idx] = page]
    /\ last_used' = [last_used EXCEPT ![lru_idx] = i]
    /\ Turn(TRUE)
    /\ UNCHANGED <<head, rival>>

LRUPageReplacement == algo = 2 /\ i <= n /\ (LRUHit \/ LRUFill \/ LRUReplace)

-----------------------------------------------------------------------------
(* optimalPageReplacement *)

Uses(f) == {j \in i + 1 .. n : pages[j] = f}
NextUse(f) == CHOOSE j \in Uses(f) : \A k \in Uses(f) : j <= k

\* Fault: the page used again soonest goes.
findFarthest_Nearest ==
    LET unused == {j \in 1 .. capacity : Uses(frames[j]) = {}}
    IN  IF unused # {} THEN CHOOSE j \in unused : \A k \in unused : j <= k
        ELSE CHOOSE j \in 1 .. capacity :
                \A k \in 1 .. capacity : NextUse(frames[j]) <= NextUse(frames[k])

\* The first frame whose page is not used again, or else the one whose page is
\* used again last.
findFarthest ==
    LET unused == {j \in 1 .. capacity : Uses(frames[j]) = {}}
    IN  IF unused # {} THEN CHOOSE j \in unused : \A k \in unused : j <= k
        ELSE CHOOSE j \in 1 .. capacity :
                \A k \in 1 .. capacity : NextUse(frames[j]) >= NextUse(frames[k])

\* The rival takes its own turn on the same reference.
RivalTurn ==
    IF page \in rival.frames THEN UNCHANGED rival
    ELSE \E victims \in SUBSET rival.frames :
            /\ Cardinality(rival.frames \ victims) < capacity
            /\ rival' = [frames |-> (rival.frames \ victims) \cup {page},
                         faults |-> rival.faults + 1]

optimalHit ==
    /\ isPagePresent /\ RivalTurn
    /\ Turn(FALSE)
    /\ UNCHANGED <<frames, head, last_used>>

optimalFill ==
    /\ ~isPagePresent /\ Free /\ RivalTurn
    /\ frames' = Append(frames, page)
    /\ Turn(TRUE)
    /\ UNCHANGED <<head, last_used>>

optimalReplace ==
    /\ ~isPagePresent /\ ~Free /\ RivalTurn
    /\ frames' = [frames EXCEPT ![findFarthest] = page]
    /\ Turn(TRUE)
    /\ UNCHANGED <<head, last_used>>

optimalPageReplacement ==
    algo = 3 /\ i <= n /\ (optimalHit \/ optimalFill \/ optimalReplace)

\* main: the next function starts with frames of its own.
NextAlgorithm ==
    /\ algo <= 3 /\ i = n + 1
    /\ algo' = algo + 1
    /\ i' = 1
    /\ frames' = <<>> /\ head' = 0
    /\ last_used' = <<>>
    /\ loads' = <<>>
    /\ UNCHANGED <<pages, capacity, page_faults, rival>>

Next ==
    FIFOPageReplacement \/ LRUPageReplacement \/ optimalPageReplacement \/ NextAlgorithm

-----------------------------------------------------------------------------
(* Properties *)

Resident == {frames[j] : j \in 1 .. Len(frames)}
SetOf(s) == {s[j] : j \in 1 .. Len(s)}
LastOf(s, k) == SetOf(SubSeq(s, IF Len(s) < k THEN 1 ELSE Len(s) - k + 1, Len(s)))

\* Pages referenced after the last reference to p, before the current turn.
Since(p) ==
    {pages[k] : k \in {m \in 1 .. i - 1 : \A j \in m .. i - 1 : pages[j] # p}}

\* FIFO keeps the pages brought in last, LRU the pages referenced last: the
\* circular head and the last_used stamps, with frames overwritten in place,
\* come to the reference definitions.
ReplacementExact ==
    /\ algo = 1 => Resident = LastOf(loads, capacity)
    /\ algo = 2 => Resident = {p \in SetOf(SubSeq(pages, 1, i - 1)) :
                                    Cardinality(Since(p)) < capacity}

\* After the same references no algorithm with as many frames has had fewer
\* faults than optimalPageReplacement at the end, FIFO and LRU included.
OptimalIsBest ==
    algo = 4 => /\ page_faults[3] <= rival.faults
                /\ page_faults[3] <= page_faults[1]
                /\ page_faults[3] <= page_faults[2]
=============================================================================
