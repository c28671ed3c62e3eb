---------------------------- MODULE PrefetchQueue ----------------------------
(***************************************************************************)
(* The prefetch queue of d27 performance_optimization.c under any sequence   *)
(* of accesses.                                                              *)
(*                                                                           *)
(* The heat of a block, a double decayed by 19/20 with each access, is kept  *)
(* as an integer: after k accesses it is heat / 20^k.  No two blocks that    *)
(* were accessed have the same exact heat, and the few accesses of the check *)
(* stay far from the precision of a double, so the comparisons agree.        *)
(* block_access_count and block_access_pattern are never read.               *)
(***************************************************************************)
EXTENDS Integers, Sequences, Functions

CONSTANTS
    total_blocks,
    prefetch_size,      \* capacity of the queue and window of the prediction; in
                        \* 1 .. MAX_PREFETCH, or the code leaves its arrays
    MAX_PREFETCH,
    MaxAccesses         \* bound of the check

VARIABLES
    queue,
    heat_map,
    accesses,           \* history: the blocks accessed
    predicted           \* history: all predictions

vars == <<queue, heat_map, accesses, predicted>>

Blocks == 0 .. total_blocks - 1

init_performance_optimizer == queue = <<>> /\ heat_map = [b \in Blocks |-> 0]

Init == init_performance_optimizer /\ accesses = <<>> /\ predicted = <<>>

Power(base, k) ==
    LET power[e \in 0 .. k] == IF e = 0 THEN 1 ELSE base * power[e - 1]
    IN  power[k]

\* How many of the blocks behind block_num are in the window and on the disk.
Ahead(block_num) ==
    IF block_num + prefetch_size < total_blocks THEN prefetch_size
    ELSE total_blocks - 1 - block_num

\* Hottest block of heat h other than block_num, the first of them; none if all are cold.
Hot(h, block_num) ==
    {b \in Blocks \ {block_num} :
        /\ h[b] > 0
        /\ \A c \in Blocks \ {block_num} : h[b] > h[c] \/ (h[b] = h[c] /\ b <= c)}

predict_next_blocks(h, block_num) ==
    LET sequential == [k \in 1 .. Ahead(block_num) |-> block_num + k]
    IN  IF Ahead(block_num) < MAX_PREFETCH /\ Hot(h, block_num) # {}
        THEN Append(sequential, CHOOSE b \in Hot(h, block_num) : TRUE)
        ELSE sequential

queue_prefetch(q, predict_block) ==
    Append(IF Len(q) >= prefetch_size THEN Tail(q) ELSE q, predict_block)

QueueAll(blocks) ==
    LET after[k \in 0 .. Len(blocks)] ==
            IF k = 0 THEN queue ELSE queue_prefetch(after[k - 1], blocks[k])
    IN  after[Len(blocks)]

update_access_pattern(block_num) ==
    LET k == Len(accesses) + 1
        decayed == [b \in Blocks |-> 19 * heat_map[b]]
        heat == [decayed EXCEPT ![block_num] = @ + Power(20, k)]
        predict_blocks == predict_next_blocks(heat, block_num)
    IN  /\ heat_map' = heat
        /\ queue' = QueueAll(predict_blocks)
        /\ predicted' = predicted \o predict_blocks
        /\ accesses' = Append(accesses, block_num)

Next == Len(accesses) < MaxAccesses /\ \E b \in Blocks : update_access_pattern(b)

-----------------------------------------------------------------------------
(* Properties *)

\* The queue holds the latest predictions, oldest first, as many as fit.
LatestKept ==
    queue = SubSeq(predicted, IF Len(predicted) > prefetch_size
                              THEN Len(predicted) - prefetch_size + 1 ELSE 1, Len(predicted))

\* An access weighs (19/20)^a when a accesses came after it.
Weight(b) ==
    LET last == Len(accesses)
        sum[k \in 0 .. last] ==
            IF k = 0 THEN 0
            ELSE sum[k - 1] + IF accesses[k] = b THEN Power(19, last - k) * Power(20, k) ELSE 0
    IN  sum[last]

\* Where the sequential blocks leave room for a hot one, no other block's accesses
\* weigh more than those of all the blocks predicted with it.  That holds of the
\* hottest block not yet predicted, as the comment wants it, and of the hottest of
\* all, which the code adds even when it is predicted already.
HottestAdded ==
    LET latest == accesses[Len(accesses)]
    IN  (Len(accesses) > 0 /\ Ahead(latest) < MAX_PREFETCH) =>
            \A b \in Range(accesses) \ {latest} :
                \E k \in Len(predicted) - Ahead(latest) .. Len(predicted) :
                    Weight(b) <= Weight(predicted[k])

QueueKept == LatestKept /\ HottestAdded
=============================================================================
