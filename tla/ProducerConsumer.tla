------------------------- MODULE ProducerConsumer -------------------------
(***************************************************************************)
(* d12 consumer_producer.c: PRODUCER_COUNT producers and CONSUMER_COUNT     *)
(* consumers share a stack of BUFFER_SIZE slots guarded by one mutex and    *)
(* two counting semaphores.  Every thread makes thread_nums calls.          *)
(*                                                                          *)
(* Threads are numbered in the order main creates and joins them, the       *)
(* producers first.  The item a producer stores in round k is i * rand;     *)
(* here it is <<producer, k>>, so that two items are never confused.        *)
(***************************************************************************)
EXTENDS Integers, FiniteSets

CONSTANTS
    BUFFER_SIZE,       \* slots of the buffer
    PRODUCER_COUNT,
    CONSUMER_COUNT,
    THREAD_NUMS        \* calls made by each thread (thread_nums)

ASSUME SizesAssumption ==
    /\ BUFFER_SIZE \in Nat \ {0}
    /\ PRODUCER_COUNT \in Nat
    /\ CONSUMER_COUNT \in Nat
    /\ THREAD_NUMS \in Nat

\* The consumers must not ask for more than is produced and what they leave must
\* fit in the buffer, or some thread waits for ever.  Only termination rests on
\* this; the program's own values are 3, 2, 5 and 10.
ASSUME SurplusAssumption ==
    /\ PRODUCER_COUNT >= CONSUMER_COUNT
    /\ (PRODUCER_COUNT - CONSUMER_COUNT) * THREAD_NUMS <= BUFFER_SIZE

VARIABLES
    data,           \* buf->data
    count,          \* buf->count
    mutex,          \* the thread that holds buf->mutex, 0 when it is free
    empty_slots,    \* value of the semaphore buf->empty_slots
    filled_slots,   \* value of the semaphore buf->filled_slots
    pc,             \* where each thread is
    round,          \* the loop counter i of each thread
    main,           \* threads created plus threads joined by main
    taken           \* how often each item was returned by consume_item

shared == <<data, count, mutex, empty_slots, filled_slots>>
vars == <<data, count, mutex, empty_slots, filled_slots, pc, round, main, taken>>

Producers == 1 .. PRODUCER_COUNT
Consumers == PRODUCER_COUNT + 1 .. PRODUCER_COUNT + CONSUMER_COUNT
ThreadCount == PRODUCER_COUNT + CONSUMER_COUNT
Threads == 1 .. ThreadCount
Slots == 0 .. BUFFER_SIZE - 1
Items == Producers \X (0 .. THREAD_NUMS - 1)
Zero == <<0, 0>>                          \* what buffer = {0} leaves in a slot

ProducerLabels == {"p_wait", "p_lock", "p_store", "p_count", "p_unlock", "p_post"}
ConsumerLabels == {"c_wait", "c_lock", "c_count", "c_load", "c_unlock", "c_post"}
Labels == ProducerLabels \cup ConsumerLabels \cup {"unborn", "done"}

TypeOK ==
    /\ data \in [Slots -> Items \cup {Zero}]
    /\ count \in 0 .. BUFFER_SIZE
    /\ mutex \in 0 .. ThreadCount
    /\ empty_slots \in Nat /\ filled_slots \in Nat
    /\ pc \in [Threads -> Labels]
    /\ \A t \in Producers : pc[t] \notin ConsumerLabels
    /\ \A t \in Consumers : pc[t] \notin ProducerLabels
    /\ round \in [Threads -> 0 .. THREAD_NUMS]
    /\ main \in 0 .. 2 * ThreadCount
    /\ taken \in [Items -> Nat]

-----------------------------------------------------------------------------

\* Fault: one empty slot too many.
initiailize_buffer_ExtraSlot ==
    count = 0 /\ mutex = 0 /\ empty_slots = BUFFER_SIZE + 1 /\ filled_slots = 0

initiailize_buffer ==
    /\ count = 0
    /\ mutex = 0
    /\ empty_slots = BUFFER_SIZE
    /\ filled_slots = 0

Init ==
    /\ initiailize_buffer
    /\ data = [s \in Slots |-> Zero]
    /\ pc = [t \in Threads |-> "unborn"]
    /\ round = [t \in Threads |-> 0]
    /\ main = 0
    /\ taken = [x \in Items |-> 0]

At(t, label) == pc[t] = label
Goto(t, label) == pc' = [pc EXCEPT ![t] = label]

\* The head of a thread's for loop: another call of product_item or
\* consume_item, or the end of the thread.
LoopHead(t, i) ==
    IF i = THREAD_NUMS THEN "done" ELSE IF t \in Producers THEN "p_wait" ELSE "c_wait"

\* main creates the next thread ...
CreateThread ==
    /\ main < ThreadCount
    /\ main' = main + 1
    /\ Goto(main + 1, LoopHead(main + 1, 0))
    /\ UNCHANGED <<shared, round, taken>>

\* ... and, all created, joins them in the same order.
JoinThread ==
    /\ main >= ThreadCount /\ main < 2 * ThreadCount
    /\ At(main - ThreadCount + 1, "done")
    /\ main' = main + 1
    /\ UNCHANGED <<shared, pc, round, taken>>

\* main has returned: the program has ended.
Ended ==
    /\ main = 2 * ThreadCount
    /\ UNCHANGED vars

-----------------------------------------------------------------------------
(* pthread mutex, as the two functions use it. *)

LockMutex(t) == mutex = 0 /\ mutex' = t
UnlockMutex(t) == mutex = t /\ mutex' = 0

-----------------------------------------------------------------------------
(* product_item *)

ProduceWait(t) ==
    /\ At(t, "p_wait") /\ Goto(t, "p_lock")
    /\ empty_slots > 0
    /\ empty_slots' = empty_slots - 1
    /\ UNCHANGED <<data, count, mutex, filled_slots, round, main, taken>>

\* Fault: the producer changes the buffer without the mutex.
ProduceLock_Unlocked(t) ==
    /\ At(t, "p_lock") /\ Goto(t, "p_store")
    /\ mutex' = t
    /\ UNCHANGED <<data, count, empty_slots, filled_slots, round, main, taken>>

ProduceLock(t) ==
    /\ At(t, "p_lock") /\ Goto(t, "p_store")
    /\ LockMutex(t)
    /\ UNCHANGED <<data, count, empty_slots, filled_slots, round, main, taken>>

\* buf->data[buf->count++] = item is a store and an increment.
ProduceStore(t) ==
    /\ At(t, "p_store") /\ Goto(t, "p_count")
    /\ data' = [data EXCEPT ![count] = <<t, round[t]>>]
    /\ UNCHANGED <<count, mutex, empty_slots, filled_slots, round, main, taken>>

ProduceCount(t) ==
    /\ At(t, "p_count") /\ Goto(t, "p_unlock")
    /\ count' = count + 1
    /\ UNCHANGED <<data, mutex, empty_slots, filled_slots, round, main, taken>>

ProduceUnlock(t) ==
    /\ At(t, "p_unlock") /\ Goto(t, "p_post")
    /\ UnlockMutex(t)
    /\ UNCHANGED <<data, count, empty_slots, filled_slots, round, main, taken>>

\* Fault: the new item is never announced.
ProducePost_Silent(t) ==
    /\ At(t, "p_post") /\ Goto(t, LoopHead(t, round[t] + 1))
    /\ round' = [round EXCEPT ![t] = @ + 1]
    /\ UNCHANGED <<shared, main, taken>>

\* sem_post ends the call; the loop goes round.
ProducePost(t) ==
    /\ At(t, "p_post") /\ Goto(t, LoopHead(t, round[t] + 1))
    /\ filled_slots' = filled_slots + 1
    /\ round' = [round EXCEPT ![t] = @ + 1]
    /\ UNCHANGED <<data, count, mutex, empty_slots, main, taken>>

producer_thread(t) ==
    \/ ProduceWait(t) \/ ProduceLock(t) \/ ProduceStore(t)
    \/ ProduceCount(t) \/ ProduceUnlock(t) \/ ProducePost(t)

-----------------------------------------------------------------------------
(* consume_item *)

ConsumeWait(t) ==
    /\ At(t, "c_wait") /\ Goto(t, "c_lock")
    /\ filled_slots > 0
    /\ filled_slots' = filled_slots - 1
    /\ UNCHANGED <<data, count, mutex, empty_slots, round, main, taken>>

ConsumeLock(t) ==
    /\ At(t, "c_lock") /\ Goto(t, "c_count")
    /\ LockMutex(t)
    /\ UNCHANGED <<data, count, empty_slots, filled_slots, round, main, taken>>

\* item = buf->data[--buf->count] is a decrement and a load.
ConsumeCount(t) ==
    /\ At(t, "c_count") /\ Goto(t, "c_load")
    /\ count' = count - 1
    /\ UNCHANGED <<data, mutex, empty_slots, filled_slots, round, main, taken>>

ConsumeLoad(t) ==
    /\ At(t, "c_load") /\ Goto(t, "c_unlock")
    /\ taken' = [taken EXCEPT ![data[count]] = @ + 1]
    /\ UNCHANGED <<shared, round, main>>

ConsumeUnlock(t) ==
    /\ At(t, "c_unlock") /\ Goto(t, "c_post")
    /\ UnlockMutex(t)
    /\ UNCHANGED <<data, count, empty_slots, filled_slots, round, main, taken>>

\* Fault: the consumer posts the semaphore it waited on.
ConsumePost_WrongSemaphore(t) ==
    /\ At(t, "c_post") /\ Goto(t, LoopHead(t, round[t] + 1))
    /\ filled_slots' = filled_slots + 1
    /\ round' = [round EXCEPT ![t] = @ + 1]
    /\ UNCHANGED <<data, count, mutex, empty_slots, main, taken>>

ConsumePost(t) ==
    /\ At(t, "c_post") /\ Goto(t, LoopHead(t, round[t] + 1))
    /\ empty_slots' = empty_slots + 1
    /\ round' = [round EXCEPT ![t] = @ + 1]
    /\ UNCHANGED <<data, count, mutex, filled_slots, main, taken>>

consumer_thread(t) ==
    \/ ConsumeWait(t) \/ ConsumeLock(t) \/ ConsumeCount(t)
    \/ ConsumeLoad(t) \/ ConsumeUnlock(t) \/ ConsumePost(t)

-----------------------------------------------------------------------------

Next ==
    \/ CreateThread \/ JoinThread \/ Ended
    \/ \E t \in Producers : producer_thread(t)
    \/ \E t \in Consumers : consumer_thread(t)

\* Every thread that can run is scheduled in the end.  Weak fairness is enough:
\* nothing is asked of the order in which the mutex or a semaphore picks waiters.
Fairness ==
    /\ WF_vars(CreateThread \/ JoinThread)
    /\ \A t \in Producers : WF_vars(producer_thread(t))
    /\ \A t \in Consumers : WF_vars(consumer_thread(t))

Spec == Init /\ [][Next]_vars
FairSpec == Spec /\ Fairness

-----------------------------------------------------------------------------
(* Properties *)

\* Where main and the thread loops stand: a thread is unborn until main creates
\* it, and a call in progress is one of its THREAD_NUMS.
Control ==
    \A t \in Threads :
        /\ t > main => pc[t] = "unborn"
        /\ pc[t] = "unborn" => round[t] = 0
        /\ pc[t] \notin {"unborn", "done"} => round[t] < THREAD_NUMS

\* Threads between the semaphore wait of a call and its semaphore post, by what
\* they have already done to buf->count.
Claiming == {t \in Producers : pc[t] \in {"p_lock", "p_store", "p_count"}}
Announcing == {t \in Producers : pc[t] \in {"p_unlock", "p_post"}}
Drawing == {t \in Consumers : pc[t] \in {"c_lock", "c_count"}}
Returning == {t \in Consumers : pc[t] \in {"c_load", "c_unlock", "c_post"}}

\* The two semaphores account for every slot: a slot is empty and free to claim,
\* claimed by a producer, full, or about to be handed back by a consumer; and
\* every full slot is announced, about to be announced, or promised to a consumer.
SlotAccounting ==
    /\ empty_slots + Cardinality(Claiming) + count + Cardinality(Returning) = BUFFER_SIZE
    /\ filled_slots + Cardinality(Announcing) + Cardinality(Drawing) = count

\* product_item never stores past the end of data and consume_item never takes
\* from an empty buffer, although neither function tests buf->count.
InBounds ==
    /\ \A t \in Producers : pc[t] \in {"p_store", "p_count"} => count < BUFFER_SIZE
    /\ \A t \in Consumers : pc[t] = "c_count" => count > 0
    /\ \A t \in Consumers : pc[t] = "c_load" => count < BUFFER_SIZE

\* The slots that hold an item: the one a consumer has uncounted but not yet
\* read is still among them.
FullSlots == 0 .. (IF \E t \in Consumers : At(t, "c_load") THEN count ELSE count - 1)
Stored(x) ==
    \/ round[x[1]] > x[2]
    \/ round[x[1]] = x[2] /\ pc[x[1]] \in {"p_unlock", "p_post"}

\* No item is lost, overwritten or delivered twice: every item stored so far is
\* in exactly one full slot, or was returned by exactly one consume_item.
EveryItemOnce ==
    \A x \in Items :
        taken[x] + Cardinality({s \in FullSlots : data[s] = x}) = IF Stored(x) THEN 1 ELSE 0

\* The program ends: main's joins of all producers and consumers return.
Terminates == <>(main = 2 * ThreadCount)
=============================================================================
