----------------------------- MODULE SafeQueue -----------------------------
(***************************************************************************)
(* d8 combined.c: a ring buffer of QUEUE_SIZE slots, one of them always     *)
(* empty, shared by NUM_THREADS producers and NUM_THREADS consumers under   *)
(* one mutex and two condition variables.                                   *)
(*                                                                          *)
(* main creates producer i and consumer i in turn and joins them in the     *)
(* same order, so threads are numbered in that order: producers are the odd *)
(* numbers, consumers the even ones.  The value id * 100 + i pushed in      *)
(* round i is <<thread, i>>.                                                *)
(***************************************************************************)
EXTENDS Integers, Sequences

CONSTANTS
    QUEUE_SIZE,
    NUM_THREADS,
    ROUNDS          \* iterations of the producer and consumer loops (5)

ASSUME QueueAssumption ==
    /\ QUEUE_SIZE \in Nat /\ QUEUE_SIZE >= 2
    /\ NUM_THREADS \in Nat
    /\ ROUNDS \in Nat

VARIABLES
    data, front, rear,
    mutex,      \* the thread that holds q->mutex, 0 when it is free
    pc,         \* what each thread does next
    value,      \* the local variable value of a consumer in queue_pop
    round,      \* the loop counter i of each thread
    main,       \* threads created plus threads joined by main
    served      \* values removed by queue_pop so far, in order

vars == <<data, front, rear, mutex, pc, value, round, main, served>>

ThreadCount == 2 * NUM_THREADS
Threads == 1 .. ThreadCount
IsProducer(t) == t % 2 = 1
Slots == 0 .. QUEUE_SIZE - 1
Values == Threads \X (0 .. ROUNDS - 1)
Zero == <<0, 0>>                     \* what a static initializer leaves in a slot

PushLabels == {"push_lock", "push_test", "push_wait", "push_store", "push_advance", "push_signal"}
PopLabels == {"pop_lock", "pop_test", "pop_wait", "pop_load", "pop_advance", "pop_signal"}

TypeOK ==
    /\ data \in [Slots -> Values \cup {Zero}]
    /\ front \in Slots /\ rear \in Slots
    /\ mutex \in 0 .. ThreadCount
    /\ pc \in [Threads -> PushLabels \cup PopLabels \cup {"unborn", "done"}]
    /\ value \in [Threads -> Values \cup {Zero}]
    /\ round \in [Threads -> 0 .. ROUNDS]
    /\ main \in 0 .. 2 * ThreadCount
    /\ served \in Seq(Values \cup {Zero})

-----------------------------------------------------------------------------

queue_init ==
    /\ data = [s \in Slots |-> Zero]
    /\ front = 0
    /\ rear = 0
    /\ mutex = 0

Init ==
    /\ queue_init
    /\ pc = [t \in Threads |-> "unborn"]
    /\ value = [t \in Threads |-> Zero]
    /\ round = [t \in Threads |-> 0]
    /\ main = 0
    /\ served = <<>>

Goto(t, label) == pc' = [pc EXCEPT ![t] = label]

\* The head of the producer's or consumer's for loop.
LoopHead(t, i) ==
    IF i = ROUNDS THEN "done" ELSE IF IsProducer(t) THEN "push_lock" ELSE "pop_lock"

CreateThread ==
    /\ main < ThreadCount
    /\ main' = main + 1
    /\ Goto(main + 1, LoopHead(main + 1, 0))
    /\ UNCHANGED <<data, front, rear, mutex, value, round, served>>

JoinThread ==
    /\ main >= ThreadCount /\ main < 2 * ThreadCount
    /\ pc[main - ThreadCount + 1] = "done"
    /\ main' = main + 1
    /\ UNCHANGED <<data, front, rear, mutex, pc, value, round, served>>

\* All joined: queue_destroy, and main returns.
Ended ==
    /\ main = 2 * ThreadCount
    /\ UNCHANGED vars

\* pthread_cond_signal by t, which moves on to label: some thread waiting at
\* waitLabel, if there is one, must now compete for the mutex at lockLabel.
SignalAndGoto(t, label, waitLabel, lockLabel) ==
    IF \E u \in Threads : pc[u] = waitLabel
    THEN \E u \in Threads :
            /\ pc[u] = waitLabel
            /\ pc' = [pc EXCEPT ![u] = lockLabel, ![t] = label]
    ELSE Goto(t, label)

-----------------------------------------------------------------------------
(* queue_push *)

PushLock(t) ==
    /\ pc[t] = "push_lock" /\ mutex = 0
    /\ mutex' = t
    /\ Goto(t, "push_test")
    /\ UNCHANGED <<data, front, rear, value, round, main, served>>

\* Fault: the wait is an if, or the test is missing.
PushTest_NoWait(t) ==
    /\ pc[t] = "push_test"
    /\ Goto(t, "push_store")
    /\ UNCHANGED <<data, front, rear, mutex, value, round, main, served>>

\* Full: cond_wait releases the mutex.  Not full: go on.
PushTest(t) ==
    /\ pc[t] = "push_test"
    /\ \/ /\ (rear + 1) % QUEUE_SIZE = front
          /\ mutex' = 0
          /\ Goto(t, "push_wait")
       \/ /\ (rear + 1) % QUEUE_SIZE # front
          /\ Goto(t, "push_store")
          /\ UNCHANGED mutex
    /\ UNCHANGED <<data, front, rear, value, round, main, served>>

PushStore(t) ==
    /\ pc[t] = "push_store"
    /\ data' = [data EXCEPT ![rear] = <<t, round[t]>>]
    /\ Goto(t, "push_advance")
    /\ UNCHANGED <<front, rear, mutex, value, round, main, served>>

PushAdvance(t) ==
    /\ pc[t] = "push_advance"
    /\ rear' = (rear + 1) % QUEUE_SIZE
    /\ Goto(t, "push_signal")
    /\ UNCHANGED <<data, front, mutex, value, round, main, served>>

\* Signal not_empty, unlock, and go round the loop.
PushSignal(t) ==
    /\ pc[t] = "push_signal"
    /\ mutex' = 0
    /\ round' = [round EXCEPT ![t] = @ + 1]
    /\ SignalAndGoto(t, LoopHead(t, round[t] + 1), "pop_wait", "pop_lock")
    /\ UNCHANGED <<data, front, rear, value, main, served>>

queue_push(t) ==
    PushLock(t) \/ PushTest(t) \/ PushStore(t) \/ PushAdvance(t) \/ PushSignal(t)

-----------------------------------------------------------------------------
(* queue_pop *)

PopLock(t) ==
    /\ pc[t] = "pop_lock" /\ mutex = 0
    /\ mutex' = t
    /\ Goto(t, "pop_test")
    /\ UNCHANGED <<data, front, rear, value, round, main, served>>

PopTest(t) ==
    /\ pc[t] = "pop_test"
    /\ \/ /\ front = rear
          /\ mutex' = 0
          /\ Goto(t, "pop_wait")
       \/ /\ front # rear
          /\ Goto(t, "pop_load")
          /\ UNCHANGED mutex
    /\ UNCHANGED <<data, front, rear, value, round, main, served>>

PopLoad(t) ==
    /\ pc[t] = "pop_load"
    /\ value' = [value EXCEPT ![t] = data[front]]
    /\ Goto(t, "pop_advance")
    /\ UNCHANGED <<data, front, rear, mutex, round, main, served>>

PopAdvance(t) ==
    /\ pc[t] = "pop_advance"
    /\ front' = (front + 1) % QUEUE_SIZE
    /\ served' = Append(served, value[t])
    /\ Goto(t, "pop_signal")
    /\ UNCHANGED <<data, rear, mutex, value, round, main>>

\* Fault: the consumer signals the condition it waits on itself.
PopSignal_WrongCondition(t) ==
    /\ pc[t] = "pop_signal"
    /\ mutex' = 0
    /\ round' = [round EXCEPT ![t] = @ + 1]
    /\ SignalAndGoto(t, LoopHead(t, round[t] + 1), "pop_wait", "pop_lock")
    /\ UNCHANGED <<data, front, rear, value, main, served>>

PopSignal(t) ==
    /\ pc[t] = "pop_signal"
    /\ mutex' = 0
    /\ round' = [round EXCEPT ![t] = @ + 1]
    /\ SignalAndGoto(t, LoopHead(t, round[t] + 1), "push_wait", "push_lock")
    /\ UNCHANGED <<data, front, rear, value, main, served>>

queue_pop(t) == PopLock(t) \/ PopTest(t) \/ PopLoad(t) \/ PopAdvance(t) \/ PopSignal(t)

-----------------------------------------------------------------------------

\* pthread_cond_wait may return without a signal.
SpuriousWake(t) ==
    /\ \/ pc[t] = "push_wait" /\ Goto(t, "push_lock")
       \/ pc[t] = "pop_wait" /\ Goto(t, "pop_lock")
    /\ UNCHANGED <<data, front, rear, mutex, value, round, main, served>>

Next ==
    \/ CreateThread \/ JoinThread \/ Ended
    \/ \E t \in Threads : queue_push(t) \/ queue_pop(t) \/ SpuriousWake(t)

\* Every thread that can run is scheduled in the end (the order in which the
\* mutex serves its waiters is left open), and spurious wakeups, which the
\* threads can neither cause nor count on, do not go on for ever.
Fairness ==
    /\ WF_vars(CreateThread \/ JoinThread)
    /\ \A t \in Threads : WF_vars(queue_push(t) \/ queue_pop(t))
    /\ <>[][\A t \in Threads : ~SpuriousWake(t)]_vars

Spec == Init /\ [][Next]_vars
FairSpec == Spec /\ Fairness

-----------------------------------------------------------------------------
(* Properties *)

\* The refinement mapping: the slots from front up to rear, around the ring.
RingSize(f, r) == IF r >= f THEN r - f ELSE r - f + QUEUE_SIZE
RingSlot(f, i) == IF f + i - 1 < QUEUE_SIZE THEN f + i - 1 ELSE f + i - 1 - QUEUE_SIZE
RingContents(d, f, r) == [i \in 1 .. RingSize(f, r) |-> d[RingSlot(f, i)]]
Contents == RingContents(data, front, rear)

FIFO == INSTANCE BoundedFIFO
            WITH Capacity <- QUEUE_SIZE - 1, contents <- Contents

\* queue_push and queue_pop, interleaved in any way by any number of threads,
\* are a first-in first-out queue of QUEUE_SIZE - 1 places: the store, the move
\* of rear, the load and the move of front together never lose, duplicate or
\* reorder a value.
ImplementsFIFO == FIFO!Spec

\* The program ends: no thread sleeps for ever in a pthread_cond_wait.
Terminates == <>(main = 2 * ThreadCount)
=============================================================================
