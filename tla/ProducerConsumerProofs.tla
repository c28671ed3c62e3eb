---------------------- MODULE ProducerConsumerProofs ----------------------
(***************************************************************************)
(* For every number of producers, consumers, rounds and slots that          *)
(* SizesAssumption admits: the semaphores of consumer_producer.c account    *)
(* for every slot, so data is never indexed out of its bounds, and every    *)
(* item stored is in exactly one slot or was returned exactly once.         *)
(***************************************************************************)
EXTENDS ProducerConsumer, FiniteSetTheorems, TLAPS

\* The inductive invariant.  InBounds alone is not inductive: what keeps a
\* producer inside the buffer is the value of a semaphore it decremented earlier.
IInv == TypeOK /\ Control /\ SlotAccounting

\* The four groups of threads the accounting counts are finite.
LEMMA GroupsFinite ==
    /\ IsFiniteSet(Claiming) /\ Cardinality(Claiming) \in Nat
    /\ IsFiniteSet(Announcing) /\ Cardinality(Announcing) \in Nat
    /\ IsFiniteSet(Drawing) /\ Cardinality(Drawing) \in Nat
    /\ IsFiniteSet(Returning) /\ Cardinality(Returning) \in Nat
<1>1. IsFiniteSet(Producers) /\ IsFiniteSet(Consumers)
  <2>1. /\ 1 \in Int /\ PRODUCER_COUNT \in Int
        /\ PRODUCER_COUNT + 1 \in Int /\ PRODUCER_COUNT + CONSUMER_COUNT \in Int
    BY SizesAssumption
  <2>2. QED BY <2>1, FS_Interval DEF Producers, Consumers
<1>2. \A S \in SUBSET Producers : IsFiniteSet(S) /\ Cardinality(S) \in Nat
  BY <1>1, FS_Subset, FS_CardinalityType
<1>3. \A S \in SUBSET Consumers : IsFiniteSet(S) /\ Cardinality(S) \in Nat
  BY <1>1, FS_Subset, FS_CardinalityType
<1>4. /\ Claiming \in SUBSET Producers /\ Announcing \in SUBSET Producers
      /\ Drawing \in SUBSET Consumers /\ Returning \in SUBSET Consumers
  BY DEF Claiming, Announcing, Drawing, Returning
<1>5. QED BY <1>2, <1>3, <1>4

\* A thread joining a group it was not in ...
LEMMA Joins ==
    ASSUME NEW S, IsFiniteSet(S), NEW t, t \notin S
    PROVE  Cardinality(S \cup {t}) = Cardinality(S) + 1
BY FS_AddElement

\* ... and leaving one it was in.
LEMMA Leaves ==
    ASSUME NEW S, IsFiniteSet(S), NEW t, t \in S
    PROVE  Cardinality(S \ {t}) = Cardinality(S) - 1
BY FS_RemoveElement

\* Counting one more of something keeps a function to the naturals one.
LEMMA Counted ==
    ASSUME NEW S, NEW f \in [S -> Nat], NEW x
    PROVE  [f EXCEPT ![x] = @ + 1] \in [S -> Nat]
<1>1. CASE x \in S
  BY <1>1
<1>2. CASE x \notin S
  <2>1. [f EXCEPT ![x] = @ + 1] = f
    BY <1>2
  <2>2. QED BY <2>1
<1>3. QED BY <1>1, <1>2

\* A group that holds a thread counts for at least one.
LEMMA Occupied ==
    ASSUME NEW S, IsFiniteSet(S), NEW t \in S
    PROVE  Cardinality(S) >= 1
<1>1. Cardinality(S) \in Nat /\ Cardinality(S) # 0
  BY FS_CardinalityType, FS_EmptySet
<1>2. QED BY <1>1

\* The accounting of the semaphores keeps every access of data in bounds.
LEMMA AccountingBounds == TypeOK /\ SlotAccounting => InBounds
<1> SUFFICES ASSUME TypeOK, SlotAccounting PROVE InBounds
  OBVIOUS
<1> USE GroupsFinite, SizesAssumption
<1>1. ASSUME NEW t \in Producers, pc[t] \in {"p_store", "p_count"}
      PROVE  count < BUFFER_SIZE
  <2>1. Cardinality(Claiming) >= 1
    BY <1>1, Occupied DEF Claiming
  <2>2. QED BY <2>1 DEF SlotAccounting, TypeOK
<1>2. ASSUME NEW t \in Consumers, pc[t] = "c_count"
      PROVE  count > 0
  <2>1. Cardinality(Drawing) >= 1
    BY <1>2, Occupied DEF Drawing
  <2>2. QED BY <2>1 DEF SlotAccounting, TypeOK
<1>3. ASSUME NEW t \in Consumers, pc[t] = "c_load"
      PROVE  count < BUFFER_SIZE
  <2>1. Cardinality(Returning) >= 1
    BY <1>3, Occupied DEF Returning
  <2>2. QED BY <2>1 DEF SlotAccounting, TypeOK
<1>4. QED BY <1>1, <1>2, <1>3 DEF InBounds

\* initiailize_buffer and main establish the invariant.
LEMMA InitInv == Init => IInv
<1> SUFFICES ASSUME Init PROVE IInv
  OBVIOUS
<1> USE SizesAssumption DEF Init, initiailize_buffer
<1>1. TypeOK
  BY DEF TypeOK, Labels, ProducerLabels, ConsumerLabels, Producers, Consumers, Threads,
         ThreadCount
<1>2. Control
  BY DEF Control, Threads
<1>3. Claiming = {} /\ Announcing = {} /\ Drawing = {} /\ Returning = {}
  BY DEF Claiming, Announcing, Drawing, Returning, Producers, Consumers, Threads, ThreadCount
<1>4. SlotAccounting
  BY <1>3, FS_EmptySet DEF SlotAccounting
<1>5. QED BY <1>1, <1>2, <1>4 DEF IInv

\* No step takes a variable out of its type or a thread out of its loop.
LEMMA TypeStep == IInv /\ [Next]_vars => TypeOK' /\ Control'
<1> SUFFICES ASSUME IInv, [Next]_vars PROVE TypeOK' /\ Control'
  OBVIOUS
<1> USE SizesAssumption DEF IInv
<1>b. InBounds
  BY AccountingBounds
<1>1. CASE CreateThread
  <2>1. main + 1 \in Threads
    BY <1>1 DEF CreateThread, TypeOK, Threads, ThreadCount
  <2>2. pc' = [pc EXCEPT ![main + 1] = LoopHead(main + 1, 0)]
    BY <1>1 DEF CreateThread, Goto
  <2>3. LoopHead(main + 1, 0) \in Labels
    BY DEF LoopHead, Labels, ProducerLabels, ConsumerLabels
  <2>4. /\ main + 1 \in Producers => LoopHead(main + 1, 0) \notin ConsumerLabels
        /\ main + 1 \in Consumers => LoopHead(main + 1, 0) \notin ProducerLabels
    BY DEF LoopHead, ProducerLabels, ConsumerLabels, Producers, Consumers
  <2>5. /\ pc' \in [Threads -> Labels]
        /\ \A t \in Producers : pc'[t] \notin ConsumerLabels
        /\ \A t \in Consumers : pc'[t] \notin ProducerLabels
    <3>1. pc \in [Threads -> Labels]
      BY DEF TypeOK
    <3>2. Producers \subseteq Threads /\ Consumers \subseteq Threads
      BY DEF Producers, Consumers, Threads, ThreadCount
    <3>3. /\ pc' \in [Threads -> Labels]
          /\ \A t \in Threads : pc'[t] = IF t = main + 1 THEN LoopHead(t, 0) ELSE pc[t]
      BY <2>2, <2>3, <3>1
    <3>4. QED BY <2>4, <3>2, <3>3 DEF TypeOK
  <2>6. main' \in 0 .. 2 * ThreadCount
    BY <1>1 DEF CreateThread, TypeOK, ThreadCount
  <2>7. TypeOK'
    BY <1>1, <2>5, <2>6 DEF TypeOK, CreateThread, shared
  <2>8. round[main + 1] = 0
    BY <1>1, <2>1 DEF Control, CreateThread, TypeOK
  <2>9. LoopHead(main + 1, 0) # "unborn"
        /\ (LoopHead(main + 1, 0) # "done" => 0 < THREAD_NUMS)
    BY DEF LoopHead
  <2>10. Control'
    BY <1>1, <2>1, <2>2, <2>8, <2>9 DEF Control, CreateThread, TypeOK, Threads
  <2>11. QED BY <2>7, <2>10
<1>2. CASE JoinThread
  BY <1>2 DEF TypeOK, Control, JoinThread, shared, Threads, ThreadCount
<1>3. CASE UNCHANGED vars
  BY <1>3 DEF TypeOK, Control, vars
<1>4. ASSUME NEW t \in Producers, producer_thread(t)
      PROVE  TypeOK' /\ Control'
  <2> t \in Threads /\ t \notin Consumers
    BY DEF Producers, Consumers, Threads, ThreadCount
  <2> USE DEF TypeOK, Control, Goto, At, Labels, ProducerLabels, ConsumerLabels
  <2>1. CASE ProduceWait(t)
    BY <2>1 DEF ProduceWait
  <2>2. CASE ProduceLock(t)
    BY <2>2 DEF ProduceLock, LockMutex, Threads, ThreadCount
  <2>3. CASE ProduceStore(t)
    <3>1. <<t, round[t]>> \in Items /\ count \in Slots
      BY <1>b, <2>3 DEF ProduceStore, InBounds, Items, Slots
    <3>2. QED BY <2>3, <3>1 DEF ProduceStore
  <2>4. CASE ProduceCount(t)
    BY <1>b, <2>4 DEF ProduceCount, InBounds
  <2>5. CASE ProduceUnlock(t)
    BY <2>5 DEF ProduceUnlock, UnlockMutex, ThreadCount
  <2>6. CASE ProducePost(t)
    BY <2>6 DEF ProducePost, LoopHead
  <2>7. QED BY <1>4, <2>1, <2>2, <2>3, <2>4, <2>5, <2>6 DEF producer_thread
<1>5. ASSUME NEW t \in Consumers, consumer_thread(t)
      PROVE  TypeOK' /\ Control'
  <2> t \in Threads /\ t \notin Producers
    BY DEF Producers, Consumers, Threads, ThreadCount
  <2> USE DEF TypeOK, Control, Goto, At, Labels, ProducerLabels, ConsumerLabels
  <2>1. CASE ConsumeWait(t)
    BY <2>1 DEF ConsumeWait
  <2>2. CASE ConsumeLock(t)
    BY <2>2 DEF ConsumeLock, LockMutex, Threads, ThreadCount
  <2>3. CASE ConsumeCount(t)
    BY <1>b, <2>3 DEF ConsumeCount, InBounds
  <2>4. CASE ConsumeLoad(t)
    <3>1. taken' \in [Items -> Nat]
      BY <2>4, Counted DEF ConsumeLoad
    <3>2. QED BY <2>4, <3>1 DEF ConsumeLoad, shared
  <2>5. CASE ConsumeUnlock(t)
    BY <2>5 DEF ConsumeUnlock, UnlockMutex, ThreadCount
  <2>6. CASE ConsumePost(t)
    BY <2>6 DEF ConsumePost, LoopHead
  <2>7. QED BY <1>5, <2>1, <2>2, <2>3, <2>4, <2>5, <2>6 DEF consumer_thread
<1>6. QED BY <1>1, <1>2, <1>3, <1>4, <1>5 DEF Next, Ended

\* Every step that changes a semaphore or buf->count moves one thread between
\* the groups so that both sums stay what they were.
LEMMA AccountingStep == IInv /\ [Next]_vars => SlotAccounting'
<1> SUFFICES ASSUME IInv, [Next]_vars PROVE SlotAccounting'
  OBVIOUS
<1> USE SizesAssumption, GroupsFinite DEF IInv
<1>n. /\ empty_slots \in Nat /\ filled_slots \in Nat /\ count \in Int
      /\ BUFFER_SIZE \in Nat
  BY DEF TypeOK
<1>a. ASSUME UNCHANGED <<Claiming, Announcing, Drawing, Returning>>,
             UNCHANGED <<empty_slots, filled_slots, count>>
      PROVE  SlotAccounting'
  BY <1>a DEF SlotAccounting
<1>1. CASE CreateThread
  <2>1. /\ main + 1 \in Threads
        /\ pc[main + 1] = "unborn"
        /\ pc'[main + 1] \in {"p_wait", "c_wait", "done"}
    BY <1>1 DEF CreateThread, TypeOK, Control, Threads, ThreadCount, Goto, LoopHead
  <2>2. \A t \in Threads : t # main + 1 => pc'[t] = pc[t]
    BY <1>1 DEF CreateThread, TypeOK, Goto
  <2>3. Producers \subseteq Threads /\ Consumers \subseteq Threads
    BY DEF Producers, Consumers, Threads, ThreadCount
  <2>4. UNCHANGED <<Claiming, Announcing, Drawing, Returning>>
    BY <2>1, <2>2, <2>3 DEF Claiming, Announcing, Drawing, Returning
  <2>5. QED BY <1>1, <1>a, <2>4 DEF CreateThread, shared
<1>2. CASE JoinThread
  BY <1>2, <1>a DEF JoinThread, shared, Claiming, Announcing, Drawing, Returning
<1>3. CASE UNCHANGED vars
  BY <1>3, <1>a DEF vars, Claiming, Announcing, Drawing, Returning
<1>4. ASSUME NEW t \in Producers, producer_thread(t)
      PROVE  SlotAccounting'
  <2>0. /\ t \in Threads
        /\ \A c \in Consumers : c \in Threads /\ c # t
        /\ \A p \in Producers : p \in Threads
    BY DEF Producers, Consumers, Threads, ThreadCount
  <2>a. ASSUME NEW l, Goto(t, l)
        PROVE  /\ UNCHANGED <<Drawing, Returning>>
               /\ pc'[t] = l
               /\ \A p \in Producers : p # t => pc'[p] = pc[p]
    BY <2>0, <2>a DEF Goto, Drawing, Returning, TypeOK
  <2>1. CASE ProduceWait(t)
    <3>1. Claiming' = Claiming \cup {t} /\ t \notin Claiming /\ UNCHANGED Announcing
      BY <2>1, <2>a DEF ProduceWait, At, Claiming, Announcing
    <3>2. Cardinality(Claiming') = Cardinality(Claiming) + 1
      BY <3>1, Joins
    <3>3. QED BY <1>n, <2>1, <2>a, <3>1, <3>2 DEF SlotAccounting, ProduceWait
  <2>2. CASE ProduceLock(t) \/ ProduceStore(t) \/ ProduceUnlock(t)
    <3>1. UNCHANGED <<Claiming, Announcing, Drawing, Returning>>
      BY <2>2, <2>a DEF ProduceLock, ProduceStore, ProduceUnlock, At, Claiming, Announcing
    <3>2. QED BY <2>2, <3>1, <1>a DEF ProduceLock, ProduceStore, ProduceUnlock
  <2>3. CASE ProduceCount(t)
    <3>1. /\ Claiming' = Claiming \ {t} /\ t \in Claiming
          /\ Announcing' = Announcing \cup {t} /\ t \notin Announcing
      BY <2>3, <2>a DEF ProduceCount, At, Claiming, Announcing
    <3>2. /\ Cardinality(Claiming') = Cardinality(Claiming) - 1
          /\ Cardinality(Announcing') = Cardinality(Announcing) + 1
      BY <3>1, Joins, Leaves
    <3>3. /\ UNCHANGED <<Drawing, Returning, empty_slots, filled_slots>>
          /\ count' = count + 1
      BY <2>3, <2>a DEF ProduceCount
    <3>4. QED BY <1>n, <3>2, <3>3 DEF SlotAccounting
  <2>4. CASE ProducePost(t)
    <3>1. Announcing' = Announcing \ {t} /\ t \in Announcing /\ UNCHANGED Claiming
      BY <2>4, <2>a DEF ProducePost, At, LoopHead, Claiming, Announcing
    <3>2. Cardinality(Announcing') = Cardinality(Announcing) - 1
      BY <3>1, Leaves
    <3>3. QED BY <1>n, <2>4, <2>a, <3>1, <3>2 DEF SlotAccounting, ProducePost
  <2>5. QED BY <1>4, <2>1, <2>2, <2>3, <2>4 DEF producer_thread
<1>5. ASSUME NEW t \in Consumers, consumer_thread(t)
      PROVE  SlotAccounting'
  <2>0. /\ t \in Threads
        /\ \A p \in Producers : p \in Threads /\ p # t
        /\ \A c \in Consumers : c \in Threads
    BY DEF Producers, Consumers, Threads, ThreadCount
  <2>a. ASSUME NEW l, Goto(t, l)
        PROVE  /\ UNCHANGED <<Claiming, Announcing>>
               /\ pc'[t] = l
               /\ \A c \in Consumers : c # t => pc'[c] = pc[c]
    BY <2>0, <2>a DEF Goto, Claiming, Announcing, TypeOK
  <2>1. CASE ConsumeWait(t)
    <3>1. Drawing' = Drawing \cup {t} /\ t \notin Drawing /\ UNCHANGED Returning
      BY <2>1, <2>a DEF ConsumeWait, At, Drawing, Returning
    <3>2. Cardinality(Drawing') = Cardinality(Drawing) + 1
      BY <3>1, Joins
    <3>3. QED BY <1>n, <2>1, <2>a, <3>1, <3>2 DEF SlotAccounting, ConsumeWait
  <2>2. CASE ConsumeLock(t) \/ ConsumeLoad(t) \/ ConsumeUnlock(t)
    <3>1. UNCHANGED <<Claiming, Announcing, Drawing, Returning>>
      BY <2>2, <2>a DEF ConsumeLock, ConsumeLoad, ConsumeUnlock, At, Drawing, Returning
    <3>2. QED BY <2>2, <3>1, <1>a DEF ConsumeLock, ConsumeLoad, ConsumeUnlock, shared
  <2>3. CASE ConsumeCount(t)
    <3>1. /\ Drawing' = Drawing \ {t} /\ t \in Drawing
          /\ Returning' = Returning \cup {t} /\ t \notin Returning
      BY <2>3, <2>a DEF ConsumeCount, At, Drawing, Returning
    <3>2. /\ Cardinality(Drawing') = Cardinality(Drawing) - 1
          /\ Cardinality(Returning') = Cardinality(Returning) + 1
      BY <3>1, Joins, Leaves
    <3>3. /\ UNCHANGED <<Claiming, Announcing, empty_slots, filled_slots>>
          /\ count' = count - 1
      BY <2>3, <2>a DEF ConsumeCount
    <3>4. QED BY <1>n, <3>2, <3>3 DEF SlotAccounting
  <2>4. CASE ConsumePost(t)
    <3>1. Returning' = Returning \ {t} /\ t \in Returning /\ UNCHANGED Drawing
      BY <2>4, <2>0, <2>a DEF ConsumePost, At, LoopHead, Drawing, Returning
    <3>2. Cardinality(Returning') = Cardinality(Returning) - 1
      BY <3>1, Leaves
    <3>3. QED BY <1>n, <2>4, <2>a, <3>1, <3>2 DEF SlotAccounting, ConsumePost
  <2>5. QED BY <1>5, <2>1, <2>2, <2>3, <2>4 DEF consumer_thread
<1>6. QED BY <1>1, <1>2, <1>3, <1>4, <1>5 DEF Next, Ended

\* consumer_producer.c keeps its variables typed, its loops bounded and its
\* semaphores in step with buf->count, whatever the sizes.
THEOREM Invariance == Spec => []IInv
<1>1. IInv /\ [Next]_vars => IInv'
  BY TypeStep, AccountingStep DEF IInv
<1>2. QED BY InitInv, <1>1, PTL DEF Spec

\* The type invariant of the run producer_consumer, for all sizes.
THEOREM TypeCorrect == Spec => []TypeOK
<1>1. IInv => TypeOK
  BY DEF IInv
<1>2. QED BY Invariance, <1>1, PTL

\* Every slot is accounted for by exactly one semaphore or thread, for all sizes.
THEOREM AllSlotsAccounted == Spec => []SlotAccounting
<1>1. IInv => SlotAccounting
  BY DEF IInv
<1>2. QED BY Invariance, <1>1, PTL

\* No call of product_item or consume_item indexes data out of bounds, for all sizes.
THEOREM AlwaysInBounds == Spec => []InBounds
<1>1. IInv => InBounds
  BY AccountingBounds DEF IInv
<1>2. QED BY Invariance, <1>1, PTL

-----------------------------------------------------------------------------
(* Every item once *)

\* A thread between its lock and its unlock holds the mutex.
Critical == {"p_store", "p_count", "p_unlock", "c_count", "c_load", "c_unlock"}
Exclusive == \A t \in Threads : pc[t] \in Critical => mutex = t

\* A producer about to count its item has it in the next slot.
Armed == \A t \in Producers : pc[t] = "p_count" => data[count] = <<t, round[t]>>

\* EveryItemOnce without cardinalities: the full slots hold different items, all of
\* them stored and not taken, and a stored item is in a slot or was taken once.
Placed ==
    /\ \A x \in Items : taken[x] \in {0, 1}
    /\ \A x \in Items : taken[x] = 1 => Stored(x)
    /\ \A x \in Items : taken[x] = 0 /\ Stored(x) => \E s \in FullSlots : data[s] = x
    /\ \A s \in FullSlots : data[s] \in Items /\ Stored(data[s]) /\ taken[data[s]] = 0
    /\ \A r, s \in FullSlots : data[r] = data[s] => r = s

ItemInv == IInv /\ Exclusive /\ Armed /\ Placed

LEMMA PlacedOnce == ItemInv => EveryItemOnce
<1> SUFFICES ASSUME ItemInv, NEW x \in Items
             PROVE  taken[x] + Cardinality({s \in FullSlots : data[s] = x})
                        = IF Stored(x) THEN 1 ELSE 0
  BY DEF EveryItemOnce
<1> DEFINE S == {s \in FullSlots : data[s] = x}
<1>1. taken[x] \in {0, 1} /\ (taken[x] = 1 => Stored(x))
  BY DEF ItemInv, Placed
<1>2. CASE S = {}
  <2>1. Cardinality(S) = 0
    BY <1>2, FS_EmptySet
  <2>2. Stored(x) => taken[x] = 1
    BY <1>1, <1>2 DEF ItemInv, Placed
  <2>3. QED BY <1>1, <2>1, <2>2
<1>3. CASE S # {}
  <2>1. PICK s \in FullSlots : data[s] = x
    BY <1>3
  <2>2. S = {s}
    BY <2>1 DEF ItemInv, Placed
  <2>3. Cardinality(S) = 1
    BY <2>2, FS_Singleton
  <2>4. taken[x] = 0 /\ Stored(x)
    BY <2>1 DEF ItemInv, Placed
  <2>5. QED BY <2>3, <2>4
<1>4. QED BY <1>2, <1>3

LEMMA InitItems == Init => ItemInv
<1> SUFFICES ASSUME Init PROVE ItemInv
  OBVIOUS
<1> USE SizesAssumption
<1>1. IInv
  BY InitInv
<1>2. \A t \in Threads : pc[t] = "unborn" /\ round[t] = 0
  BY DEF Init
<1>3. Producers \subseteq Threads /\ Consumers \subseteq Threads
  BY DEF Producers, Consumers, Threads, ThreadCount
<1>4. Exclusive /\ Armed
  BY <1>2, <1>3 DEF Exclusive, Critical, Armed
<1>5. FullSlots = {}
  BY <1>2, <1>3 DEF FullSlots, At, Init, initiailize_buffer
<1>6. ASSUME NEW x \in Items PROVE taken[x] = 0 /\ ~Stored(x)
  <2>1. x[1] \in Threads /\ x[2] \in Nat
    BY <1>3 DEF Items
  <2>2. QED BY <1>2, <2>1 DEF Init, Stored
<1>7. Placed
  BY <1>5, <1>6 DEF Placed
<1>8. QED BY <1>1, <1>4, <1>7 DEF ItemInv

\* The mutex keeps all others out of the buffer.
LEMMA Alone ==
    ASSUME ItemInv, NEW t \in Threads, pc[t] \in Critical
    PROVE  \A u \in Threads : pc[u] \in Critical => u = t
BY DEF ItemInv, Exclusive

\* Slots that are read as before hold what they held.
LEMMA PlacedKept ==
    ASSUME ItemInv, FullSlots' = FullSlots, taken' = taken,
           \A s \in FullSlots : data'[s] = data[s],
           \A x \in Items : Stored(x)' <=> Stored(x)
    PROVE  Placed'
<1>1. \A x \in Items : taken'[x] = taken[x]
  OBVIOUS
<1>2. QED BY <1>1 DEF ItemInv, Placed

\* Only a lock lets a thread in, and only when nobody is inside.
LEMMA ExclusiveStep == ItemInv /\ [Next]_vars => Exclusive'
<1> SUFFICES ASSUME ItemInv, [Next]_vars PROVE Exclusive'
  OBVIOUS
<1> USE SizesAssumption DEF ItemInv, IInv, TypeOK, Exclusive, Critical, At, Goto
<1>0. Producers \subseteq Threads /\ Consumers \subseteq Threads /\ 0 \notin Threads
  BY DEF Producers, Consumers, Threads, ThreadCount
<1>1. CASE CreateThread
  <2>1. LoopHead(main + 1, 0) \in {"p_wait", "c_wait", "done"}
    BY DEF LoopHead
  <2>2. \A u \in Threads : pc'[u] = pc[u] \/ pc'[u] = LoopHead(main + 1, 0)
    BY <1>1 DEF CreateThread
  <2>3. QED BY <1>1, <2>1, <2>2 DEF CreateThread, shared
<1>2. CASE JoinThread \/ UNCHANGED vars
  BY <1>2 DEF JoinThread, shared, vars
<1>3. ASSUME NEW t \in Producers, producer_thread(t) PROVE Exclusive'
  <2>1. CASE ProduceLock(t)
    BY <1>0, <2>1 DEF ProduceLock, LockMutex
  <2>2. CASE ProduceWait(t) \/ ProduceStore(t) \/ ProduceCount(t)
    BY <1>0, <2>2 DEF ProduceWait, ProduceStore, ProduceCount
  <2>3. CASE ProduceUnlock(t)
    BY <1>0, <2>3 DEF ProduceUnlock, UnlockMutex
  <2>4. CASE ProducePost(t)
    BY <1>0, <2>4 DEF ProducePost, LoopHead
  <2>5. QED BY <1>3, <2>1, <2>2, <2>3, <2>4 DEF producer_thread
<1>4. ASSUME NEW t \in Consumers, consumer_thread(t) PROVE Exclusive'
  <2>1. CASE ConsumeLock(t)
    BY <1>0, <2>1 DEF ConsumeLock, LockMutex
  <2>2. CASE ConsumeWait(t) \/ ConsumeCount(t) \/ ConsumeLoad(t)
    BY <1>0, <2>2 DEF ConsumeWait, ConsumeCount, ConsumeLoad, shared
  <2>3. CASE ConsumeUnlock(t)
    BY <1>0, <2>3 DEF ConsumeUnlock, UnlockMutex
  <2>4. CASE ConsumePost(t)
    BY <1>0, <2>4 DEF ConsumePost, LoopHead
  <2>5. QED BY <1>4, <2>1, <2>2, <2>3, <2>4 DEF consumer_thread
<1>5. QED BY <1>1, <1>2, <1>3, <1>4 DEF Next, Ended

\* Where the step of thread t leads: its label, and nobody else's, changes.
LEMMA OneMoves ==
    ASSUME TypeOK, NEW t \in Threads, NEW l, Goto(t, l)
    PROVE  /\ pc'[t] = l
           /\ \A u \in Threads : u # t => pc'[u] = pc[u]
BY DEF TypeOK, Goto

\* A step that starts and ends away from the load of consume_item, and leaves
\* buf->count alone, leaves the full slots alone.
LEMMA FullSlotsKept ==
    ASSUME TypeOK, NEW t \in Threads, NEW l, Goto(t, l),
           pc[t] # "c_load", l # "c_load", count' = count
    PROVE  FullSlots' = FullSlots
<1>1. \A u \in Threads : pc'[u] = "c_load" <=> pc[u] = "c_load"
  BY OneMoves
<1>2. Consumers \subseteq Threads
  BY SizesAssumption DEF Consumers, Threads, ThreadCount
<1>3. QED BY <1>1, <1>2 DEF FullSlots, At

\* Whether an item is stored depends on its producer alone.
LEMMA StoredKept ==
    ASSUME TypeOK, NEW t \in Threads, NEW l, Goto(t, l), round' = round,
           pc[t] \in {"p_unlock", "p_post"} <=> l \in {"p_unlock", "p_post"}
    PROVE  \A x \in Items : Stored(x)' <=> Stored(x)
<1> TAKE x \in Items
<1>1. x[1] \in Threads
  BY SizesAssumption DEF Items, Producers, Threads, ThreadCount
<1>2. pc'[x[1]] \in {"p_unlock", "p_post"} <=> pc[x[1]] \in {"p_unlock", "p_post"}
  BY <1>1, OneMoves
<1>3. QED BY <1>2 DEF Stored

\* Between its store and its increment a producer's item stays where it is.
LEMMA ArmedStep == ItemInv /\ [Next]_vars => Armed'
<1> SUFFICES ASSUME ItemInv, [Next]_vars PROVE Armed'
  OBVIOUS
<1> USE SizesAssumption DEF ItemInv, IInv
<1>0. Producers \subseteq Threads /\ Consumers \subseteq Threads
  BY DEF Producers, Consumers, Threads, ThreadCount
<1>a. ASSUME UNCHANGED <<data, count>>,
             \A u \in Producers : pc'[u] = "p_count" => pc[u] = "p_count" /\ round'[u] = round[u]
      PROVE  Armed'
  BY <1>a DEF Armed
<1>1. CASE CreateThread
  <2>1. LoopHead(main + 1, 0) # "p_count"
    BY DEF LoopHead
  <2>2. \A u \in Threads : pc'[u] = pc[u] \/ pc'[u] = LoopHead(main + 1, 0)
    BY <1>1 DEF CreateThread, Goto, TypeOK
  <2>3. QED BY <1>0, <1>1, <1>a, <2>1, <2>2 DEF CreateThread, shared
<1>2. CASE JoinThread \/ UNCHANGED vars
  BY <1>2, <1>a DEF JoinThread, shared, vars
<1>3. ASSUME NEW t \in Producers, producer_thread(t) PROVE Armed'
  <2>1. CASE ProduceWait(t) \/ ProduceLock(t) \/ ProduceUnlock(t)
    BY <1>0, <1>a, <2>1, OneMoves DEF ProduceWait, ProduceLock, ProduceUnlock
  <2>2. CASE ProduceStore(t)
    <3>1. \A u \in Producers : pc'[u] = "p_count" => u = t
      BY <1>0, <2>2, Alone, OneMoves DEF ProduceStore, At, Critical
    <3>2. count \in Slots
      BY <1>0, <2>2, AccountingBounds DEF ProduceStore, At, InBounds, TypeOK, Slots
    <3>3. QED BY <2>2, <3>1, <3>2 DEF ProduceStore, Armed, TypeOK
  <2>3. CASE ProduceCount(t)
    <3>1. \A u \in Producers : pc'[u] # "p_count"
      BY <1>0, <2>3, Alone, OneMoves DEF ProduceCount, At, Critical
    <3>2. QED BY <3>1 DEF Armed
  <2>4. CASE ProducePost(t)
    <3>1. LoopHead(t, round[t] + 1) # "p_count"
      BY DEF LoopHead
    <3>2. \A u \in Producers : pc'[u] = "p_count" => u # t /\ pc[u] = "p_count"
      BY <1>0, <2>4, <3>1, OneMoves DEF ProducePost
    <3>3. \A u \in Producers : u # t => round'[u] = round[u]
      BY <1>0, <2>4 DEF ProducePost, TypeOK
    <3>4. QED BY <1>a, <2>4, <3>2, <3>3 DEF ProducePost
  <2>5. QED BY <1>3, <2>1, <2>2, <2>3, <2>4 DEF producer_thread
<1>4. ASSUME NEW t \in Consumers, consumer_thread(t) PROVE Armed'
  <2>0. t \in Threads /\ \A u \in Producers : u \in Threads /\ u # t
    BY DEF Producers, Consumers, Threads, ThreadCount
  <2>1. CASE ConsumeWait(t) \/ ConsumeLock(t) \/ ConsumeLoad(t) \/ ConsumeUnlock(t)
    BY <1>a, <2>0, <2>1, OneMoves
    DEF ConsumeWait, ConsumeLock, ConsumeLoad, ConsumeUnlock, shared
  <2>2. CASE ConsumeCount(t)
    <3>1. \A u \in Producers : pc'[u] # "p_count"
      BY <2>0, <2>2, Alone, OneMoves DEF ConsumeCount, At, Critical
    <3>2. QED BY <3>1 DEF Armed
  <2>3. CASE ConsumePost(t)
    <3>1. \A u \in Producers : pc'[u] = pc[u] /\ round'[u] = round[u]
      BY <2>0, <2>3, OneMoves DEF ConsumePost, TypeOK
    <3>2. QED BY <1>a, <2>3, <3>1 DEF ConsumePost
  <2>4. QED BY <1>4, <2>1, <2>2, <2>3 DEF consumer_thread
<1>5. QED BY <1>1, <1>2, <1>3, <1>4 DEF Next, Ended

\* The increment of product_item makes its item one of the stored ones.
LEMMA PlacedProduceCount ==
    ASSUME ItemInv, NEW t \in Producers, ProduceCount(t)
    PROVE  Placed'
<1> USE SizesAssumption DEF ItemInv, IInv
<1>0. t \in Threads /\ Consumers \subseteq Threads /\ \A c \in Consumers : c # t
  BY DEF Producers, Consumers, Threads, ThreadCount
<1>1. /\ pc[t] = "p_count" /\ pc'[t] = "p_unlock"
      /\ \A u \in Threads : u # t => pc'[u] = pc[u]
      /\ count' = count + 1 /\ UNCHANGED <<data, round, taken>>
  BY <1>0, OneMoves DEF ProduceCount, At
<1>2. \A c \in Consumers : pc[c] # "c_load" /\ pc'[c] # "c_load"
  BY <1>0, <1>1, Alone DEF Critical
<1>3. count \in Nat /\ FullSlots = 0 .. count - 1 /\ FullSlots' = 0 .. count
  BY <1>1, <1>2 DEF FullSlots, At, TypeOK
<1>4. PICK y \in Items : y = <<t, round[t]>> /\ data[count] = y
  <2>1. round[t] \in 0 .. THREAD_NUMS - 1
    BY <1>0, <1>1 DEF TypeOK, Control
  <2>2. QED BY <1>1, <2>1 DEF Items, Armed
<1>5. ~Stored(y) /\ Stored(y)'
  <2>1. round[t] \in Int
    BY <1>0 DEF TypeOK
  <2>2. QED BY <1>1, <1>4, <2>1 DEF Stored
<1>6. ASSUME NEW x \in Items, x # y
      PROVE  Stored(x)' <=> Stored(x)
  <2>1. x = <<x[1], x[2]>> /\ x[1] \in Threads
    BY DEF Items, Producers, Threads, ThreadCount
  <2>2. CASE x[1] # t
    BY <1>1, <2>1, <2>2 DEF Stored
  <2>3. CASE x[1] = t
    <3>1. round[t] # x[2]
      BY <1>4, <1>6, <2>1, <2>3
    <3>2. QED BY <1>1, <2>3, <3>1 DEF Stored
  <2>4. QED BY <2>2, <2>3
<1>7. taken[y] = 0
  BY <1>4, <1>5 DEF Placed
<1>8. \A s \in FullSlots : data[s] # y
  BY <1>5 DEF Placed
<1>9. \A s \in FullSlots' : s \in FullSlots \/ s = count
  BY <1>3
<1>10. FullSlots \subseteq FullSlots' /\ count \in FullSlots'
  BY <1>3
<1>11. \A x \in Items : Stored(x)' <=> Stored(x) \/ x = y
  BY <1>5, <1>6
<1>12. \A x \in Items : taken'[x] \in {0, 1} /\ (taken'[x] = 1 => Stored(x)')
  BY <1>1, <1>11 DEF Placed
<1>13. \A x \in Items : taken'[x] = 0 /\ Stored(x)' => \E s \in FullSlots' : data'[s] = x
  BY <1>1, <1>4, <1>10, <1>11 DEF Placed
<1>14. \A s \in FullSlots' : (data[s] \in Items /\ Stored(data[s]) /\ taken[data[s]] = 0)'
  <2> TAKE s \in FullSlots'
  <2>1. CASE s \in FullSlots
    BY <1>1, <1>11, <2>1 DEF Placed
  <2>2. CASE s = count
    BY <1>1, <1>4, <1>5, <1>7, <2>2
  <2>3. QED BY <1>9, <2>1, <2>2
<1>15. \A r, s \in FullSlots' : data'[r] = data'[s] => r = s
  BY <1>1, <1>4, <1>8, <1>9 DEF Placed
<1>16. QED BY <1>12, <1>13, <1>14, <1>15 DEF Placed

\* The load of consume_item takes the item of the slot it uncounted.
LEMMA PlacedConsumeLoad ==
    ASSUME ItemInv, NEW t \in Consumers, ConsumeLoad(t)
    PROVE  Placed'
<1> USE SizesAssumption DEF ItemInv, IInv
<1>0. t \in Threads /\ Consumers \subseteq Threads /\ Producers \subseteq Threads
  BY DEF Producers, Consumers, Threads, ThreadCount
<1>1. /\ pc[t] = "c_load" /\ pc'[t] = "c_unlock"
      /\ \A u \in Threads : u # t => pc'[u] = pc[u]
      /\ UNCHANGED <<count, data, round>>
  BY <1>0, OneMoves DEF ConsumeLoad, At, shared
<1>2. \A c \in Consumers : pc'[c] # "c_load"
  BY <1>0, <1>1, Alone DEF Critical
<1>3. count \in Nat /\ FullSlots = 0 .. count /\ FullSlots' = 0 .. count - 1
  BY <1>1, <1>2 DEF FullSlots, At, TypeOK
<1>4. count \in FullSlots /\ FullSlots' = FullSlots \ {count}
  BY <1>3
<1>5. PICK y \in Items : y = data[count] /\ Stored(y) /\ taken[y] = 0
  BY <1>4 DEF Placed
<1>6. taken'[y] = 1 /\ \A x \in Items : x # y => taken'[x] = taken[x]
  BY <1>5 DEF ConsumeLoad, TypeOK
<1>7. \A x \in Items : Stored(x)' <=> Stored(x)
  BY <1>0, <1>1, StoredKept DEF ConsumeLoad
<1>8. \A s \in FullSlots' : data[s] # y
  BY <1>4, <1>5 DEF Placed
<1>9. \A x \in Items : taken'[x] \in {0, 1} /\ (taken'[x] = 1 => Stored(x)')
  BY <1>5, <1>6, <1>7 DEF Placed
<1>10. \A x \in Items : taken'[x] = 0 /\ Stored(x)' => \E s \in FullSlots' : data'[s] = x
  BY <1>1, <1>4, <1>5, <1>6, <1>7 DEF Placed
<1>11. \A s \in FullSlots' : (data[s] \in Items /\ Stored(data[s]) /\ taken[data[s]] = 0)'
  <2> TAKE s \in FullSlots'
  <2>1. data'[s] = data[s] /\ s \in FullSlots /\ data[s] # y
    BY <1>1, <1>4, <1>8
  <2>2. data[s] \in Items /\ Stored(data[s]) /\ taken[data[s]] = 0
    BY <2>1 DEF Placed
  <2>3. QED BY <1>6, <1>7, <2>1, <2>2
<1>12. \A r, s \in FullSlots' : data'[r] = data'[s] => r = s
  BY <1>1, <1>4 DEF Placed
<1>13. QED BY <1>9, <1>10, <1>11, <1>12 DEF Placed

\* All other steps leave every full slot and every stored item as it was.
LEMMA PlacedStep == ItemInv /\ [Next]_vars => Placed'
<1> SUFFICES ASSUME ItemInv, [Next]_vars PROVE Placed'
  OBVIOUS
<1> USE SizesAssumption DEF ItemInv, IInv
<1>0. Producers \subseteq Threads /\ Consumers \subseteq Threads
  BY DEF Producers, Consumers, Threads, ThreadCount
<1>1. CASE CreateThread
  <2>1. /\ main + 1 \in Threads
        /\ pc[main + 1] = "unborn"
        /\ LoopHead(main + 1, 0) \in {"p_wait", "c_wait", "done"}
    BY <1>1 DEF CreateThread, TypeOK, Control, Threads, ThreadCount, LoopHead
  <2>2. Goto(main + 1, LoopHead(main + 1, 0)) /\ UNCHANGED <<count, data, round, taken>>
    BY <1>1 DEF CreateThread, shared
  <2>3. FullSlots' = FullSlots
    BY <2>1, <2>2, FullSlotsKept
  <2>4. \A x \in Items : Stored(x)' <=> Stored(x)
    BY <2>1, <2>2, StoredKept
  <2>5. QED BY <2>2, <2>3, <2>4, PlacedKept
<1>2. CASE JoinThread \/ UNCHANGED vars
  <2>1. UNCHANGED <<count, data, round, taken, pc>>
    BY <1>2 DEF JoinThread, shared, vars
  <2>2. FullSlots' = FullSlots /\ \A x \in Items : Stored(x)' <=> Stored(x)
    BY <2>1 DEF FullSlots, At, Stored
  <2>3. QED BY <2>1, <2>2, PlacedKept
<1>3. ASSUME NEW t \in Producers, producer_thread(t) PROVE Placed'
  <2>0. t \in Threads
    BY <1>0
  <2>1. CASE ProduceWait(t) \/ ProduceLock(t) \/ ProduceUnlock(t)
    <3>1. FullSlots' = FullSlots
      BY <2>0, <2>1, FullSlotsKept DEF ProduceWait, ProduceLock, ProduceUnlock, At
    <3>2. \A x \in Items : Stored(x)' <=> Stored(x)
      BY <2>0, <2>1, StoredKept DEF ProduceWait, ProduceLock, ProduceUnlock, At
    <3>3. QED BY <2>1, <3>1, <3>2, PlacedKept DEF ProduceWait, ProduceLock, ProduceUnlock
  <2>2. CASE ProduceStore(t)
    <3>1. FullSlots' = FullSlots
      BY <2>0, <2>2, FullSlotsKept DEF ProduceStore, At
    <3>2. \A x \in Items : Stored(x)' <=> Stored(x)
      BY <2>0, <2>2, StoredKept DEF ProduceStore, At
    <3>3. \A c \in Consumers : pc[c] # "c_load"
      <4>1. pc[t] = "p_store" /\ \A c \in Consumers : c \in Threads /\ c # t
        BY <2>2 DEF ProduceStore, At, Producers, Consumers, Threads, ThreadCount
      <4>2. QED BY <2>0, <4>1, Alone DEF Critical
    <3>4. count \notin FullSlots /\ count < BUFFER_SIZE
      BY <2>2, <3>3, AccountingBounds DEF ProduceStore, At, InBounds, FullSlots, TypeOK
    <3>5. \A s \in FullSlots : data'[s] = data[s]
      <4>1. FullSlots \subseteq Slots
        BY <3>3, <3>4 DEF FullSlots, At, Slots, TypeOK
      <4>2. QED BY <2>2, <3>4, <4>1 DEF ProduceStore, TypeOK
    <3>6. QED BY <2>2, <3>1, <3>2, <3>5, PlacedKept DEF ProduceStore
  <2>3. CASE ProduceCount(t)
    BY <2>3, PlacedProduceCount
  <2>4. CASE ProducePost(t)
    <3>1. LoopHead(t, round[t] + 1) \notin {"p_unlock", "p_post", "c_load"}
      BY DEF LoopHead
    <3>2. FullSlots' = FullSlots
      BY <2>0, <2>4, <3>1, FullSlotsKept DEF ProducePost, At
    <3>3. ASSUME NEW x \in Items PROVE Stored(x)' <=> Stored(x)
      <4>1. x[1] \in Threads /\ x[2] \in Int
        BY <1>0 DEF Items
      <4>2. CASE x[1] = t
        <5>1. /\ pc[t] = "p_post" /\ pc'[t] \notin {"p_unlock", "p_post"}
              /\ round[t] \in Int /\ round'[t] = round[t] + 1
          BY <2>0, <2>4, <3>1, OneMoves DEF ProducePost, At, TypeOK
        <5>2. QED BY <4>1, <4>2, <5>1 DEF Stored
      <4>3. CASE x[1] # t
        <5>1. pc'[x[1]] = pc[x[1]] /\ round'[x[1]] = round[x[1]]
          BY <2>0, <2>4, <4>1, <4>3, OneMoves DEF ProducePost, TypeOK
        <5>2. QED BY <5>1 DEF Stored
      <4>4. QED BY <4>2, <4>3
    <3>4. QED BY <2>4, <3>2, <3>3, PlacedKept DEF ProducePost
  <2>5. QED BY <1>3, <2>1, <2>2, <2>3, <2>4 DEF producer_thread
<1>4. ASSUME NEW t \in Consumers, consumer_thread(t) PROVE Placed'
  <2>0. t \in Threads /\ \A p \in Producers : p \in Threads /\ p # t
    BY DEF Producers, Consumers, Threads, ThreadCount
  <2>1. CASE ConsumeWait(t) \/ ConsumeLock(t) \/ ConsumeUnlock(t)
    <3>1. FullSlots' = FullSlots
      BY <2>0, <2>1, FullSlotsKept DEF ConsumeWait, ConsumeLock, ConsumeUnlock, At
    <3>2. \A x \in Items : Stored(x)' <=> Stored(x)
      BY <2>0, <2>1, StoredKept DEF ConsumeWait, ConsumeLock, ConsumeUnlock, At
    <3>3. QED BY <2>1, <3>1, <3>2, PlacedKept DEF ConsumeWait, ConsumeLock, ConsumeUnlock
  <2>2. CASE ConsumeCount(t)
    <3>1. \A x \in Items : Stored(x)' <=> Stored(x)
      BY <2>0, <2>2, StoredKept DEF ConsumeCount, At
    <3>2. pc[t] = "c_count" /\ pc'[t] = "c_load" /\ count' = count - 1
      BY <2>0, <2>2, OneMoves DEF ConsumeCount, At
    <3>3. \A c \in Consumers : pc[c] # "c_load"
      BY <1>0, <2>0, <3>2, Alone DEF Critical
    <3>4. FullSlots' = FullSlots
      BY <3>2, <3>3 DEF FullSlots, At
    <3>5. QED BY <2>2, <3>1, <3>4, PlacedKept DEF ConsumeCount
  <2>3. CASE ConsumeLoad(t)
    BY <2>3, PlacedConsumeLoad
  <2>4. CASE ConsumePost(t)
    <3>1. LoopHead(t, round[t] + 1) # "c_load"
      BY DEF LoopHead
    <3>2. FullSlots' = FullSlots
      BY <2>0, <2>4, <3>1, FullSlotsKept DEF ConsumePost, At
    <3>3. ASSUME NEW x \in Items PROVE Stored(x)' <=> Stored(x)
      <4>1. x[1] \in Producers
        BY DEF Items
      <4>2. pc'[x[1]] = pc[x[1]] /\ round'[x[1]] = round[x[1]]
        BY <2>0, <2>4, <4>1, OneMoves DEF ConsumePost, TypeOK
      <4>3. QED BY <4>2 DEF Stored
    <3>4. QED BY <2>4, <3>2, <3>3, PlacedKept DEF ConsumePost
  <2>5. QED BY <1>4, <2>1, <2>2, <2>3, <2>4 DEF consumer_thread
<1>5. QED BY <1>1, <1>2, <1>3, <1>4 DEF Next, Ended

\* No item that product_item stored is lost, overwritten or returned twice by
\* consume_item, for all sizes.
THEOREM ItemsOnce == Spec => []EveryItemOnce
<1>1. ItemInv /\ [Next]_vars => ItemInv'
  <2>1. ItemInv /\ [Next]_vars => IInv'
    BY TypeStep, AccountingStep DEF ItemInv, IInv
  <2>2. QED BY <2>1, ExclusiveStep, ArmedStep, PlacedStep DEF ItemInv
<1>2. QED BY InitItems, <1>1, PlacedOnce, PTL DEF Spec
=============================================================================
