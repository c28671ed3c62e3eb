-------------------------- MODULE SafeQueueProofs --------------------------
(***************************************************************************)
(* The ring buffer of combined.c implements BoundedFIFO for every size of    *)
(* the ring, number of threads and number of rounds.                         *)
(***************************************************************************)
EXTENDS SafeQueue, SequenceTheorems, TLAPS

Q == QUEUE_SIZE

-----------------------------------------------------------------------------
(* The ring: what moving front or rear does to the sequence it stands for. *)

\* (x + 1) % QUEUE_SIZE without the modulus.
LEMMA RingNext ==
    ASSUME NEW x \in Slots
    PROVE  /\ (x + 1) % QUEUE_SIZE = IF x = Q - 1 THEN 0 ELSE x + 1
           /\ (x + 1) % QUEUE_SIZE \in Slots
<1> USE QueueAssumption DEF Slots, Q
<1>1. \A a \in 0 .. Q - 1 : a % Q = a
  OBVIOUS
<1>2. Q % Q = 0
  OBVIOUS
<1>3. (x + 1) % QUEUE_SIZE = IF x = Q - 1 THEN 0 ELSE x + 1
  BY <1>1, <1>2
<1>4. QED BY <1>3

\* The window between front and rear is a sequence of fewer than QUEUE_SIZE values.
LEMMA RingType ==
    ASSUME NEW V, NEW d \in [Slots -> V], NEW f \in Slots, NEW r \in Slots
    PROVE  /\ RingSize(f, r) \in 0 .. Q - 1
           /\ RingContents(d, f, r) \in Seq(V)
           /\ Len(RingContents(d, f, r)) = RingSize(f, r)
<1> USE QueueAssumption
<1>1. RingSize(f, r) \in 0 .. Q - 1
  BY DEF RingSize, Slots, Q
<1>2. \A i \in 1 .. RingSize(f, r) : RingSlot(f, i) \in Slots
  BY <1>1 DEF RingSlot, Slots, Q
<1>3. RingContents(d, f, r) \in [1 .. RingSize(f, r) -> V]
  BY <1>2 DEF RingContents
<1>4. RingContents(d, f, r) \in Seq(V)
  BY <1>1, <1>3
<1>5. Len(RingContents(d, f, r)) = RingSize(f, r)
  BY <1>1, <1>3, <1>4
<1>6. QED BY <1>1, <1>4, <1>5

\* Advancing rear appends the value stored there.
LEMMA RingPush ==
    ASSUME NEW V, NEW d \in [Slots -> V], NEW f \in Slots, NEW r \in Slots,
           (r + 1) % QUEUE_SIZE # f
    PROVE  /\ RingContents(d, f, (r + 1) % QUEUE_SIZE) = Append(RingContents(d, f, r), d[r])
           /\ RingSize(f, r) < Q - 1
<1> USE QueueAssumption
<1>0. ASSUME NEW a \in Slots, NEW b \in Slots
      PROVE  /\ RingContents(d, a, b) \in Seq(V)
             /\ Len(RingContents(d, a, b)) = RingSize(a, b)
             /\ \A i \in 1 .. RingSize(a, b) : RingContents(d, a, b)[i] = d[RingSlot(a, i)]
  <2>1. RingContents(d, a, b) \in Seq(V)
    BY RingType, Zenon
  <2>2. Len(RingContents(d, a, b)) = RingSize(a, b)
    BY RingType, Zenon
  <2>3. \A i \in 1 .. RingSize(a, b) : RingContents(d, a, b)[i] = d[RingSlot(a, i)]
    BY DEF RingContents
  <2>4. QED BY <2>1, <2>2, <2>3
<1> DEFINE n == (r + 1) % QUEUE_SIZE
           c == RingContents(d, f, r)
           e == RingContents(d, f, n)
<1>1. n = (IF r = Q - 1 THEN 0 ELSE r + 1) /\ n \in Slots
  BY RingNext
<1>2. RingSize(f, n) = RingSize(f, r) + 1 /\ RingSize(f, r) < Q - 1
  BY <1>1 DEF RingSize, Slots, Q
<1>3. RingSlot(f, RingSize(f, r) + 1) = r
  BY DEF RingSize, RingSlot, Slots, Q
<1>4. /\ c \in Seq(V) /\ Len(c) = RingSize(f, r) /\ Len(c) \in Nat
      /\ \A i \in 1 .. RingSize(f, r) : c[i] = d[RingSlot(f, i)]
  <2>1. /\ c \in Seq(V) /\ Len(c) = RingSize(f, r)
        /\ \A i \in 1 .. RingSize(f, r) : c[i] = d[RingSlot(f, i)]
    BY <1>0, Zenon
  <2> HIDE DEF c
  <2>2. QED BY <2>1, LenProperties
<1>5. /\ e \in Seq(V) /\ Len(e) = RingSize(f, n)
      /\ \A i \in 1 .. RingSize(f, n) : e[i] = d[RingSlot(f, i)]
  <2>1. n \in Slots
    BY <1>1
  <2>2. QED BY <2>1, <1>0, Zenon
<1>6. d[r] \in V
  OBVIOUS
<1> HIDE DEF n, c, e
<1>7. /\ Append(c, d[r]) \in Seq(V) /\ Len(Append(c, d[r])) = Len(c) + 1
      /\ \A i \in 1 .. Len(c) + 1 :
            Append(c, d[r])[i] = IF i = Len(c) + 1 THEN d[r] ELSE c[i]
  BY <1>4, <1>6
<1>8. \A i \in 1 .. Len(e) : e[i] = Append(c, d[r])[i]
  BY <1>2, <1>3, <1>4, <1>5, <1>7
<1>9. e = Append(c, d[r])
  BY <1>2, <1>4, <1>5, <1>7, <1>8, SeqEqual
<1>10. QED BY <1>2, <1>9 DEF n, c, e

\* Advancing front removes the oldest value, which is the one front points to.
LEMMA RingPop ==
    ASSUME NEW V, NEW d \in [Slots -> V], NEW f \in Slots, NEW r \in Slots, f # r
    PROVE  /\ RingContents(d, f, r) # <<>>
           /\ Head(RingContents(d, f, r)) = d[f]
           /\ RingContents(d, (f + 1) % QUEUE_SIZE, r) = Tail(RingContents(d, f, r))
<1> USE QueueAssumption
<1>0. ASSUME NEW a \in Slots, NEW b \in Slots
      PROVE  /\ RingContents(d, a, b) \in Seq(V)
             /\ Len(RingContents(d, a, b)) = RingSize(a, b)
             /\ \A i \in 1 .. RingSize(a, b) : RingContents(d, a, b)[i] = d[RingSlot(a, i)]
  <2>1. RingContents(d, a, b) \in Seq(V)
    BY RingType, Zenon
  <2>2. Len(RingContents(d, a, b)) = RingSize(a, b)
    BY RingType, Zenon
  <2>3. \A i \in 1 .. RingSize(a, b) : RingContents(d, a, b)[i] = d[RingSlot(a, i)]
    BY DEF RingContents
  <2>4. QED BY <2>1, <2>2, <2>3
<1> DEFINE n == (f + 1) % QUEUE_SIZE
           c == RingContents(d, f, r)
           e == RingContents(d, n, r)
<1>1. n = (IF f = Q - 1 THEN 0 ELSE f + 1) /\ n \in Slots
  BY RingNext
<1>2. RingSize(f, r) >= 1 /\ RingSize(n, r) = RingSize(f, r) - 1
  BY <1>1 DEF RingSize, Slots, Q
<1>3. /\ c \in Seq(V) /\ Len(c) = RingSize(f, r) /\ Len(c) \in Nat
      /\ \A i \in 1 .. RingSize(f, r) : c[i] = d[RingSlot(f, i)]
  <2>1. /\ c \in Seq(V) /\ Len(c) = RingSize(f, r)
        /\ \A i \in 1 .. RingSize(f, r) : c[i] = d[RingSlot(f, i)]
    BY <1>0, Zenon
  <2> HIDE DEF c
  <2>2. QED BY <2>1, LenProperties
<1>4. /\ e \in Seq(V) /\ Len(e) = RingSize(n, r)
      /\ \A i \in 1 .. RingSize(n, r) : e[i] = d[RingSlot(n, i)]
  <2>1. n \in Slots
    BY <1>1
  <2>2. QED BY <2>1, <1>0, Zenon
<1>5. RingSlot(f, 1) = f /\ \A i \in 1 .. RingSize(n, r) : RingSlot(n, i) = RingSlot(f, i + 1)
  <2>1. RingSize(f, r) \in 0 .. Q - 1
    BY RingType
  <2>2. QED BY <1>1, <1>2, <2>1 DEF RingSlot, Slots, Q
<1> HIDE DEF n, c, e
<1>6. c # <<>>
  BY <1>2, <1>3
<1>7. Head(c) = d[f]
  BY <1>2, <1>3, <1>5, <1>6
<1>8. /\ Tail(c) \in Seq(V) /\ Len(Tail(c)) = Len(c) - 1
      /\ \A i \in 1 .. Len(Tail(c)) : Tail(c)[i] = c[i + 1]
  BY <1>3, <1>6, HeadTailProperties
<1>9. \A i \in 1 .. Len(e) : e[i] = Tail(c)[i]
  BY <1>2, <1>3, <1>4, <1>5, <1>8
<1>10. e = Tail(c)
  BY <1>2, <1>3, <1>4, <1>8, <1>9, SeqEqual
<1>11. QED BY <1>6, <1>7, <1>10 DEF n, c, e

\* A store at rear is outside the window.
LEMMA RingStore ==
    ASSUME NEW d, NEW e, NEW f \in Slots, NEW r \in Slots,
           \A s \in Slots \ {r} : e[s] = d[s]
    PROVE  RingContents(e, f, r) = RingContents(d, f, r)
<1> USE QueueAssumption
<1>1. RingSize(f, r) \in 0 .. Q - 1
  BY DEF RingSize, Slots, Q
<1>2. \A i \in 1 .. RingSize(f, r) : RingSlot(f, i) \in Slots \ {r}
  BY <1>1 DEF RingSlot, RingSize, Slots, Q
<1>3. \A i \in 1 .. RingSize(f, r) : e[RingSlot(f, i)] = d[RingSlot(f, i)]
  BY <1>2
<1>4. QED BY <1>3 DEF RingContents

-----------------------------------------------------------------------------
(* The inductive invariant. *)

AnyLabel == PushLabels \cup PopLabels \cup {"unborn", "done"}
Critical == {"push_test", "push_store", "push_advance", "push_signal",
             "pop_test", "pop_load", "pop_advance", "pop_signal"}

\* A thread is between its lock and its unlock exactly while it owns the mutex.
Locking == \A t \in Threads : pc[t] \in Critical <=> mutex = t

\* A call in progress is one of the thread's ROUNDS.
Looping ==
    \A t \in Threads :
        /\ t > main => pc[t] = "unborn"
        /\ pc[t] = "unborn" => round[t] = 0
        /\ pc[t] \notin {"unborn", "done"} => round[t] < ROUNDS

\* What a thread found by its test, stored or loaded still holds at its next step.
Pending ==
    \A t \in Threads :
        /\ pc[t] \in {"push_store", "push_advance"} => (rear + 1) % QUEUE_SIZE # front
        /\ pc[t] = "push_advance" => data[rear] = <<t, round[t]>>
        /\ pc[t] \in {"pop_load", "pop_advance"} => front # rear
        /\ pc[t] = "pop_advance" => value[t] = data[front]

IInv == TypeOK /\ Locking /\ Looping /\ Pending

\* queue_init and main establish the invariant.
LEMMA InitInv == Init => IInv
BY QueueAssumption
   DEF Init, queue_init, IInv, TypeOK, Locking, Looping, Pending, Critical, Threads,
       ThreadCount, Slots, Zero, PushLabels, PopLabels

\* A step by t alone changes the label of t alone.
LEMMA GotoEffect ==
    ASSUME pc \in [Threads -> AnyLabel], NEW t \in Threads, NEW l \in AnyLabel, Goto(t, l)
    PROVE  /\ pc' \in [Threads -> AnyLabel]
           /\ pc'[t] = l
           /\ \A u \in Threads \ {t} : pc'[u] = pc[u]
BY DEF Goto

\* A signal moves at most one other thread, from waiting to locking.
LEMMA SignalEffect ==
    ASSUME pc \in [Threads -> AnyLabel], NEW t \in Threads, NEW l \in AnyLabel,
           NEW w \in AnyLabel, NEW k \in AnyLabel, pc[t] # w,
           SignalAndGoto(t, l, w, k)
    PROVE  /\ pc' \in [Threads -> AnyLabel]
           /\ pc'[t] = l
           /\ \A u \in Threads \ {t} : pc'[u] = pc[u] \/ (pc[u] = w /\ pc'[u] = k)
BY DEF SignalAndGoto, Goto

\* A loop head is a label of its thread.
LEMMA LoopHeadType ==
    ASSUME NEW t \in Threads, NEW i
    PROVE  /\ LoopHead(t, i) \in AnyLabel \ (Critical \cup {"unborn"})
           /\ LoopHead(t, i) # "done" => i # ROUNDS
BY DEF LoopHead, AnyLabel, Critical, PushLabels, PopLabels

\* One step of main or of a thread keeps the invariant.
LEMMA StepInv == IInv /\ [Next]_vars => IInv'
<1> SUFFICES ASSUME IInv, [Next]_vars PROVE IInv'
  OBVIOUS
<1> USE QueueAssumption DEF IInv
<1>0. pc \in [Threads -> AnyLabel]
  BY DEF TypeOK, AnyLabel
<1>1. CASE CreateThread
  <2>1. main + 1 \in Threads /\ pc[main + 1] = "unborn" /\ round[main + 1] = 0
    BY <1>1 DEF CreateThread, TypeOK, Looping, Threads, ThreadCount
  <2> DEFINE l == LoopHead(main + 1, 0)
  <2>2. l \in AnyLabel \ (Critical \cup {"unborn"}) /\ (l # "done" => 0 # ROUNDS)
    BY <2>1, LoopHeadType
  <2>3. Goto(main + 1, l)
    BY <1>1 DEF CreateThread
  <2> HIDE DEF l
  <2>4. /\ pc' \in [Threads -> AnyLabel]
        /\ pc'[main + 1] = l
        /\ \A u \in Threads \ {main + 1} : pc'[u] = pc[u]
    BY <1>0, <2>1, <2>2, <2>3, GotoEffect
  <2>5. TypeOK'
    BY <1>1, <2>4 DEF CreateThread, TypeOK, AnyLabel, ThreadCount
  <2>6. Locking'
    BY <1>1, <2>1, <2>2, <2>4 DEF CreateThread, Locking, Critical
  <2>7. Looping'
    BY <1>1, <2>1, <2>2, <2>4 DEF CreateThread, Looping, TypeOK, Threads
  <2>8. Pending'
    BY <1>1, <2>1, <2>2, <2>4 DEF CreateThread, Pending, Critical
  <2>9. QED BY <2>5, <2>6, <2>7, <2>8
<1>2. CASE JoinThread
  BY <1>2 DEF JoinThread, TypeOK, Locking, Looping, Pending, Threads, ThreadCount
<1>3. CASE UNCHANGED vars
  BY <1>3 DEF vars, TypeOK, Locking, Looping, Pending
<1>4. ASSUME NEW t \in Threads, queue_push(t)
      PROVE  IInv'
  <2> USE DEF AnyLabel, PushLabels, PopLabels
  <2>1. CASE PushLock(t)
    <3>1. /\ pc' \in [Threads -> AnyLabel] /\ pc'[t] = "push_test"
          /\ \A u \in Threads \ {t} : pc'[u] = pc[u]
      BY <1>0, <2>1, GotoEffect DEF PushLock
    <3>2. TypeOK'
      BY <2>1, <3>1 DEF PushLock, TypeOK, Threads
    <3>3. Locking'
      BY <2>1, <3>1 DEF PushLock, Locking, Critical, Threads
    <3>4. Looping' /\ Pending'
      BY <2>1, <3>1 DEF PushLock, Looping, Pending
    <3>5. QED BY <3>2, <3>3, <3>4
  <2>2. CASE PushTest(t)
    <3>1. PICK l \in {"push_wait", "push_store"} :
            /\ Goto(t, l)
            /\ l = "push_wait" => mutex' = 0
            /\ l = "push_store" => mutex' = mutex /\ (rear + 1) % QUEUE_SIZE # front
      BY <2>2 DEF PushTest
    <3>2. /\ pc' \in [Threads -> AnyLabel] /\ pc'[t] = l
          /\ \A u \in Threads \ {t} : pc'[u] = pc[u]
      BY <1>0, <3>1, GotoEffect
    <3>3. TypeOK'
      BY <2>2, <3>1, <3>2 DEF PushTest, TypeOK, ThreadCount
    <3>4. Locking'
      BY <2>2, <3>1, <3>2 DEF PushTest, Locking, Critical, Threads
    <3>5. Looping' /\ Pending'
      BY <2>2, <3>1, <3>2 DEF PushTest, Looping, Pending
    <3>6. QED BY <3>3, <3>4, <3>5
  <2>3. CASE PushStore(t)
    <3>1. /\ pc' \in [Threads -> AnyLabel] /\ pc'[t] = "push_advance"
          /\ \A u \in Threads \ {t} : pc'[u] = pc[u]
      BY <1>0, <2>3, GotoEffect DEF PushStore
    <3>2. <<t, round[t]>> \in Values
      BY <2>3 DEF PushStore, Looping, TypeOK, Values
    <3>3. TypeOK'
      BY <2>3, <3>1, <3>2 DEF PushStore, TypeOK
    <3>4. Locking' /\ Looping'
      BY <2>3, <3>1 DEF PushStore, Locking, Critical, Looping
    <3>5. \A u \in Threads \ {t} : pc[u] \notin Critical
      BY <2>3 DEF PushStore, Locking, Critical
    <3>6. data'[rear] = <<t, round[t]>>
      BY <2>3 DEF PushStore, TypeOK
    <3>7. Pending'
      BY <2>3, <3>1, <3>5, <3>6 DEF PushStore, Pending, Critical
    <3>8. QED BY <3>3, <3>4, <3>7
  <2>4. CASE PushAdvance(t)
    <3>1. /\ pc' \in [Threads -> AnyLabel] /\ pc'[t] = "push_signal"
          /\ \A u \in Threads \ {t} : pc'[u] = pc[u]
      BY <1>0, <2>4, GotoEffect DEF PushAdvance
    <3>2. rear' \in Slots
      BY <2>4, RingNext DEF PushAdvance, TypeOK
    <3>3. TypeOK'
      BY <2>4, <3>1, <3>2 DEF PushAdvance, TypeOK
    <3>4. Locking' /\ Looping'
      BY <2>4, <3>1 DEF PushAdvance, Locking, Critical, Looping
    <3>5. \A u \in Threads \ {t} : pc[u] \notin Critical
      BY <2>4 DEF PushAdvance, Locking, Critical
    <3>6. Pending'
      BY <3>1, <3>5 DEF Pending, Critical
    <3>7. QED BY <3>3, <3>4, <3>6
  <2>5. CASE PushSignal(t)
    <3> DEFINE l == LoopHead(t, round[t] + 1)
    <3>1. l \in AnyLabel \ (Critical \cup {"unborn"}) /\ (l # "done" => round[t] + 1 # ROUNDS)
      BY LoopHeadType
    <3>2. SignalAndGoto(t, l, "pop_wait", "pop_lock") /\ pc[t] = "push_signal"
      BY <2>5 DEF PushSignal
    <3> HIDE DEF l
    <3>3. /\ pc' \in [Threads -> AnyLabel] /\ pc'[t] = l
          /\ \A u \in Threads \ {t} :
                pc'[u] = pc[u] \/ (pc[u] = "pop_wait" /\ pc'[u] = "pop_lock")
      <4>1. l \in AnyLabel /\ "pop_wait" \in AnyLabel /\ "pop_lock" \in AnyLabel
            /\ "push_wait" \in AnyLabel /\ "push_lock" \in AnyLabel
        BY <3>1
      <4>2. pc[t] # "pop_wait" /\ pc[t] # "push_wait"
        BY <3>2
      <4> HIDE DEF AnyLabel
      <4>3. QED BY <1>0, <3>2, <4>1, <4>2, SignalEffect, Zenon
    <3>4. round[t] < ROUNDS /\ round[t] \in Nat
      BY <3>2 DEF Looping, TypeOK
    <3>r. /\ round' \in [Threads -> 0 .. ROUNDS]
          /\ round'[t] = round[t] + 1
          /\ \A u \in Threads \ {t} : round'[u] = round[u]
      BY <2>5, <3>4 DEF PushSignal, TypeOK
    <3>5. TypeOK'
      BY <2>5, <3>3, <3>r DEF PushSignal, TypeOK, ThreadCount
    <3>6. Locking'
      BY <2>5, <3>1, <3>2, <3>3 DEF PushSignal, Locking, Critical, Threads
    <3>7. Looping'
      <4>1. t <= main /\ UNCHANGED main
        BY <2>5, <3>2 DEF PushSignal, Looping, TypeOK, Threads
      <4>2. QED BY <3>1, <3>3, <3>4, <3>r, <4>1 DEF Looping, TypeOK, Threads
    <3>8. Pending'
      BY <2>5, <3>1, <3>2, <3>3 DEF PushSignal, Pending, Critical, TypeOK
    <3>9. QED BY <3>5, <3>6, <3>7, <3>8
  <2>6. QED BY <1>4, <2>1, <2>2, <2>3, <2>4, <2>5 DEF queue_push
<1>5. ASSUME NEW t \in Threads, queue_pop(t)
      PROVE  IInv'
  <2> USE DEF AnyLabel, PushLabels, PopLabels
  <2>1. CASE PopLock(t)
    <3>1. /\ pc' \in [Threads -> AnyLabel] /\ pc'[t] = "pop_test"
          /\ \A u \in Threads \ {t} : pc'[u] = pc[u]
      BY <1>0, <2>1, GotoEffect DEF PopLock
    <3>2. TypeOK'
      BY <2>1, <3>1 DEF PopLock, TypeOK, Threads
    <3>3. Locking'
      BY <2>1, <3>1 DEF PopLock, Locking, Critical, Threads
    <3>4. Looping' /\ Pending'
      BY <2>1, <3>1 DEF PopLock, Looping, Pending
    <3>5. QED BY <3>2, <3>3, <3>4
  <2>2. CASE PopTest(t)
    <3>1. PICK l \in {"pop_wait", "pop_load"} :
            /\ Goto(t, l)
            /\ l = "pop_wait" => mutex' = 0
            /\ l = "pop_load" => mutex' = mutex /\ front # rear
      BY <2>2 DEF PopTest
    <3>2. /\ pc' \in [Threads -> AnyLabel] /\ pc'[t] = l
          /\ \A u \in Threads \ {t} : pc'[u] = pc[u]
      BY <1>0, <3>1, GotoEffect
    <3>3. TypeOK'
      BY <2>2, <3>1, <3>2 DEF PopTest, TypeOK, ThreadCount
    <3>4. Locking'
      BY <2>2, <3>1, <3>2 DEF PopTest, Locking, Critical, Threads
    <3>5. Looping' /\ Pending'
      BY <2>2, <3>1, <3>2 DEF PopTest, Looping, Pending
    <3>6. QED BY <3>3, <3>4, <3>5
  <2>3. CASE PopLoad(t)
    <3>1. /\ pc' \in [Threads -> AnyLabel] /\ pc'[t] = "pop_advance"
          /\ \A u \in Threads \ {t} : pc'[u] = pc[u]
      BY <1>0, <2>3, GotoEffect DEF PopLoad
    <3>2. TypeOK'
      BY <2>3, <3>1 DEF PopLoad, TypeOK
    <3>3. Locking' /\ Looping'
      BY <2>3, <3>1 DEF PopLoad, Locking, Critical, Looping
    <3>4. value'[t] = data[front] /\ \A u \in Threads \ {t} : value'[u] = value[u]
      BY <2>3 DEF PopLoad, TypeOK
    <3>5. Pending'
      BY <2>3, <3>1, <3>4 DEF PopLoad, Pending
    <3>6. QED BY <3>2, <3>3, <3>5
  <2>4. CASE PopAdvance(t)
    <3>1. /\ pc' \in [Threads -> AnyLabel] /\ pc'[t] = "pop_signal"
          /\ \A u \in Threads \ {t} : pc'[u] = pc[u]
      BY <1>0, <2>4, GotoEffect DEF PopAdvance
    <3>2. front' \in Slots
      BY <2>4, RingNext DEF PopAdvance, TypeOK
    <3>3. served' \in Seq(Values \cup {Zero})
      BY <2>4 DEF PopAdvance, TypeOK
    <3>4. TypeOK'
      BY <2>4, <3>1, <3>2, <3>3 DEF PopAdvance, TypeOK
    <3>5. Locking' /\ Looping'
      BY <2>4, <3>1 DEF PopAdvance, Locking, Critical, Looping
    <3>6. \A u \in Threads \ {t} : pc[u] \notin Critical
      BY <2>4 DEF PopAdvance, Locking, Critical
    <3>7. Pending'
      BY <3>1, <3>6 DEF Pending, Critical
    <3>8. QED BY <3>4, <3>5, <3>7
  <2>5. CASE PopSignal(t)
    <3> DEFINE l == LoopHead(t, round[t] + 1)
    <3>1. l \in AnyLabel \ (Critical \cup {"unborn"}) /\ (l # "done" => round[t] + 1 # ROUNDS)
      BY LoopHeadType
    <3>2. SignalAndGoto(t, l, "push_wait", "push_lock") /\ pc[t] = "pop_signal"
      BY <2>5 DEF PopSignal
    <3> HIDE DEF l
    <3>3. /\ pc' \in [Threads -> AnyLabel] /\ pc'[t] = l
          /\ \A u \in Threads \ {t} :
                pc'[u] = pc[u] \/ (pc[u] = "push_wait" /\ pc'[u] = "push_lock")
      <4>1. l \in AnyLabel /\ "pop_wait" \in AnyLabel /\ "pop_lock" \in AnyLabel
            /\ "push_wait" \in AnyLabel /\ "push_lock" \in AnyLabel
        BY <3>1
      <4>2. pc[t] # "pop_wait" /\ pc[t] # "push_wait"
        BY <3>2
      <4> HIDE DEF AnyLabel
      <4>3. QED BY <1>0, <3>2, <4>1, <4>2, SignalEffect, Zenon
    <3>4. round[t] < ROUNDS /\ round[t] \in Nat
      BY <3>2 DEF Looping, TypeOK
    <3>r. /\ round' \in [Threads -> 0 .. ROUNDS]
          /\ round'[t] = round[t] + 1
          /\ \A u \in Threads \ {t} : round'[u] = round[u]
      BY <2>5, <3>4 DEF PopSignal, TypeOK
    <3>5. TypeOK'
      BY <2>5, <3>3, <3>r DEF PopSignal, TypeOK, ThreadCount
    <3>6. Locking'
      BY <2>5, <3>1, <3>2, <3>3 DEF PopSignal, Locking, Critical, Threads
    <3>7. Looping'
      <4>1. t <= main /\ UNCHANGED main
        BY <2>5, <3>2 DEF PopSignal, Looping, TypeOK, Threads
      <4>2. QED BY <3>1, <3>3, <3>4, <3>r, <4>1 DEF Looping, TypeOK, Threads
    <3>8. Pending'
      BY <2>5, <3>1, <3>2, <3>3 DEF PopSignal, Pending, Critical, TypeOK
    <3>9. QED BY <3>5, <3>6, <3>7, <3>8
  <2>6. QED BY <1>5, <2>1, <2>2, <2>3, <2>4, <2>5 DEF queue_pop
<1>6. ASSUME NEW t \in Threads, SpuriousWake(t)
      PROVE  IInv'
  BY <1>0, <1>6 DEF SpuriousWake, Goto, TypeOK, Locking, Looping, Pending, Critical,
                    AnyLabel, PushLabels, PopLabels
<1>7. QED BY <1>1, <1>2, <1>3, <1>4, <1>5, <1>6 DEF Next, Ended

\* The inductive invariant of queue_push and queue_pop, for all sizes.
THEOREM Invariance == Spec => []IInv
BY InitInv, StepInv, PTL DEF Spec

\* The type invariant of the run safe_queue, for all sizes.
THEOREM TypeCorrect == Spec => []TypeOK
<1>1. IInv => TypeOK
  BY DEF IInv
<1>2. QED BY Invariance, <1>1, PTL

-----------------------------------------------------------------------------
(* The refinement. *)

\* An initialised ring is the empty queue.
LEMMA InitRefines == Init => FIFO!Init
<1> SUFFICES ASSUME Init PROVE FIFO!Init
  OBVIOUS
<1>1. RingSize(front, rear) = 0
  BY DEF Init, queue_init, RingSize
<1>2. Contents = <<>>
  BY <1>1 DEF Contents, RingContents
<1>3. QED BY <1>2 DEF Init, FIFO!Init

\* Moving rear is the push, moving front is the pop, every other step of every
\* thread leaves the queue as it is.
LEMMA StepRefines ==
    IInv /\ [Next]_vars => [FIFO!Next]_<<Contents, served>>
<1> SUFFICES ASSUME IInv, [Next]_vars
             PROVE  FIFO!Next \/ UNCHANGED <<Contents, served>>
  OBVIOUS
<1> USE DEF IInv
<1> DEFINE V == Values \cup {Zero}
<1>0. data \in [Slots -> V] /\ front \in Slots /\ rear \in Slots
  BY DEF TypeOK
<1>a. ASSUME UNCHANGED <<data, front, rear, served>>
      PROVE  UNCHANGED <<Contents, served>>
  BY <1>a DEF Contents, RingContents, RingSize
<1>1. CASE CreateThread \/ JoinThread \/ Ended \/ UNCHANGED vars
  BY <1>1, <1>a DEF CreateThread, JoinThread, Ended, vars
<1>2. ASSUME NEW t \in Threads, SpuriousWake(t)
      PROVE  UNCHANGED <<Contents, served>>
  BY <1>2, <1>a DEF SpuriousWake
<1>3. ASSUME NEW t \in Threads, queue_push(t)
      PROVE  FIFO!Next \/ UNCHANGED <<Contents, served>>
  <2>1. CASE PushLock(t) \/ PushTest(t) \/ PushSignal(t)
    BY <2>1, <1>a DEF PushLock, PushTest, PushSignal
  <2>2. CASE PushStore(t)
    <3>1. /\ front' = front /\ rear' = rear /\ served' = served
          /\ \A s \in Slots \ {rear} : data'[s] = data[s]
      BY <2>2, <1>0 DEF PushStore
    <3>2. RingContents(data', front, rear) = RingContents(data, front, rear)
      BY <1>0, <3>1, RingStore
    <3>3. Contents' = Contents
      BY <3>1, <3>2 DEF Contents, RingContents, RingSize, RingSlot
    <3>4. QED BY <3>1, <3>3
  <2>3. CASE PushAdvance(t)
    <3>1. /\ (rear + 1) % QUEUE_SIZE # front
          /\ data[rear] = <<t, round[t]>>
      BY <2>3 DEF PushAdvance, Pending
    <3>2. <<t, round[t]>> \in Values
      <4>1. round[t] \in 0 .. ROUNDS - 1
        BY <2>3, QueueAssumption DEF PushAdvance, Looping, TypeOK
      <4>2. QED BY <4>1 DEF Values
    <3>3. /\ RingContents(data, front, (rear + 1) % QUEUE_SIZE)
               = Append(RingContents(data, front, rear), data[rear])
          /\ RingSize(front, rear) < Q - 1
      <4> HIDE DEF V
      <4> QED BY <1>0, <3>1, RingPush, Zenon
    <3>4. Contents' = Append(Contents, <<t, round[t]>>)
      <4>1. Contents' = RingContents(data, front, (rear + 1) % QUEUE_SIZE)
        <5>1. data' = data /\ front' = front /\ rear' = (rear + 1) % QUEUE_SIZE
          BY <2>3 DEF PushAdvance
        <5>2. QED BY <5>1, Zenon DEF Contents, RingContents, RingSize, RingSlot
      <4>2. QED BY <3>1, <3>3, <4>1, Zenon DEF Contents
    <3>5. Len(Contents) = RingSize(front, rear)
      <4> HIDE DEF V
      <4>1. Len(RingContents(data, front, rear)) = RingSize(front, rear)
        BY <1>0, RingType, Zenon
      <4>2. QED BY <4>1, Zenon DEF Contents
    <3>6. FIFO!Push(<<t, round[t]>>)
      BY <2>3, <3>3, <3>4, <3>5 DEF FIFO!Push, PushAdvance, Q
    <3>7. QED BY <3>2, <3>6 DEF FIFO!Next
  <2>4. QED BY <1>3, <2>1, <2>2, <2>3 DEF queue_push
<1>4. ASSUME NEW t \in Threads, queue_pop(t)
      PROVE  FIFO!Next \/ UNCHANGED <<Contents, served>>
  <2>1. CASE PopLock(t) \/ PopTest(t) \/ PopLoad(t) \/ PopSignal(t)
    BY <2>1, <1>a DEF PopLock, PopTest, PopLoad, PopSignal
  <2>2. CASE PopAdvance(t)
    <3>1. front # rear /\ value[t] = data[front]
      BY <2>2 DEF PopAdvance, Pending
    <3>2. /\ RingContents(data, front, rear) # <<>>
          /\ Head(RingContents(data, front, rear)) = data[front]
          /\ RingContents(data, (front + 1) % QUEUE_SIZE, rear)
               = Tail(RingContents(data, front, rear))
      <4> HIDE DEF V
      <4> QED BY <1>0, <3>1, RingPop, Zenon
    <3>3. Contents' = Tail(Contents)
      <4>1. Contents' = RingContents(data, (front + 1) % QUEUE_SIZE, rear)
        <5>1. data' = data /\ front' = (front + 1) % QUEUE_SIZE /\ rear' = rear
          BY <2>2 DEF PopAdvance
        <5>2. QED BY <5>1, Zenon DEF Contents, RingContents, RingSize, RingSlot
      <4>2. QED BY <3>2, <4>1, Zenon DEF Contents
    <3>4. FIFO!Pop
      BY <2>2, <3>1, <3>2, <3>3 DEF FIFO!Pop, PopAdvance, Contents
    <3>5. QED BY <3>4 DEF FIFO!Next
  <2>3. QED BY <1>4, <2>1, <2>2 DEF queue_pop
<1>5. QED BY <1>1, <1>2, <1>3, <1>4 DEF Next

\* queue_push and queue_pop are a first-in first-out queue of QUEUE_SIZE - 1
\* places, for every size, number of threads and number of rounds.
THEOREM Refinement == Spec => ImplementsFIFO
BY InitRefines, StepRefines, Invariance, PTL DEF Spec, ImplementsFIFO, FIFO!Spec
=============================================================================
