-------------------------- MODULE ThreadPoolProofs --------------------------
(***************************************************************************)
(* The thread pool of single_thread_pool.c, for every number of workers,     *)
(* slots, submitters and tasks: every task is in one place, no wakeup is     *)
(* lost, and nobody is inside the pool when it is freed.                     *)
(***************************************************************************)
EXTENDS ThreadPool, Sequences, FiniteSetTheorems, TLAPS

M == MAX_QUEUE_SIZE

-----------------------------------------------------------------------------
(* The ring *)

\* The slot j places after f, without the modulus.
After(f, j) == IF f + j < M THEN f + j ELSE f + j - M

LEMMA RingSlot ==
    ASSUME NEW f \in Slots, NEW j \in 0 .. M
    PROVE  (f + j) % MAX_QUEUE_SIZE = After(f, j) /\ After(f, j) \in Slots
<1> USE PoolAssumption DEF Slots, M
<1>1. \A a \in 0 .. M - 1 : a % M = a
  OBVIOUS
<1>2. \A a \in M .. 2 * M - 1 : a % M = a - M
  OBVIOUS
<1>3. f + j \in 0 .. M - 1 \/ f + j \in M .. 2 * M - 1
  OBVIOUS
<1>4. QED BY <1>1, <1>2, <1>3 DEF After

\* The window of n slots that starts at f.
Span(f, n) == {After(f, j) : j \in 0 .. n - 1}

LEMMA WindowSpan ==
    ASSUME NEW f \in Slots, NEW n \in 0 .. M
    PROVE  {(f + i) % MAX_QUEUE_SIZE : i \in 0 .. n - 1} = Span(f, n)
<1>1. \A i \in 0 .. n - 1 : (f + i) % MAX_QUEUE_SIZE = After(f, i)
  <2> TAKE i \in 0 .. n - 1
  <2>1. i \in 0 .. M
    BY PoolAssumption DEF M
  <2>2. QED BY <2>1, RingSlot
<1>2. QED BY <1>1 DEF Span

\* A task put at the rear joins the window; one taken at the front leaves it.
LEMMA SpanMoves ==
    ASSUME NEW f \in Slots, NEW n \in 0 .. M
    PROVE  /\ Span(f, n) \subseteq Slots
           /\ n < M => After(f, n) \notin Span(f, n)
                       /\ Span(f, n + 1) = Span(f, n) \cup {After(f, n)}
           /\ n > 0 => f \in Span(f, n) /\ Span(After(f, 1), n - 1) = Span(f, n) \ {f}
                       /\ After(After(f, 1), n - 1) = After(f, n)
<1> USE PoolAssumption DEF Slots, M
<1>1. Span(f, n) \subseteq Slots
  BY DEF Span, After
<1>2. ASSUME n < M
      PROVE  After(f, n) \notin Span(f, n)
             /\ Span(f, n + 1) = Span(f, n) \cup {After(f, n)}
  <2>1. After(f, n) \notin Span(f, n)
    BY <1>2 DEF Span, After
  <2>2. \A j : j \in 0 .. n + 1 - 1 <=> j \in 0 .. n - 1 \/ j = n
    OBVIOUS
  <2>3. Span(f, n + 1) = Span(f, n) \cup {After(f, n)}
    BY <2>2 DEF Span
  <2>4. QED BY <2>1, <2>3
<1>3. ASSUME n > 0
      PROVE  f \in Span(f, n) /\ Span(After(f, 1), n - 1) = Span(f, n) \ {f}
             /\ After(After(f, 1), n - 1) = After(f, n)
  <2>1. After(f, 0) = f /\ 0 \in 0 .. n - 1
    BY <1>3 DEF After
  <2>2. f \in Span(f, n)
    BY <2>1 DEF Span
  <2>3. \A j \in 0 .. n - 1 : After(After(f, 1), j) = After(f, j + 1)
    BY DEF After
  <2>4. \A j \in 1 .. n - 1 : After(f, j) # f
    BY DEF After
  <2>5. Span(f, n) \ {f} = {After(f, j) : j \in 1 .. n - 1}
    <3>1. \A j : j \in 0 .. n - 1 <=> j = 0 \/ j \in 1 .. n - 1
      BY <1>3
    <3>2. QED BY <2>1, <2>4, <3>1 DEF Span
  <2>6. Span(After(f, 1), n - 1) = {After(f, j) : j \in 1 .. n - 1}
    <3>1. \A j \in 0 .. n - 1 - 1 : After(After(f, 1), j) = After(f, j + 1)
                                    /\ j + 1 \in 1 .. n - 1
      BY <2>3
    <3>2. \A j \in 1 .. n - 1 : After(f, j) = After(After(f, 1), j - 1)
                                /\ j - 1 \in 0 .. n - 1 - 1
      BY DEF After
    <3>3. QED BY <3>1, <3>2 DEF Span
  <2>7. QED BY <1>3, <2>2, <2>3, <2>5, <2>6
<1>4. QED BY <1>1, <1>2, <1>3

-----------------------------------------------------------------------------
(* The inductive invariant *)

\* What the owner has done so far, and what the others may do meanwhile.
Lifecycle ==
    /\ shutdown <=> owner \notin {"start", "open"}
    /\ owner = "start" =>
          /\ threads < THREAD_POOL_SIZE
          /\ \A w \in Workers : w >= threads => wpc[w] = "unborn"
    /\ owner \in {"open", "broadcast"} => threads = THREAD_POOL_SIZE
    /\ owner = "join" =>
          /\ threads >= 1
          /\ \A w \in Workers : w < THREAD_POOL_SIZE - threads => wpc[w] = "exited"
    /\ owner \in {"free", "freed"} => \A w \in Workers : wpc[w] = "exited"
    /\ shutdown => \A s \in Submitters : spc[s] = "idle"
    /\ \A s \in Submitters : spc[s] # "idle" => sent[s] < TasksPerSubmitter

\* A worker has a task exactly between taking and having run it.
Hands == \A w \in Workers : IF wpc[w] \in {"signal", "run"} THEN task[w] \in Tasks
                                                            ELSE task[w] = NoTask

\* TaskConservation without cardinalities: a task submitted is queued, in hand or
\* executed; the three exclude each other, and each holds it once.
Placed ==
    /\ \A t \in Tasks : executed[t] \in {0, 1} /\ (executed[t] = 1 => Submitted(t))
    /\ \A t \in Tasks : Submitted(t) =>
          executed[t] = 1 \/ Queued(t) \/ \E w \in Workers : task[w] = t
    /\ \A w \in Workers : task[w] # NoTask =>
          Submitted(task[w]) /\ executed[task[w]] = 0 /\ ~Queued(task[w])
    /\ \A v, w \in Workers : task[v] # NoTask /\ task[v] = task[w] => v = w
    /\ \A s \in Window :
          task_queue[s] \in Tasks /\ Submitted(task_queue[s]) /\ executed[task_queue[s]] = 0
    /\ \A r, s \in Window : task_queue[r] = task_queue[s] => r = s

Ring == rear = After(front, queue_size)

Signalling == {w \in Workers : wpc[w] = "signal"}
Locking == {s \in Submitters : spc[s] = "lock"}

\* While a submitter sleeps there is, for every free slot, a worker about to
\* signal or a submitter about to take the slot.
Wakeups ==
    /\ (queue_size > 0 /\ ~shutdown) =>
          \/ \E w \in Workers : wpc[w] # "wait"
          \/ \E s \in Submitters : spc[s] = "signal"
    /\ (\E s \in Submitters : spc[s] = "wait") =>
          Cardinality(Signalling) + Cardinality(Locking) >= MAX_QUEUE_SIZE - queue_size

IInv == TypeOK /\ Lifecycle /\ Hands /\ Ring /\ Placed /\ Wakeups

\* A pair is never the mark of an empty hand.
LEMMA NoTaskIsNone == NoTask \notin Tasks
<1> SUFFICES ASSUME NoTask \in Tasks PROVE FALSE
  OBVIOUS
<1>1. PICK a \in Submitters, b \in 0 .. TasksPerSubmitter - 1 : <<>> = <<a, b>>
  BY DEF Tasks, NoTask
<1>2. Len(<<a, b>>) = 2 /\ Len(<<>>) = 0
  OBVIOUS
<1>3. QED BY <1>1, <1>2

LEMMA InitInv == Init => IInv
<1> SUFFICES ASSUME Init PROVE IInv
  OBVIOUS
<1> USE PoolAssumption DEF Init, create_thread_pool
<1>1. TypeOK
  <2>1. 0 \in Slots /\ task_queue \in [Slots -> Tasks \cup {NoTask}]
    BY DEF Slots
  <2>2. shutdown \in BOOLEAN
    BY Zenon
  <2>3. QED BY <2>1, <2>2 DEF TypeOK, WorkerLabels, SubmitterLabels
<1>2. Lifecycle
  BY DEF Lifecycle
<1>3. Hands
  BY DEF Hands
<1>4. Ring
  BY DEF Ring, After, M
<1>5. Window = {}
  BY DEF Window
<1>6. \A t \in Tasks : executed[t] = 0 /\ ~Submitted(t)
  BY DEF Submitted, Tasks
<1>7. Placed
  BY <1>5, <1>6 DEF Placed, Queued
<1>8. Wakeups
  BY DEF Wakeups
<1>9. QED BY <1>1, <1>2, <1>3, <1>4, <1>7, <1>8 DEF IInv

\* pthread_cond_signal wakes one waiter if there is one, and changes nothing else.
LEMMA WorkersSignalled ==
    ASSUME TypeOK, wpc' \in Signalled(wpc)
    PROVE  /\ wpc' \in [Workers -> WorkerLabels]
           /\ \A w \in Workers : wpc'[w] = wpc[w] \/ (wpc[w] = "wait" /\ wpc'[w] = "lock")
           /\ (\E w \in Workers : wpc[w] = "wait") => \E w \in Workers : wpc'[w] = "lock"
<1>1. wpc \in [Workers -> WorkerLabels] /\ DOMAIN wpc = Workers /\ "lock" \in WorkerLabels
  BY DEF TypeOK, WorkerLabels
<1>2. CASE \E w \in Workers : wpc[w] = "wait"
  <2>1. PICK w \in Workers : wpc[w] = "wait" /\ wpc' = [wpc EXCEPT ![w] = "lock"]
    BY <1>1, <1>2 DEF Signalled
  <2>2. QED BY <1>1, <2>1
<1>3. CASE ~ \E w \in Workers : wpc[w] = "wait"
  <2>1. wpc' = wpc
    BY <1>1, <1>3 DEF Signalled
  <2>2. QED BY <1>1, <1>3, <2>1
<1>4. QED BY <1>2, <1>3

LEMMA SubmittersSignalled ==
    ASSUME TypeOK, spc' \in Signalled(spc)
    PROVE  /\ spc' \in [Submitters -> SubmitterLabels]
           /\ \A s \in Submitters : spc'[s] = spc[s] \/ (spc[s] = "wait" /\ spc'[s] = "lock")
           /\ \/ spc' = spc /\ ~ \E s \in Submitters : spc[s] = "wait"
              \/ \E s \in Submitters : spc[s] = "wait" /\ spc' = [spc EXCEPT ![s] = "lock"]
<1>1. spc \in [Submitters -> SubmitterLabels] /\ DOMAIN spc = Submitters /\ "lock" \in SubmitterLabels
  BY DEF TypeOK, SubmitterLabels
<1>2. CASE \E s \in Submitters : spc[s] = "wait"
  <2>1. PICK s \in Submitters : spc[s] = "wait" /\ spc' = [spc EXCEPT ![s] = "lock"]
    BY <1>1, <1>2 DEF Signalled
  <2>2. QED BY <1>1, <2>1
<1>3. CASE ~ \E s \in Submitters : spc[s] = "wait"
  <2>1. spc' = spc
    BY <1>1, <1>3 DEF Signalled
  <2>2. QED BY <1>1, <1>3, <2>1
<1>4. QED BY <1>2, <1>3

\* Counting one more run keeps executed a function to the naturals.
LEMMA CountedOnce ==
    ASSUME NEW S, NEW f \in [S -> Nat], NEW x \in S
    PROVE  [f EXCEPT ![x] = @ + 1] \in [S -> Nat]
OBVIOUS

-----------------------------------------------------------------------------
(* Types, hands and the life of the pool *)

\* What the front slot holds when a worker may take it.
LEMMA FrontTask ==
    ASSUME IInv, queue_size > 0
    PROVE  front \in Window /\ task_queue[front] \in Tasks
<1>1. front \in Slots /\ queue_size \in 0 .. M
  BY DEF IInv, TypeOK, M
<1>2. front \in Window
  BY <1>1, SpanMoves, WindowSpan DEF Window
<1>3. QED BY <1>2 DEF IInv, Placed

LEMMA TypeStep == IInv /\ [Next]_vars => TypeOK' /\ Lifecycle' /\ Hands'
<1> SUFFICES ASSUME IInv, [Next]_vars PROVE TypeOK' /\ Lifecycle' /\ Hands'
  OBVIOUS
<1>0. TypeOK /\ Lifecycle /\ Hands
  BY DEF IInv
<1> USE <1>0, PoolAssumption DEF WorkerLabels, SubmitterLabels
<1>1. CASE UNCHANGED vars
  BY <1>1 DEF vars, TypeOK, Lifecycle, Hands
<1>2. CASE start_thread_pool
  <2>1. threads \in Workers /\ threads + 1 \in 0 .. THREAD_POOL_SIZE
    BY <1>2 DEF start_thread_pool, TypeOK, Lifecycle, Workers
  <2>2. TypeOK'
    BY <1>2, <2>1 DEF start_thread_pool, TypeOK, pool
  <2>3. Lifecycle'
    BY <1>2, <2>1 DEF start_thread_pool, TypeOK, Lifecycle, Workers, pool
  <2>4. Hands'
    <3>1. wpc[threads] = "unborn" /\ task' = task
      BY <1>2, <2>1 DEF start_thread_pool, Lifecycle, Workers
    <3>2. task[threads] = NoTask
      BY <2>1, <3>1 DEF Hands
    <3>3. /\ wpc'[threads] = "lock"
          /\ \A w \in Workers : w # threads => wpc'[w] = wpc[w]
      BY <1>2, <2>1 DEF start_thread_pool, TypeOK
    <3>4. QED BY <3>1, <3>2, <3>3 DEF Hands
  <2>5. QED BY <2>2, <2>3, <2>4
<1>3. ASSUME NEW w \in Workers, worker_thread(w) PROVE TypeOK' /\ Lifecycle' /\ Hands'
  <2>1. CASE WorkerWait(w) \/ WorkerExit(w)
    BY <2>1 DEF WorkerWait, WorkerExit, TypeOK, Lifecycle, Hands, pool
  <2>2. CASE WorkerTake(w)
    <3>1. task_queue[front] \in Tasks
      BY <2>2, FrontTask DEF WorkerTake
    <3>2. (front + 1) % MAX_QUEUE_SIZE \in Slots /\ queue_size - 1 \in 0 .. MAX_QUEUE_SIZE
      BY <2>2, RingSlot DEF WorkerTake, TypeOK, M
    <3>3. TypeOK'
      BY <2>2, <3>1, <3>2 DEF WorkerTake, TypeOK
    <3>4. Lifecycle' /\ Hands'
      BY <2>2, <3>1 DEF WorkerTake, TypeOK, Lifecycle, Hands
    <3>5. QED BY <3>3, <3>4
  <2>3. CASE WorkerSignal(w)
    <3>1. /\ spc' \in [Submitters -> SubmitterLabels]
          /\ \A s \in Submitters : spc'[s] = spc[s] \/ (spc[s] = "wait" /\ spc'[s] = "lock")
      BY <2>3, SubmittersSignalled DEF WorkerSignal
    <3>2. QED BY <2>3, <3>1 DEF WorkerSignal, TypeOK, Lifecycle, Hands, pool
  <2>4. CASE WorkerRun(w)
    <3>1. task[w] \in Tasks
      BY <2>4 DEF WorkerRun, Hands
    <3>2. executed' \in [Tasks -> Nat]
      BY <2>4, <3>1, CountedOnce DEF WorkerRun, TypeOK
    <3>3. TypeOK'
      BY <2>4, <3>2 DEF WorkerRun, TypeOK, pool
    <3>4. QED BY <2>4, <3>3 DEF WorkerRun, TypeOK, Lifecycle, Hands, pool
  <2>5. QED BY <1>3, <2>1, <2>2, <2>3, <2>4 DEF worker_thread
<1>4. ASSUME NEW s \in Submitters, AddCall(s) \/ add_task(s)
      PROVE  TypeOK' /\ Lifecycle' /\ Hands'
  <2>1. CASE AddCall(s) \/ AddWait(s)
    BY <2>1 DEF AddCall, AddWait, TypeOK, Lifecycle, Hands, pool
  <2>2. CASE AddPut(s)
    <3>1. <<s, sent[s]>> \in Tasks
      BY <2>2 DEF AddPut, TypeOK, Lifecycle, Tasks
    <3>2. (rear + 1) % MAX_QUEUE_SIZE \in Slots /\ queue_size + 1 \in 0 .. MAX_QUEUE_SIZE
      BY <2>2, RingSlot DEF AddPut, TypeOK, M
    <3>3. TypeOK'
      BY <2>2, <3>1, <3>2 DEF AddPut, TypeOK
    <3>4. QED BY <2>2, <3>3 DEF AddPut, TypeOK, Lifecycle, Hands
  <2>3. CASE AddSignal(s)
    <3>1. /\ wpc' \in [Workers -> WorkerLabels]
          /\ \A w \in Workers : wpc'[w] = wpc[w] \/ (wpc[w] = "wait" /\ wpc'[w] = "lock")
      BY <2>3, WorkersSignalled DEF AddSignal
    <3>2. sent' \in [Submitters -> 0 .. TasksPerSubmitter]
      BY <2>3 DEF AddSignal, TypeOK, Lifecycle
    <3>3. TypeOK'
      BY <2>3, <3>1, <3>2 DEF AddSignal, TypeOK, pool
    <3>4. Hands'
      BY <2>3, <3>1 DEF AddSignal, Hands
    <3>5. Lifecycle'
      BY <2>3, <3>1 DEF AddSignal, TypeOK, Lifecycle, pool
    <3>6. QED BY <3>3, <3>4, <3>5
  <2>4. QED BY <1>4, <2>1, <2>2, <2>3 DEF add_task
<1>5. CASE DestroyShutdown
  BY <1>5 DEF DestroyShutdown, TypeOK, Lifecycle, Hands
<1>6. CASE DestroyBroadcast
  <2>1. \A w \in Workers : wpc'[w] = wpc[w] \/ (wpc[w] = "wait" /\ wpc'[w] = "lock")
    BY <1>6 DEF DestroyBroadcast
  <2>2. TypeOK'
    BY <1>6 DEF DestroyBroadcast, TypeOK, pool
  <2>3. Lifecycle'
    BY <1>6, <2>1 DEF DestroyBroadcast, TypeOK, Lifecycle, Workers, pool
  <2>4. Hands'
    BY <1>6, <2>1 DEF DestroyBroadcast, Hands
  <2>5. QED BY <2>2, <2>3, <2>4
<1>7. CASE DestroyJoin
  <2>1. threads \in 1 .. THREAD_POOL_SIZE
    BY <1>7 DEF DestroyJoin, TypeOK, Lifecycle
  <2>2. TypeOK' /\ Hands'
    BY <1>7, <2>1 DEF DestroyJoin, TypeOK, Hands, pool
  <2>3. \A w \in Workers : w < THREAD_POOL_SIZE - (threads - 1) => wpc[w] = "exited"
    BY <1>7, <2>1 DEF DestroyJoin, Lifecycle, Workers
  <2>4. threads = 1 => \A w \in Workers : wpc[w] = "exited"
    BY <2>3 DEF Workers
  <2>5. Lifecycle'
    BY <1>7, <2>1, <2>3, <2>4 DEF DestroyJoin, TypeOK, Lifecycle, pool
  <2>6. QED BY <2>2, <2>5
<1>8. CASE DestroyFree
  BY <1>8 DEF DestroyFree, TypeOK, Lifecycle, Hands, pool
<1>9. CASE SpuriousWake
  BY <1>9 DEF SpuriousWake, TypeOK, Lifecycle, Hands, pool
<1>10. QED BY <1>1, <1>2, <1>3, <1>4, <1>5, <1>6, <1>7, <1>8, <1>9
       DEF Next, destroy_thread_pool, Ended

-----------------------------------------------------------------------------
(* Every task in one place *)

\* Submission depends only on the submitter: on its count and its last signal.
LEMMA SubmittedKept ==
    ASSUME TypeOK, sent' = sent,
           \A s \in Submitters : spc'[s] = "signal" <=> spc[s] = "signal"
    PROVE  \A t \in Tasks : Submitted(t)' <=> Submitted(t)
<1> TAKE t \in Tasks
<1>1. t[1] \in Submitters
  BY DEF Tasks
<1>2. QED BY <1>1 DEF Submitted

\* Steps that touch neither the ring nor the hands nor the counts.
LEMMA PlacedKept ==
    ASSUME IInv, UNCHANGED <<task_queue, queue_size, front, rear, task, executed>>,
           \A t \in Tasks : Submitted(t)' <=> Submitted(t)
    PROVE  Ring' /\ Placed'
<1>1. Window' = Window
  BY DEF Window
<1>2. \A t : Queued(t)' <=> Queued(t)
  BY <1>1 DEF Queued
<1>3. Ring'
  BY DEF IInv, Ring
<1>4. \A w \in Workers : task[w] # NoTask => task[w] \in Tasks
  BY DEF IInv, TypeOK
<1>5. (\A w \in Workers : task[w] # NoTask =>
          Submitted(task[w]) /\ executed[task[w]] = 0 /\ ~Queued(task[w]))'
  BY <1>2, <1>4 DEF IInv, Placed
<1>6. QED BY <1>1, <1>2, <1>3, <1>5 DEF IInv, Placed

\* Taking moves the task of the front slot to the worker's hands.
LEMMA PlacedTake ==
    ASSUME IInv, NEW w \in Workers, WorkerTake(w)
    PROVE  Ring' /\ Placed'
<1> USE PoolAssumption
<1>1. /\ front \in Slots /\ queue_size \in 0 .. M /\ queue_size > 0 /\ TypeOK /\ Placed
      /\ front \in Window /\ task_queue[front] \in Tasks
  BY FrontTask DEF IInv, TypeOK, WorkerTake, M
<1>2. PICK x \in Tasks : x = task_queue[front]
  BY <1>1
<1>3. /\ front' = After(front, 1) /\ queue_size' = queue_size - 1
      /\ UNCHANGED <<task_queue, rear, executed, sent, spc>>
      /\ task'[w] = x /\ \A u \in Workers : u # w => task'[u] = task[u]
  <2>1. 1 \in 0 .. M
    BY DEF M
  <2>2. QED BY <1>1, <1>2, <2>1, RingSlot DEF WorkerTake, TypeOK
<1>4. Window' = Window \ {front} /\ Ring'
  <2>1. front' \in Slots /\ queue_size' \in 0 .. M
    <3>1. TypeOK'
      BY TypeStep DEF Next, worker_thread
    <3>2. QED BY <3>1 DEF TypeOK, M
  <2>2. Window' = Span(front', queue_size') /\ Window = Span(front, queue_size)
    BY <1>1, <2>1, WindowSpan DEF Window
  <2>3. QED BY <1>1, <1>3, <2>2, SpanMoves DEF IInv, Ring
<1>5. task[w] = NoTask /\ NoTask \notin Tasks
  BY NoTaskIsNone DEF IInv, Hands, WorkerTake
<1>6. \A t \in Tasks : Submitted(t)' <=> Submitted(t)
  BY <1>1, <1>3, SubmittedKept
<1>7. \A t : Queued(t)' <=> \E s \in Window \ {front} : task_queue[s] = t
  BY <1>3, <1>4 DEF Queued
<1>8. ~Queued(x)' /\ Submitted(x) /\ executed[x] = 0 /\ Queued(x)
  BY <1>1, <1>2, <1>7 DEF Placed, Queued
<1>9. \A u \in Workers : u # w => task'[u] # x
  BY <1>3, <1>5, <1>8 DEF IInv, Placed
<1>10. \A t \in Tasks : executed'[t] \in {0, 1} /\ (executed'[t] = 1 => Submitted(t)')
  BY <1>1, <1>3, <1>6 DEF Placed
<1>11. ASSUME NEW t \in Tasks, Submitted(t)'
       PROVE  executed'[t] = 1 \/ Queued(t)' \/ \E u \in Workers : task'[u] = t
  <2>1. executed[t] = 1 \/ Queued(t) \/ \E u \in Workers : task[u] = t
    BY <1>1, <1>6, <1>11 DEF Placed
  <2>2. CASE Queued(t)
    BY <1>2, <1>3, <1>7, <2>2 DEF Queued
  <2>3. CASE \E u \in Workers : task[u] = t
    BY <1>3, <1>5, <2>3
  <2>4. QED BY <1>3, <2>1, <2>2, <2>3
<1>12. (\A u \in Workers : task[u] # NoTask =>
          Submitted(task[u]) /\ executed[task[u]] = 0 /\ ~Queued(task[u]))'
  <2> SUFFICES ASSUME NEW u \in Workers, task'[u] # NoTask
               PROVE  (Submitted(task[u]) /\ executed[task[u]] = 0 /\ ~Queued(task[u]))'
    OBVIOUS
  <2>1. CASE u = w
    BY <1>3, <1>6, <1>8, <2>1
  <2>2. CASE u # w
    <3>1. PICK t \in Tasks : t = task[u] /\ t = task'[u]
      BY <1>1, <1>3, <2>2 DEF TypeOK
    <3>2. Submitted(t) /\ executed[t] = 0 /\ ~Queued(t)
      BY <1>1, <3>1, <1>5 DEF Placed
    <3>3. ~Queued(t)'
      BY <1>7, <3>2 DEF Queued
    <3>4. QED BY <1>3, <1>6, <3>1, <3>2, <3>3
  <2>3. QED BY <2>1, <2>2
<1>13. \A u, v \in Workers : task'[u] # NoTask /\ task'[u] = task'[v] => u = v
  BY <1>1, <1>3, <1>9 DEF Placed
<1>14. (\A s \in Window :
          task_queue[s] \in Tasks /\ Submitted(task_queue[s]) /\ executed[task_queue[s]] = 0)'
  BY <1>1, <1>3, <1>4, <1>6 DEF Placed
<1>15. \A r, s \in Window' : task_queue'[r] = task_queue'[s] => r = s
  BY <1>1, <1>3, <1>4 DEF Placed
<1>16. QED BY <1>4, <1>10, <1>11, <1>12, <1>13, <1>14, <1>15 DEF Placed

\* Putting adds the submitter's task in a slot outside the window.
LEMMA PlacedPut ==
    ASSUME IInv, NEW s \in Submitters, AddPut(s)
    PROVE  Ring' /\ Placed'
<1> USE PoolAssumption
<1>1. /\ front \in Slots /\ rear \in Slots /\ queue_size \in 0 .. M /\ queue_size < M
      /\ TypeOK /\ Placed /\ spc[s] = "lock" /\ rear = After(front, queue_size)
      /\ Window = Span(front, queue_size)
  BY WindowSpan DEF IInv, TypeOK, AddPut, M, Window, Ring
<1>2. PICK y \in Tasks : y = <<s, sent[s]>>
  <2>1. sent[s] \in 0 .. TasksPerSubmitter /\ sent[s] < TasksPerSubmitter
    BY <1>1 DEF IInv, TypeOK, Lifecycle
  <2>2. sent[s] \in 0 .. TasksPerSubmitter - 1
    BY <2>1
  <2>3. <<s, sent[s]>> \in Tasks
    BY <2>2 DEF Tasks
  <2>4. QED BY <2>3
<1>3. /\ rear' = After(rear, 1) /\ queue_size' = queue_size + 1 /\ front' = front
      /\ UNCHANGED <<executed, sent, task>>
      /\ task_queue'[rear] = y /\ \A k \in Slots : k # rear => task_queue'[k] = task_queue[k]
      /\ spc'[s] = "signal" /\ \A u \in Submitters : u # s => spc'[u] = spc[u]
  <2>1. 1 \in 0 .. M
    BY DEF M
  <2>2. QED BY <1>1, <1>2, <2>1, RingSlot DEF AddPut, TypeOK
<1>4. Window' = Window \cup {rear} /\ rear \notin Window /\ Window \subseteq Slots
  <2>1. queue_size + 1 \in 0 .. M
    BY <1>1 DEF M
  <2>2. Window' = Span(front, queue_size + 1)
    BY <1>1, <1>3, <2>1, WindowSpan DEF Window
  <2>3. QED BY <1>1, <2>2, SpanMoves
<1>5. Ring'
  <2>1. After(After(front, queue_size), 1) = After(front, queue_size + 1)
    BY <1>1 DEF After, M, Slots
  <2>2. QED BY <1>1, <1>3, <2>1 DEF Ring
<1>6. ~Submitted(y) /\ Submitted(y)'
  <2>1. sent[s] \in Int
    BY <1>1 DEF TypeOK
  <2>2. QED BY <1>1, <1>2, <1>3, <2>1 DEF Submitted
<1>7. ASSUME NEW t \in Tasks, t # y
      PROVE  Submitted(t)' <=> Submitted(t)
  <2>1. t = <<t[1], t[2]>> /\ t[1] \in Submitters
    BY DEF Tasks
  <2>2. CASE t[1] # s
    BY <1>3, <2>1, <2>2 DEF Submitted
  <2>3. CASE t[1] = s
    <3>1. sent[s] # t[2]
      BY <1>2, <1>7, <2>1, <2>3
    <3>2. QED BY <1>3, <2>3, <3>1 DEF Submitted
  <2>4. QED BY <2>2, <2>3
<1>8. executed[y] = 0
  BY <1>1, <1>6 DEF Placed
<1>9. NoTask \notin Tasks
  BY NoTaskIsNone
<1>10. \A w \in Workers : task[w] # y
  BY <1>1, <1>2, <1>6, <1>9 DEF Placed
<1>11. \A k \in Window : task_queue[k] # y
  BY <1>1, <1>6 DEF Placed
<1>12. \A t : Queued(t)' <=> Queued(t) \/ t = y
  BY <1>3, <1>4 DEF Queued
<1>13. \A t \in Tasks : executed'[t] \in {0, 1} /\ (executed'[t] = 1 => Submitted(t)')
  BY <1>1, <1>3, <1>6, <1>7 DEF Placed
<1>14. \A t \in Tasks : Submitted(t)' =>
          executed'[t] = 1 \/ Queued(t)' \/ \E u \in Workers : task'[u] = t
  BY <1>1, <1>3, <1>7, <1>12 DEF Placed
<1>15. (\A u \in Workers : task[u] # NoTask =>
          Submitted(task[u]) /\ executed[task[u]] = 0 /\ ~Queued(task[u]))'
  <2> SUFFICES ASSUME NEW u \in Workers, task[u] # NoTask
               PROVE  (Submitted(task[u]) /\ executed[task[u]] = 0 /\ ~Queued(task[u]))'
    BY <1>3
  <2>1. PICK t \in Tasks : t = task[u] /\ t = task'[u]
    BY <1>1, <1>3 DEF TypeOK
  <2>2. t # y /\ Submitted(t) /\ executed[t] = 0 /\ ~Queued(t)
    BY <1>1, <1>9, <1>10, <2>1 DEF Placed
  <2>3. QED BY <1>3, <1>7, <1>12, <2>1, <2>2
<1>16. \A u, v \in Workers : task'[u] # NoTask /\ task'[u] = task'[v] => u = v
  BY <1>1, <1>3 DEF Placed
<1>17. (\A k \in Window :
          task_queue[k] \in Tasks /\ Submitted(task_queue[k]) /\ executed[task_queue[k]] = 0)'
  <2> SUFFICES ASSUME NEW k \in Window'
               PROVE  (task_queue[k] \in Tasks /\ Submitted(task_queue[k])
                       /\ executed[task_queue[k]] = 0)'
    OBVIOUS
  <2>1. CASE k = rear
    BY <1>3, <1>6, <1>8, <2>1
  <2>2. CASE k # rear
    <3>1. k \in Window /\ task_queue'[k] = task_queue[k]
      BY <1>3, <1>4, <2>2
    <3>2. PICK t \in Tasks : t = task_queue[k] /\ t # y
      BY <1>1, <1>11, <3>1 DEF Placed
    <3>3. Submitted(t) /\ executed[t] = 0
      BY <1>1, <3>1, <3>2 DEF Placed
    <3>4. QED BY <1>3, <1>7, <3>1, <3>2, <3>3
  <2>3. QED BY <2>1, <2>2
<1>18. \A k, m \in Window' : task_queue'[k] = task_queue'[m] => k = m
  BY <1>1, <1>3, <1>4, <1>11 DEF Placed
<1>19. QED BY <1>5, <1>13, <1>14, <1>15, <1>16, <1>17, <1>18 DEF Placed

\* Running moves the task from the worker's hands to the executed ones.
LEMMA PlacedRun ==
    ASSUME IInv, NEW w \in Workers, WorkerRun(w)
    PROVE  Ring' /\ Placed'
<1>1. TypeOK /\ Placed /\ task[w] \in Tasks /\ NoTask \notin Tasks
  BY NoTaskIsNone DEF IInv, Hands, WorkerRun
<1>2. PICK x \in Tasks : x = task[w]
  BY <1>1
<1>3. /\ UNCHANGED <<task_queue, queue_size, front, rear, sent, spc>>
      /\ task'[w] = NoTask /\ \A u \in Workers : u # w => task'[u] = task[u]
      /\ executed'[x] = executed[x] + 1
      /\ \A t \in Tasks : t # x => executed'[t] = executed[t]
  BY <1>1, <1>2 DEF WorkerRun, TypeOK, pool
<1>4. Submitted(x) /\ executed[x] = 0 /\ ~Queued(x)
  BY <1>1, <1>2 DEF Placed
<1>5. executed'[x] = 1
  BY <1>3, <1>4
<1>6. \A t \in Tasks : Submitted(t)' <=> Submitted(t)
  BY <1>1, <1>3, SubmittedKept
<1>7. Window' = Window
  BY <1>3 DEF Window
<1>8. \A t : Queued(t)' <=> Queued(t)
  BY <1>3, <1>7 DEF Queued
<1>9. Ring'
  BY <1>3 DEF IInv, Ring
<1>10. \A t \in Tasks : executed'[t] \in {0, 1} /\ (executed'[t] = 1 => Submitted(t)')
  BY <1>1, <1>3, <1>4, <1>5, <1>6 DEF Placed
<1>11. \A t \in Tasks : Submitted(t)' =>
          executed'[t] = 1 \/ Queued(t)' \/ \E u \in Workers : task'[u] = t
  BY <1>1, <1>2, <1>3, <1>5, <1>6, <1>8 DEF Placed
<1>12. (\A u \in Workers : task[u] # NoTask =>
          Submitted(task[u]) /\ executed[task[u]] = 0 /\ ~Queued(task[u]))'
  <2> SUFFICES ASSUME NEW u \in Workers, task'[u] # NoTask
               PROVE  (Submitted(task[u]) /\ executed[task[u]] = 0 /\ ~Queued(task[u]))'
    OBVIOUS
  <2>1. u # w /\ task[u] # NoTask
    BY <1>3
  <2>2. PICK t \in Tasks : t = task[u] /\ t = task'[u]
    BY <1>1, <1>3, <2>1 DEF TypeOK
  <2>3. t # x /\ Submitted(t) /\ executed[t] = 0 /\ ~Queued(t)
    BY <1>1, <1>2, <2>1, <2>2 DEF Placed
  <2>4. QED BY <1>3, <1>6, <1>8, <2>2, <2>3
<1>13. \A u, v \in Workers : task'[u] # NoTask /\ task'[u] = task'[v] => u = v
  BY <1>1, <1>3 DEF Placed
<1>14. (\A k \in Window :
          task_queue[k] \in Tasks /\ Submitted(task_queue[k]) /\ executed[task_queue[k]] = 0)'
  <2> SUFFICES ASSUME NEW k \in Window
               PROVE  (task_queue[k] \in Tasks /\ Submitted(task_queue[k])
                       /\ executed[task_queue[k]] = 0)'
    BY <1>7
  <2>1. PICK t \in Tasks : t = task_queue[k] /\ t = task_queue'[k]
    BY <1>1, <1>3 DEF Placed
  <2>2. t # x /\ Submitted(t) /\ executed[t] = 0
    BY <1>1, <1>4, <2>1 DEF Placed, Queued
  <2>3. QED BY <1>3, <1>6, <2>1, <2>2
<1>15. \A r, s \in Window' : task_queue'[r] = task_queue'[s] => r = s
  BY <1>1, <1>3, <1>7 DEF Placed
<1>16. QED BY <1>9, <1>10, <1>11, <1>12, <1>13, <1>14, <1>15 DEF Placed

\* Every other step leaves each task where it is.
LEMMA PlacedStep == IInv /\ [Next]_vars => Ring' /\ Placed'
<1> SUFFICES ASSUME IInv, [Next]_vars PROVE Ring' /\ Placed'
  OBVIOUS
<1>0. TypeOK
  BY DEF IInv
<1>a. ASSUME UNCHANGED <<task_queue, queue_size, front, rear, task, executed, sent>>,
             \A s \in Submitters : spc'[s] = "signal" <=> spc[s] = "signal"
      PROVE  Ring' /\ Placed'
  BY <1>0, <1>a, SubmittedKept, PlacedKept
<1>1. CASE UNCHANGED vars \/ start_thread_pool \/ DestroyShutdown \/ DestroyBroadcast
           \/ DestroyJoin \/ DestroyFree
  BY <1>1, <1>a DEF vars, start_thread_pool, DestroyShutdown, DestroyBroadcast, DestroyJoin,
                    DestroyFree, pool
<1>2. ASSUME NEW w \in Workers, worker_thread(w) PROVE Ring' /\ Placed'
  <2>1. CASE WorkerWait(w) \/ WorkerExit(w)
    BY <1>a, <2>1 DEF WorkerWait, WorkerExit, pool
  <2>2. CASE WorkerSignal(w)
    <3>1. \A s \in Submitters : spc'[s] = "signal" <=> spc[s] = "signal"
      BY <1>0, <2>2, SubmittersSignalled DEF WorkerSignal
    <3>2. QED BY <1>a, <2>2, <3>1 DEF WorkerSignal, pool
  <2>3. QED BY <1>2, <2>1, <2>2, PlacedTake, PlacedRun DEF worker_thread
<1>3. ASSUME NEW s \in Submitters, AddCall(s) \/ add_task(s) PROVE Ring' /\ Placed'
  <2>1. CASE AddCall(s) \/ AddWait(s)
    <3>1. \A u \in Submitters : spc'[u] = "signal" <=> spc[u] = "signal"
      BY <1>0, <2>1 DEF AddCall, AddWait, TypeOK
    <3>2. QED BY <1>a, <2>1, <3>1 DEF AddCall, AddWait, pool
  <2>2. CASE AddSignal(s)
    <3>1. \A t \in Tasks : Submitted(t)' <=> Submitted(t)
      <4> TAKE t \in Tasks
      <4>1. t[1] \in Submitters /\ t[2] \in Int
        BY PoolAssumption DEF Tasks
      <4>2. CASE t[1] = s
        <5>1. /\ spc[s] = "signal" /\ spc'[s] = "idle"
              /\ sent[s] \in Int /\ sent'[s] = sent[s] + 1
          BY <1>0, <2>2 DEF AddSignal, TypeOK
        <5>2. QED BY <4>1, <4>2, <5>1 DEF Submitted
      <4>3. CASE t[1] # s
        <5>1. spc'[t[1]] = spc[t[1]] /\ sent'[t[1]] = sent[t[1]]
          BY <1>0, <2>2, <4>1, <4>3 DEF AddSignal, TypeOK
        <5>2. QED BY <5>1 DEF Submitted
      <4>4. QED BY <4>2, <4>3
    <3>2. QED BY <2>2, <3>1, PlacedKept DEF AddSignal, pool
  <2>3. QED BY <1>3, <2>1, <2>2, PlacedPut DEF add_task
<1>4. CASE SpuriousWake
  <2>1. /\ UNCHANGED <<task_queue, queue_size, front, rear, task, executed, sent>>
        /\ \A s \in Submitters : spc'[s] = "signal" <=> spc[s] = "signal"
    BY <1>0, <1>4 DEF SpuriousWake, TypeOK, pool
  <2>2. QED BY <1>a, <2>1
<1>5. QED BY <1>1, <1>2, <1>3, <1>4 DEF Next, destroy_thread_pool, Ended

-----------------------------------------------------------------------------
(* Wakeups *)

\* The two groups of threads that the wakeups count are finite.
LEMMA GroupsFinite ==
    /\ IsFiniteSet(Signalling) /\ Cardinality(Signalling) \in Nat
    /\ IsFiniteSet(Locking) /\ Cardinality(Locking) \in Nat
<1>1. IsFiniteSet(Workers) /\ IsFiniteSet(Submitters)
  <2>1. 0 \in Int /\ THREAD_POOL_SIZE - 1 \in Int
    BY PoolAssumption
  <2>2. QED BY <2>1, PoolAssumption, FS_Interval DEF Workers
<1>2. Signalling \in SUBSET Workers /\ Locking \in SUBSET Submitters
  BY DEF Signalling, Locking
<1>3. QED BY <1>1, <1>2, FS_Subset, FS_CardinalityType

\* A signal is never missing: every step keeps both parts of Wakeups.
LEMMA WakeStep == IInv /\ [Next]_vars => Wakeups'
<1> SUFFICES ASSUME IInv, [Next]_vars PROVE Wakeups'
  OBVIOUS
<1>0. /\ TypeOK /\ Wakeups /\ queue_size \in Int /\ MAX_QUEUE_SIZE \in Int
      /\ 0 \in Workers
  BY PoolAssumption DEF IInv, TypeOK, Workers
<1> DEFINE Slept == \E s \in Submitters : spc[s] = "wait"
           Attended == \/ \E w \in Workers : wpc[w] # "wait"
                       \/ \E s \in Submitters : spc[s] = "signal"
           Enough == Slept => Cardinality(Signalling) + Cardinality(Locking)
                                  >= MAX_QUEUE_SIZE - queue_size
<1>1. /\ Wakeups <=> (queue_size > 0 /\ ~shutdown => Attended) /\ Enough
      /\ Wakeups' <=> (queue_size' > 0 /\ ~shutdown' => Attended') /\ Enough'
  BY DEF Wakeups
<1>a. ASSUME UNCHANGED <<Signalling, Locking, queue_size>>, Slept' => Slept
      PROVE  Enough'
  BY <1>0, <1>1, <1>a
<1>2. CASE UNCHANGED vars
  <2>1. UNCHANGED <<Signalling, Locking, queue_size, wpc, spc, shutdown>>
    BY <1>2 DEF vars, Signalling, Locking
  <2>2. QED BY <1>0, <1>1, <1>a, <2>1
<1>3. CASE start_thread_pool
  <2>1. /\ threads \in Workers /\ wpc[threads] = "unborn" /\ wpc'[threads] = "lock"
        /\ \A w \in Workers : w # threads => wpc'[w] = wpc[w]
        /\ UNCHANGED <<spc, queue_size, shutdown>>
    BY <1>3, <1>0, PoolAssumption
    DEF start_thread_pool, IInv, TypeOK, Lifecycle, Workers, pool
  <2>2. UNCHANGED <<Signalling, Locking>>
    BY <2>1 DEF Signalling, Locking
  <2>3. Attended'
    BY <2>1
  <2>4. QED BY <1>1, <1>a, <2>1, <2>2, <2>3
<1>4. ASSUME NEW w \in Workers, worker_thread(w) PROVE Wakeups'
  <2>1. CASE WorkerWait(w) \/ WorkerExit(w)
    <3>1. /\ wpc[w] = "lock" /\ wpc'[w] \in {"wait", "exited"}
          /\ \A u \in Workers : u # w => wpc'[u] = wpc[u]
          /\ UNCHANGED <<spc, queue_size, shutdown>> /\ (queue_size = 0 \/ shutdown)
      BY <1>0, <2>1 DEF WorkerWait, WorkerExit, TypeOK, pool
    <3>2. UNCHANGED <<Signalling, Locking>>
      BY <3>1 DEF Signalling, Locking
    <3>3. QED BY <1>1, <1>a, <3>1, <3>2
  <2>2. CASE WorkerTake(w)
    <3>1. /\ wpc[w] = "lock" /\ wpc'[w] = "signal"
          /\ \A u \in Workers : u # w => wpc'[u] = wpc[u]
          /\ UNCHANGED <<spc, shutdown>> /\ queue_size' = queue_size - 1
      BY <1>0, <2>2 DEF WorkerTake, TypeOK
    <3>2. /\ Signalling' = Signalling \cup {w} /\ w \notin Signalling /\ Locking' = Locking
      BY <3>1 DEF Signalling, Locking
    <3>3. Cardinality(Signalling') = Cardinality(Signalling) + 1
      BY <3>2, GroupsFinite, FS_AddElement
    <3>4. Slept' => Slept
      BY <3>1
    <3>5. Enough'
      <4> HIDE DEF Slept
      <4> QED BY <1>0, <1>1, <3>1, <3>2, <3>3, <3>4, GroupsFinite
    <3>6. Attended'
      BY <3>1
    <3>7. QED BY <1>1, <3>5, <3>6
  <2>3. CASE WorkerSignal(w)
    <3>1. /\ wpc[w] = "signal" /\ wpc'[w] = "run"
          /\ \A u \in Workers : u # w => wpc'[u] = wpc[u]
          /\ spc' \in Signalled(spc) /\ UNCHANGED <<queue_size, shutdown>>
      BY <1>0, <2>3 DEF WorkerSignal, TypeOK, pool
    <3>2. Signalling' = Signalling \ {w} /\ w \in Signalling
      BY <3>1 DEF Signalling
    <3>3. Cardinality(Signalling') = Cardinality(Signalling) - 1
      BY <3>2, GroupsFinite, FS_RemoveElement
    <3>4. Attended'
      BY <3>1
    <3>5. \/ spc' = spc /\ ~Slept
          \/ \E s \in Submitters : spc[s] = "wait" /\ spc' = [spc EXCEPT ![s] = "lock"]
      BY <1>0, <3>1, SubmittersSignalled
    <3>6. CASE spc' = spc /\ ~Slept
      BY <1>1, <3>4, <3>6
    <3>7. ASSUME NEW s \in Submitters, spc[s] = "wait", spc' = [spc EXCEPT ![s] = "lock"]
          PROVE  Wakeups'
      <4>1. Locking' = Locking \cup {s} /\ s \notin Locking
        BY <1>0, <3>7 DEF Locking, TypeOK
      <4>2. Cardinality(Locking') = Cardinality(Locking) + 1
        BY <4>1, GroupsFinite, FS_AddElement
      <4>3. Slept
        BY <3>7
      <4>4. Enough'
        <5> HIDE DEF Slept
        <5> QED BY <1>0, <1>1, <3>1, <3>3, <4>2, <4>3, GroupsFinite
      <4>5. QED BY <1>1, <3>4, <4>4
    <3>8. QED BY <3>5, <3>6, <3>7
  <2>4. CASE WorkerRun(w)
    <3>1. /\ wpc[w] = "run" /\ wpc'[w] = "lock"
          /\ \A u \in Workers : u # w => wpc'[u] = wpc[u]
          /\ UNCHANGED <<spc, queue_size, shutdown>>
      BY <1>0, <2>4 DEF WorkerRun, TypeOK, pool
    <3>2. UNCHANGED <<Signalling, Locking>> /\ Attended'
      BY <3>1 DEF Signalling, Locking
    <3>3. QED BY <1>1, <1>a, <3>1, <3>2
  <2>5. QED BY <1>4, <2>1, <2>2, <2>3, <2>4 DEF worker_thread
<1>5. ASSUME NEW s \in Submitters, AddCall(s) \/ add_task(s) PROVE Wakeups'
  <2>1. CASE AddCall(s)
    <3>1. /\ spc[s] = "idle" /\ spc'[s] = "lock"
          /\ \A u \in Submitters : u # s => spc'[u] = spc[u]
          /\ UNCHANGED <<wpc, queue_size, shutdown>>
      BY <1>0, <2>1 DEF AddCall, TypeOK, pool
    <3>2. /\ Locking' = Locking \cup {s} /\ s \notin Locking /\ Signalling' = Signalling
      BY <3>1 DEF Signalling, Locking
    <3>3. Cardinality(Locking') = Cardinality(Locking) + 1
      BY <3>2, GroupsFinite, FS_AddElement
    <3>4. (Slept' => Slept) /\ (Attended => Attended')
      BY <3>1
    <3>5. Enough'
      <4> HIDE DEF Slept
      <4> QED BY <1>0, <1>1, <3>1, <3>2, <3>3, <3>4, GroupsFinite
    <3>6. QED BY <1>0, <1>1, <3>1, <3>4, <3>5
  <2>2. CASE AddWait(s)
    <3>1. /\ spc[s] = "lock" /\ spc'[s] = "wait"
          /\ \A u \in Submitters : u # s => spc'[u] = spc[u]
          /\ UNCHANGED <<wpc, queue_size, shutdown>> /\ queue_size = MAX_QUEUE_SIZE
      BY <1>0, <2>2 DEF AddWait, TypeOK, pool
    <3>2. Locking' = Locking \ {s} /\ s \in Locking /\ Signalling' = Signalling
      BY <3>1 DEF Locking, Signalling
    <3>3. Cardinality(Locking') = Cardinality(Locking) - 1 /\ Cardinality(Locking') \in Nat
      BY <3>2, GroupsFinite, FS_RemoveElement, FS_CardinalityType
    <3>4. Attended => Attended'
      BY <3>1
    <3>5. Enough'
      BY <1>0, <3>1, <3>2, <3>3, GroupsFinite
    <3>6. QED BY <1>0, <1>1, <3>1, <3>4, <3>5
  <2>3. CASE AddPut(s)
    <3>1. /\ spc[s] = "lock" /\ spc'[s] = "signal"
          /\ \A u \in Submitters : u # s => spc'[u] = spc[u]
          /\ UNCHANGED <<wpc, shutdown>> /\ queue_size' = queue_size + 1
      BY <1>0, <2>3 DEF AddPut, TypeOK
    <3>2. Locking' = Locking \ {s} /\ s \in Locking /\ Signalling' = Signalling
      BY <3>1 DEF Locking, Signalling
    <3>3. Cardinality(Locking') = Cardinality(Locking) - 1
      BY <3>2, GroupsFinite, FS_RemoveElement
    <3>4. (Slept' => Slept) /\ Attended'
      BY <3>1
    <3>5. Enough'
      <4> HIDE DEF Slept
      <4> QED BY <1>0, <1>1, <3>1, <3>2, <3>3, <3>4, GroupsFinite
    <3>6. QED BY <1>1, <3>4, <3>5
  <2>4. CASE AddSignal(s)
    <3>1. /\ spc[s] = "signal" /\ spc'[s] = "idle"
          /\ \A u \in Submitters : u # s => spc'[u] = spc[u]
          /\ wpc' \in Signalled(wpc) /\ UNCHANGED <<queue_size, shutdown>>
      BY <1>0, <2>4 DEF AddSignal, TypeOK, pool
    <3>2. /\ \A w \in Workers : wpc'[w] = wpc[w] \/ (wpc[w] = "wait" /\ wpc'[w] = "lock")
          /\ (\E w \in Workers : wpc[w] = "wait") => \E w \in Workers : wpc'[w] = "lock"
      BY <1>0, <3>1, WorkersSignalled
    <3>3. UNCHANGED <<Signalling, Locking>> /\ (Slept' => Slept)
      BY <3>1, <3>2 DEF Signalling, Locking
    <3>4. Attended'
      BY <1>0, <3>2
    <3>5. QED BY <1>1, <1>a, <3>1, <3>3, <3>4
  <2>5. QED BY <1>5, <2>1, <2>2, <2>3, <2>4 DEF add_task
<1>6. CASE DestroyShutdown \/ DestroyBroadcast \/ DestroyJoin \/ DestroyFree
  <2>1. /\ UNCHANGED <<spc, queue_size>> /\ shutdown'
        /\ \A w \in Workers : wpc'[w] = wpc[w] \/ (wpc[w] = "wait" /\ wpc'[w] = "lock")
    BY <1>6 DEF DestroyShutdown, DestroyBroadcast, DestroyJoin, DestroyFree, pool, IInv,
                Lifecycle
  <2>2. UNCHANGED <<Signalling, Locking>>
    BY <2>1 DEF Signalling, Locking
  <2>3. QED BY <1>1, <1>a, <2>1, <2>2
<1>7. CASE SpuriousWake
  <2>1. ASSUME NEW w \in Workers, wpc[w] = "wait", wpc' = [wpc EXCEPT ![w] = "lock"],
               UNCHANGED <<pool, spc>>
        PROVE  Wakeups'
    <3>1. wpc'[w] = "lock" /\ \A u \in Workers : u # w => wpc'[u] = wpc[u]
      BY <1>0, <2>1 DEF TypeOK
    <3>2. UNCHANGED <<Signalling, Locking, queue_size>> /\ Attended'
      BY <2>1, <3>1 DEF Signalling, Locking, pool
    <3>3. QED BY <1>1, <1>a, <2>1, <3>2
  <2>2. ASSUME NEW s \in Submitters, spc[s] = "wait", spc' = [spc EXCEPT ![s] = "lock"],
               UNCHANGED <<pool, wpc>>
        PROVE  Wakeups'
    <3>1. /\ spc'[s] = "lock" /\ \A u \in Submitters : u # s => spc'[u] = spc[u]
          /\ UNCHANGED <<queue_size, shutdown, wpc>>
      BY <1>0, <2>2 DEF TypeOK, pool
    <3>2. Locking' = Locking \cup {s} /\ s \notin Locking /\ Signalling' = Signalling
      BY <2>2, <3>1 DEF Locking, Signalling
    <3>3. Cardinality(Locking') = Cardinality(Locking) + 1
      BY <3>2, GroupsFinite, FS_AddElement
    <3>4. Slept /\ (Attended => Attended')
      BY <2>2, <3>1
    <3>5. Enough'
      <4> HIDE DEF Slept
      <4> QED BY <1>0, <1>1, <3>1, <3>2, <3>3, <3>4, GroupsFinite
    <3>6. QED BY <1>0, <1>1, <3>1, <3>4, <3>5
  <2>3. QED BY <1>7, <2>1, <2>2 DEF SpuriousWake
<1>8. QED BY <1>2, <1>3, <1>4, <1>5, <1>6, <1>7 DEF Next, destroy_thread_pool, Ended

-----------------------------------------------------------------------------
(* The theorems *)

\* The invariant of single_thread_pool.c: the life of the pool, the ring, the place
\* of every task and the count of wakeups, whatever the sizes.
THEOREM Invariance == Spec => []IInv
<1>1. IInv /\ [Next]_vars => IInv'
  BY TypeStep, PlacedStep, WakeStep DEF IInv
<1>2. QED BY InitInv, <1>1, PTL DEF Spec

\* The type invariant of the run thread_pool, for all sizes.
THEOREM TypeCorrect == Spec => []TypeOK
<1>1. IInv => TypeOK
  BY DEF IInv
<1>2. QED BY Invariance, <1>1, PTL

LEMMA ConservedByPlaces == IInv => TaskConservation
<1> SUFFICES ASSUME IInv PROVE TaskConservation
  OBVIOUS
<1>1. rear = (front + queue_size) % MAX_QUEUE_SIZE
  <2>1. front \in Slots /\ queue_size \in 0 .. M /\ rear = After(front, queue_size)
    BY DEF IInv, TypeOK, Ring, M
  <2>2. QED BY <2>1, RingSlot
<1>2. ASSUME NEW t \in Tasks
      PROVE  executed[t] + Cardinality(InHand(t))
                 + Cardinality({s \in Window : task_queue[s] = t})
                 = IF Submitted(t) THEN 1 ELSE 0
  <2> DEFINE S == {s \in Window : task_queue[s] = t}
             H == {w \in Workers : task[w] = t}
  <2>0. t # NoTask
    BY NoTaskIsNone
  <2>1. executed[t] \in {0, 1} /\ (executed[t] = 1 => Submitted(t))
    BY DEF IInv, Placed
  <2>2. \/ Cardinality(S) = 0 /\ ~Queued(t)
        \/ Cardinality(S) = 1 /\ Queued(t) /\ Submitted(t) /\ executed[t] = 0
    <3>1. CASE S = {}
      <4>1. Cardinality(S) = 0
        BY <3>1, FS_EmptySet
      <4>2. QED BY <3>1, <4>1 DEF Queued
    <3>2. CASE S # {}
      <4>1. PICK s \in Window : task_queue[s] = t
        BY <3>2
      <4>2. S = {s}
        BY <4>1 DEF IInv, Placed
      <4>3. Cardinality(S) = 1
        BY <4>2, FS_Singleton
      <4>4. QED BY <4>1, <4>3 DEF IInv, Placed, Queued
    <3>3. QED BY <3>1, <3>2
  <2>3. \/ Cardinality(H) = 0 /\ H = {}
        \/ Cardinality(H) = 1 /\ ~Queued(t) /\ Submitted(t) /\ executed[t] = 0
    <3>1. CASE H = {}
      BY <3>1, FS_EmptySet
    <3>2. CASE H # {}
      <4>1. PICK w \in Workers : task[w] = t
        BY <3>2
      <4>2. H = {w}
        BY <2>0, <4>1 DEF IInv, Placed
      <4>3. Cardinality(H) = 1
        BY <4>2, FS_Singleton
      <4>4. QED BY <2>0, <4>1, <4>3 DEF IInv, Placed
    <3>3. QED BY <3>1, <3>2
  <2>4. Submitted(t) => executed[t] = 1 \/ Queued(t) \/ H # {}
    BY DEF IInv, Placed
  <2>5. InHand(t) = H
    BY DEF InHand
  <2> HIDE DEF S, H
  <2>6. executed[t] + Cardinality(H) + Cardinality(S) = IF Submitted(t) THEN 1 ELSE 0
    BY <2>1, <2>2, <2>3, <2>4
  <2>7. QED BY <2>5, <2>6 DEF S
<1>3. QED BY <1>1, <1>2 DEF TaskConservation

\* Every task passed to add_task is in one place, a slot of the window, a worker's
\* hands or executed once, and front, rear and queue_size agree, for all sizes.
THEOREM TasksConserved == Spec => []TaskConservation
BY Invariance, ConservedByPlaces, PTL

\* The signals sent after the unlock are enough: no worker sleeps beside a queued
\* task and no submitter beside a free slot unless a wakeup is on its way, for all
\* sizes.
THEOREM WakeupsKept == Spec => []NoLostWakeup
<1>1. IInv => NoLostWakeup
  <2> SUFFICES ASSUME IInv PROVE NoLostWakeup
    OBVIOUS
  <2>1. ASSUME queue_size < MAX_QUEUE_SIZE, \E s \in Submitters : spc[s] = "wait",
               Signalling = {}, Locking = {}
        PROVE  FALSE
    <3>1. Cardinality(Signalling) + Cardinality(Locking) >= MAX_QUEUE_SIZE - queue_size
      BY <2>1 DEF IInv, Wakeups
    <3>2. Cardinality(Signalling) = 0 /\ Cardinality(Locking) = 0
      BY <2>1, FS_EmptySet
    <3>3. queue_size \in Int /\ MAX_QUEUE_SIZE \in Int
      BY PoolAssumption DEF IInv, TypeOK
    <3>4. QED BY <2>1, <3>1, <3>2, <3>3
  <2>2. QED BY <2>1 DEF IInv, Wakeups, NoLostWakeup, Signalling, Locking
<1>2. QED BY Invariance, <1>1, PTL

\* destroy_thread_pool frees the pool only when every worker has exited and no
\* add_task is in progress, for all sizes.
THEOREM FreedAlone == Spec => []NoUseAfterFree
<1>1. IInv => NoUseAfterFree
  BY DEF IInv, Lifecycle, NoUseAfterFree
<1>2. QED BY Invariance, <1>1, PTL
=============================================================================
