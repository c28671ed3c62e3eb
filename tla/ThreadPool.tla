---------------------------- MODULE ThreadPool ----------------------------
(***************************************************************************)
(* d10 single_thread_pool.c: workers take tasks from a bounded ring buffer   *)
(* filled by add_task, under one mutex and two condition variables.          *)
(*                                                                           *)
(* Everything between a lock and the following unlock or cond_wait touches   *)
(* only fields guarded by queue_mutex and is one step.  The signals the code *)
(* sends after the unlock are steps of their own.  A thread woken from a     *)
(* cond_wait competes for the mutex again and re-tests its while condition,  *)
(* exactly like a thread that has just called pthread_mutex_lock.            *)
(*                                                                           *)
(* The file has no main.  Its client is: an owner that creates and starts    *)
(* the pool and may destroy it at any moment when no add_task is in          *)
(* progress, and submitters that call add_task until then.                   *)
(***************************************************************************)
EXTENDS Integers, FiniteSets

CONSTANTS
    THREAD_POOL_SIZE,
    MAX_QUEUE_SIZE,
    Submitters,           \* threads that call add_task
    TasksPerSubmitter     \* bound on the calls each of them makes

ASSUME PoolAssumption ==
    /\ THREAD_POOL_SIZE \in Nat \ {0}
    /\ MAX_QUEUE_SIZE \in Nat \ {0}
    /\ TasksPerSubmitter \in Nat
    /\ IsFiniteSet(Submitters)

VARIABLES
    task_queue, queue_size, front, rear, shutdown,
    wpc,        \* what each worker does next
    task,       \* a worker's local variable task
    spc,        \* what each submitter does next
    sent,       \* calls of add_task completed by each submitter
    owner,      \* what the owner does next
    threads,    \* workers started, then workers not yet joined
    executed    \* how often each task was run

pool == <<task_queue, queue_size, front, rear, shutdown>>
vars == <<task_queue, queue_size, front, rear, shutdown,
          wpc, task, spc, sent, owner, threads, executed>>

Workers == 0 .. THREAD_POOL_SIZE - 1
Slots == 0 .. MAX_QUEUE_SIZE - 1
Tasks == Submitters \X (0 .. TasksPerSubmitter - 1)
NoTask == <<>>

WorkerLabels == {"unborn", "lock", "wait", "signal", "run", "exited"}
SubmitterLabels == {"idle", "lock", "wait", "signal"}

TypeOK ==
    /\ task_queue \in [Slots -> Tasks \cup {NoTask}]
    /\ queue_size \in 0 .. MAX_QUEUE_SIZE
    /\ front \in Slots /\ rear \in Slots
    /\ shutdown \in BOOLEAN
    /\ wpc \in [Workers -> WorkerLabels]
    /\ task \in [Workers -> Tasks \cup {NoTask}]
    /\ spc \in [Submitters -> SubmitterLabels]
    /\ sent \in [Submitters -> 0 .. TasksPerSubmitter]
    /\ owner \in {"start", "open", "broadcast", "join", "free", "freed"}
    /\ threads \in 0 .. THREAD_POOL_SIZE
    /\ executed \in [Tasks -> Nat]

-----------------------------------------------------------------------------

create_thread_pool ==
    /\ task_queue = [s \in Slots |-> NoTask]
    /\ queue_size = 0
    /\ front = 0
    /\ rear = 0
    /\ shutdown = FALSE

Init ==
    /\ create_thread_pool
    /\ wpc = [w \in Workers |-> "unborn"]
    /\ task = [w \in Workers |-> NoTask]
    /\ spc = [s \in Submitters |-> "idle"]
    /\ sent = [s \in Submitters |-> 0]
    /\ owner = "start"
    /\ threads = 0
    /\ executed = [t \in Tasks |-> 0]

\* pthread_create of the next worker; the loop ends with the last.
start_thread_pool ==
    /\ owner = "start"
    /\ wpc' = [wpc EXCEPT ![threads] = "lock"]
    /\ threads' = threads + 1
    /\ owner' = IF threads + 1 = THREAD_POOL_SIZE THEN "open" ELSE "start"
    /\ UNCHANGED <<pool, task, spc, sent, executed>>

-----------------------------------------------------------------------------
(* worker_thread *)

\* queue_size == 0 && !shutdown: release the mutex and wait on queue_not_empty.
WorkerWait(w) ==
    /\ wpc[w] = "lock"
    /\ queue_size = 0 /\ ~shutdown
    /\ wpc' = [wpc EXCEPT ![w] = "wait"]
    /\ UNCHANGED <<pool, task, spc, sent, owner, threads, executed>>

WorkerExit(w) ==
    /\ wpc[w] = "lock"
    /\ shutdown
    /\ wpc' = [wpc EXCEPT ![w] = "exited"]
    /\ UNCHANGED <<pool, task, spc, sent, owner, threads, executed>>

\* Fault: the front of the queue is not advanced.
WorkerTake_SameFront(w) ==
    /\ wpc[w] = "lock"
    /\ queue_size > 0 /\ ~shutdown
    /\ task' = [task EXCEPT ![w] = task_queue[front]]
    /\ queue_size' = queue_size - 1
    /\ wpc' = [wpc EXCEPT ![w] = "signal"]
    /\ UNCHANGED <<task_queue, front, rear, shutdown, spc, sent, owner, threads, executed>>

WorkerTake(w) ==
    /\ wpc[w] = "lock"
    /\ queue_size > 0 /\ ~shutdown
    /\ task' = [task EXCEPT ![w] = task_queue[front]]
    /\ front' = (front + 1) % MAX_QUEUE_SIZE
    /\ queue_size' = queue_size - 1
    /\ wpc' = [wpc EXCEPT ![w] = "signal"]
    /\ UNCHANGED <<task_queue, rear, shutdown, spc, sent, owner, threads, executed>>

\* pthread_cond_signal: wakes some thread waiting on the condition, if any waits.
Signalled(pcs) ==
    IF \E t \in DOMAIN pcs : pcs[t] = "wait"
    THEN {[pcs EXCEPT ![t] = "lock"] : t \in {u \in DOMAIN pcs : pcs[u] = "wait"}}
    ELSE {pcs}

WorkerSignal(w) ==
    /\ wpc[w] = "signal"
    /\ wpc' = [wpc EXCEPT ![w] = "run"]
    /\ spc' \in Signalled(spc)
    /\ UNCHANGED <<pool, task, sent, owner, threads, executed>>

\* (task.function)(task.arg), outside the mutex.
WorkerRun(w) ==
    /\ wpc[w] = "run"
    /\ executed' = [executed EXCEPT ![task[w]] = @ + 1]
    /\ task' = [task EXCEPT ![w] = NoTask]
    /\ wpc' = [wpc EXCEPT ![w] = "lock"]
    /\ UNCHANGED <<pool, spc, sent, owner, threads>>

worker_thread(w) ==
    WorkerWait(w) \/ WorkerExit(w) \/ WorkerTake(w) \/ WorkerSignal(w) \/ WorkerRun(w)

-----------------------------------------------------------------------------
(* add_task *)

AddCall(s) ==
    /\ spc[s] = "idle"
    /\ sent[s] < TasksPerSubmitter
    /\ owner \in {"start", "open"}
    /\ spc' = [spc EXCEPT ![s] = "lock"]
    /\ UNCHANGED <<pool, wpc, task, sent, owner, threads, executed>>

AddWait(s) ==
    /\ spc[s] = "lock"
    /\ queue_size = MAX_QUEUE_SIZE
    /\ spc' = [spc EXCEPT ![s] = "wait"]
    /\ UNCHANGED <<pool, wpc, task, sent, owner, threads, executed>>

\* Fault: the queue is allowed one task more than it has slots.
AddPut_Overfill(s) ==
    /\ spc[s] = "lock"
    /\ task_queue' = [task_queue EXCEPT ![rear] = <<s, sent[s]>>]
    /\ rear' = (rear + 1) % MAX_QUEUE_SIZE
    /\ queue_size' = queue_size + 1
    /\ spc' = [spc EXCEPT ![s] = "signal"]
    /\ UNCHANGED <<front, shutdown, wpc, task, sent, owner, threads, executed>>

AddPut(s) ==
    /\ spc[s] = "lock"
    /\ queue_size < MAX_QUEUE_SIZE
    /\ task_queue' = [task_queue EXCEPT ![rear] = <<s, sent[s]>>]
    /\ rear' = (rear + 1) % MAX_QUEUE_SIZE
    /\ queue_size' = queue_size + 1
    /\ spc' = [spc EXCEPT ![s] = "signal"]
    /\ UNCHANGED <<front, shutdown, wpc, task, sent, owner, threads, executed>>

\* Fault: the submitter returns without signalling queue_not_empty.
AddSignal_None(s) ==
    /\ spc[s] = "signal"
    /\ spc' = [spc EXCEPT ![s] = "idle"]
    /\ sent' = [sent EXCEPT ![s] = @ + 1]
    /\ UNCHANGED <<pool, wpc, task, owner, threads, executed>>

AddSignal(s) ==
    /\ spc[s] = "signal"
    /\ spc' = [spc EXCEPT ![s] = "idle"]
    /\ sent' = [sent EXCEPT ![s] = @ + 1]
    /\ wpc' \in Signalled(wpc)
    /\ UNCHANGED <<pool, task, owner, threads, executed>>

add_task(s) == AddWait(s) \/ AddPut(s) \/ AddSignal(s)

-----------------------------------------------------------------------------
(* destroy_thread_pool *)

\* shutdown = 1 under the mutex.
DestroyShutdown ==
    /\ owner = "open"
    /\ \A s \in Submitters : spc[s] = "idle"
    /\ shutdown' = TRUE
    /\ owner' = "broadcast"
    /\ UNCHANGED <<task_queue, queue_size, front, rear, wpc, task, spc, sent, threads, executed>>

\* Fault: only one waiting worker is woken.
DestroyBroadcast_Signal ==
    /\ owner = "broadcast"
    /\ wpc' \in Signalled(wpc)
    /\ owner' = "join"
    /\ UNCHANGED <<pool, task, spc, sent, threads, executed>>

DestroyBroadcast ==
    /\ owner = "broadcast"
    /\ wpc' = [w \in Workers |-> IF wpc[w] = "wait" THEN "lock" ELSE wpc[w]]
    /\ owner' = "join"
    /\ UNCHANGED <<pool, task, spc, sent, threads, executed>>

\* Fault: the pool is freed without joining the workers.
DestroyJoin_Skip ==
    /\ owner = "join"
    /\ owner' = "free"
    /\ UNCHANGED <<pool, wpc, task, spc, sent, threads, executed>>

\* pthread_join of the workers in the order of threads[].
DestroyJoin ==
    /\ owner = "join"
    /\ wpc[THREAD_POOL_SIZE - threads] = "exited"
    /\ threads' = threads - 1
    /\ owner' = IF threads = 1 THEN "free" ELSE "join"
    /\ UNCHANGED <<pool, wpc, task, spc, sent, executed>>

DestroyFree ==
    /\ owner = "free"
    /\ owner' = "freed"
    /\ UNCHANGED <<pool, wpc, task, spc, sent, threads, executed>>

\* The pool is gone.
Ended == owner = "freed" /\ UNCHANGED vars

destroy_thread_pool == DestroyBroadcast \/ DestroyJoin \/ DestroyFree

-----------------------------------------------------------------------------

\* A thread may return from pthread_cond_wait without having been signalled.
SpuriousWake ==
    \/ \E w \in Workers :
        /\ wpc[w] = "wait"
        /\ wpc' = [wpc EXCEPT ![w] = "lock"]
        /\ UNCHANGED <<pool, task, spc, sent, owner, threads, executed>>
    \/ \E s \in Submitters :
        /\ spc[s] = "wait"
        /\ spc' = [spc EXCEPT ![s] = "lock"]
        /\ UNCHANGED <<pool, wpc, task, sent, owner, threads, executed>>

Next ==
    \/ start_thread_pool
    \/ \E w \in Workers : worker_thread(w)
    \/ \E s \in Submitters : AddCall(s) \/ add_task(s)
    \/ DestroyShutdown \/ destroy_thread_pool
    \/ SpuriousWake \/ Ended

\* Threads inside the pool's code keep running and tasks end; nobody has to
\* call add_task or destroy_thread_pool, and no wakeup is ever spurious by right.
Fairness ==
    /\ WF_vars(start_thread_pool)
    /\ \A w \in Workers : WF_vars(worker_thread(w))
    /\ \A s \in Submitters : WF_vars(add_task(s))
    /\ WF_vars(destroy_thread_pool)

Spec == Init /\ [][Next]_vars
FairSpec == Spec /\ Fairness

-----------------------------------------------------------------------------
(* Properties *)

\* The slots between front and rear, counted by queue_size.
Window == {(front + i) % MAX_QUEUE_SIZE : i \in 0 .. queue_size - 1}
Queued(t) == \E s \in Window : task_queue[s] = t
InHand(t) == {w \in Workers : task[w] = t}
Submitted(t) == sent[t[1]] > t[2] \/ (sent[t[1]] = t[2] /\ spc[t[1]] = "signal")

\* front, rear and queue_size describe one window of the ring, and every task
\* passed to add_task is in exactly one place: a slot of the window, a worker's
\* hands, or executed once.  None is overwritten, lost or run twice.
TaskConservation ==
    /\ rear = (front + queue_size) % MAX_QUEUE_SIZE
    /\ \A t \in Tasks :
          executed[t] + Cardinality(InHand(t)) + Cardinality({s \in Window : task_queue[s] = t})
              = IF Submitted(t) THEN 1 ELSE 0

\* The signals sent after the unlock are enough.  Work never waits for workers
\* that all sleep, and a submitter never sleeps beside a free slot, unless a
\* thread is just about to signal, or one already woken is on its way.
NoLostWakeup ==
    /\ (queue_size > 0 /\ ~shutdown) =>
          \/ \E w \in Workers : wpc[w] # "wait"
          \/ \E s \in Submitters : spc[s] = "signal"
    /\ (queue_size < MAX_QUEUE_SIZE /\ \E s \in Submitters : spc[s] = "wait") =>
          \/ \E w \in Workers : wpc[w] = "signal"
          \/ \E s \in Submitters : spc[s] = "lock"

\* No thread is still inside the pool's code once destroy_thread_pool frees it.
NoUseAfterFree ==
    owner = "freed" =>
        /\ \A w \in Workers : wpc[w] = "exited"
        /\ \A s \in Submitters : spc[s] = "idle"

\* A task accepted by add_task is run, unless the pool is shut down first (the
\* workers then exit and leave what is still queued).
TasksRun == \A t \in Tasks : Submitted(t) ~> (executed[t] = 1 \/ shutdown)

\* destroy_thread_pool returns: no worker sleeps through the shutdown.
DestroyReturns == shutdown ~> owner = "freed"
=============================================================================
