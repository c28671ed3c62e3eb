--------------------------- MODULE PartitionedWork ---------------------------
(***************************************************************************)
(* The data-parallel programs of d9 (working_template.c,                     *)
(* process_thread_implementation.c and compare_performance.c): an array, or  *)
(* the rows of a matrix, is cut into one piece for each worker, a thread or  *)
(* a forked process; main starts them all and waits for them.  A worker      *)
(* reads an item, then writes it (the rows of a product are only written);   *)
(* the value of an item is the number of times it was processed.             *)
(*                                                                           *)
(* fork may fail: nobody looks at its -1, the piece has no worker, and one   *)
(* of the calls of wait returns at once.  pthread_create is taken to         *)
(* succeed: pthread_join of a thread that does not exist is undefined.       *)
(***************************************************************************)
EXTENDS Integers

CONSTANTS NUM_ITEMS, NUM_WORKERS

ASSUME WorkAssumption == NUM_ITEMS \in Nat /\ NUM_WORKERS \in Nat \ {0}

Items == 0 .. NUM_ITEMS - 1
Workers == 0 .. NUM_WORKERS - 1

VARIABLES
    kind,           \* "thread" or "process"
    array,
    worker,         \* "none", "read", "write", "ended", "joined", or "failed"
    index, value,   \* the loop counter and the register of each worker
    started,        \* the loop counter of main: workers it has tried to start
    waited          \* calls of pthread_join or wait that have returned

vars == <<kind, array, worker, index, value, started, waited>>

TypeOK ==
    /\ kind \in {"thread", "process"}
    /\ array \in [Items -> Nat]
    /\ worker \in [Workers -> {"none", "read", "write", "ended", "joined", "failed"}]
    /\ index \in [Workers -> 0 .. NUM_ITEMS]
    /\ value \in [Workers -> Nat]
    /\ started \in 0 .. NUM_WORKERS
    /\ waited \in 0 .. NUM_WORKERS

chunk_size == NUM_ITEMS \div NUM_WORKERS
Start(w) == w * chunk_size

\* Fault: the last worker leaves the remainder of the division.
End_NoRest(w) == (w + 1) * chunk_size

End(w) == IF w = NUM_WORKERS - 1 THEN NUM_ITEMS ELSE (w + 1) * chunk_size

Init ==
    /\ kind \in {"thread", "process"}
    /\ array = [k \in Items |-> 0]
    /\ worker = [w \in Workers |-> "none"]
    /\ index = [w \in Workers |-> 0]
    /\ value = [w \in Workers |-> 0]
    /\ started = 0
    /\ waited = 0

-----------------------------------------------------------------------------
(* main *)

StartWorker ==
    /\ started < NUM_WORKERS
    /\ worker' = [worker EXCEPT ![started] = "read"]
    /\ index' = [index EXCEPT ![started] = Start(started)]
    /\ started' = started + 1
    /\ UNCHANGED <<kind, array, value, waited>>

ForkFails ==
    /\ kind = "process" /\ started < NUM_WORKERS
    /\ worker' = [worker EXCEPT ![started] = "failed"]
    /\ started' = started + 1
    /\ UNCHANGED <<kind, array, index, value, waited>>

JoinThread ==
    /\ kind = "thread" /\ started = NUM_WORKERS /\ waited < NUM_WORKERS
    /\ worker[waited] = "ended"
    /\ worker' = [worker EXCEPT ![waited] = "joined"]
    /\ waited' = waited + 1
    /\ UNCHANGED <<kind, array, index, value, started>>

\* wait(NULL) reaps any child that has ended.
WaitChild ==
    /\ kind = "process" /\ started = NUM_WORKERS /\ waited < NUM_WORKERS
    /\ \E w \in Workers : /\ worker[w] = "ended"
                          /\ worker' = [worker EXCEPT ![w] = "joined"]
    /\ waited' = waited + 1
    /\ UNCHANGED <<kind, array, index, value, started>>

\* Without a child left it returns -1.
WaitNobody ==
    /\ kind = "process" /\ started = NUM_WORKERS /\ waited < NUM_WORKERS
    /\ \A w \in Workers : worker[w] \in {"joined", "failed"}
    /\ waited' = waited + 1
    /\ UNCHANGED <<kind, array, worker, index, value, started>>

Main == StartWorker \/ ForkFails \/ JoinThread \/ WaitChild \/ WaitNobody

-----------------------------------------------------------------------------
(* thread_worker, process_worker *)

Read(w) ==
    /\ worker[w] = "read" /\ index[w] < End(w)
    /\ value' = [value EXCEPT ![w] = array[index[w]]]
    /\ worker' = [worker EXCEPT ![w] = "write"]
    /\ UNCHANGED <<kind, array, index, started, waited>>

Write(w) ==
    /\ worker[w] = "write"
    /\ array' = [array EXCEPT ![index[w]] = value[w] + 1]
    /\ index' = [index EXCEPT ![w] = @ + 1]
    /\ worker' = [worker EXCEPT ![w] = "read"]
    /\ UNCHANGED <<kind, value, started, waited>>

Leave(w) ==
    /\ worker[w] = "read" /\ index[w] >= End(w)
    /\ worker' = [worker EXCEPT ![w] = "ended"]
    /\ UNCHANGED <<kind, array, index, value, started, waited>>

thread_worker(w) == Read(w) \/ Write(w) \/ Leave(w)

Next == Main \/ \E w \in Workers : thread_worker(w)

Spec == Init /\ [][Next]_vars

-----------------------------------------------------------------------------
(* Properties *)

Returned == waited = NUM_WORKERS
Piece(w) == {k \in Items : Start(w) <= k /\ k < End(w)}

\* When main has waited, every item has been processed, and once: also with more
\* workers than items and when the division leaves a remainder.  Items are
\* left out only in the pieces of workers that fork did not start.
EachItemOnce ==
    Returned =>
        \A k \in Items : \E w \in Workers :
            /\ k \in Piece(w)
            /\ array[k] = IF worker[w] = "failed" THEN 0 ELSE 1
=============================================================================
