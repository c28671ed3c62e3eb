------------------------------- MODULE Handoff -------------------------------
(***************************************************************************)
(* d9 demo_thread_communication.c and real_time_communication.c: a value     *)
(* goes from a producer to a consumer through one cell, with a flag and a    *)
(* condition variable.  In the first, main creates both threads in each of   *)
(* cnt rounds and joins both; the value of round n is n.  (d8                *)
(* condition_variables.c is the same with cnt = 1.)  In the second, a        *)
(* producer overwrites the cell SAMPLES times, without waiting for the       *)
(* consumer, which takes what it finds and resets the flag, for ever; round  *)
(* is there the producer's counter i, from 0.                                *)
(***************************************************************************)
EXTENDS Integers, Sequences

CONSTANTS cnt, SAMPLES

VARIABLES
    shared_data, data_ready,
    mutex,          \* "free", "prod" or "cons"
    prod, cons,     \* what the two threads of the round do next
    round,          \* the loop counter of main, from 1, or of the producer, from 0
    received        \* the values printed by the consumers

vars == <<shared_data, data_ready, mutex, prod, cons, round, received>>

Init ==
    /\ shared_data = 0 /\ data_ready = FALSE
    /\ mutex = "free"
    /\ prod = "unborn" /\ cons = "unborn"
    /\ round = 1
    /\ received = <<>>

CreateConsumer ==
    /\ round <= cnt /\ cons = "unborn"
    /\ cons' = "lock"
    /\ UNCHANGED <<shared_data, data_ready, mutex, prod, round, received>>

CreateProducer ==
    /\ round <= cnt /\ cons # "unborn" /\ prod = "unborn"
    /\ prod' = "lock"
    /\ UNCHANGED <<shared_data, data_ready, mutex, cons, round, received>>

JoinBoth ==
    /\ prod = "done" /\ cons = "done"
    /\ prod' = "unborn" /\ cons' = "unborn"
    /\ round' = round + 1
    /\ UNCHANGED <<shared_data, data_ready, mutex, received>>

ProducerLock ==
    /\ prod = "lock" /\ mutex = "free"
    /\ mutex' = "prod"
    /\ prod' = "store"
    /\ UNCHANGED <<shared_data, data_ready, cons, round, received>>

ProducerStore ==
    /\ prod = "store"
    /\ shared_data' = round
    /\ prod' = "flag"
    /\ UNCHANGED <<data_ready, mutex, cons, round, received>>

\* The flag is set, the consumer is signalled, the lock is given back.
ProducerFlag ==
    /\ prod = "flag"
    /\ data_ready' = TRUE
    /\ mutex' = "free"
    /\ prod' = "done"
    /\ cons' = IF cons = "wait" THEN "lock" ELSE cons
    /\ UNCHANGED <<shared_data, round, received>>

ConsumerLock ==
    /\ cons = "lock" /\ mutex = "free"
    /\ mutex' = "cons"
    /\ cons' = "test"
    /\ UNCHANGED <<shared_data, data_ready, prod, round, received>>

ConsumerWait ==
    /\ cons = "test" /\ ~data_ready
    /\ mutex' = "free"
    /\ cons' = "wait"
    /\ UNCHANGED <<shared_data, data_ready, prod, round, received>>

ConsumerReceive ==
    /\ cons = "test" /\ data_ready
    /\ received' = Append(received, shared_data)
    /\ mutex' = "free"
    /\ cons' = "done"
    /\ UNCHANGED <<shared_data, data_ready, prod, round>>

\* pthread_cond_wait may return without a signal.
SpuriousWake ==
    /\ cons = "wait"
    /\ cons' = "lock"
    /\ UNCHANGED <<shared_data, data_ready, mutex, prod, round, received>>

Main == CreateConsumer \/ CreateProducer \/ JoinBoth
producer == ProducerLock \/ ProducerStore \/ ProducerFlag
consumer == ConsumerLock \/ ConsumerWait \/ ConsumerReceive

Next == Main \/ producer \/ consumer \/ SpuriousWake

-----------------------------------------------------------------------------
(* real_time_communication.c *)

RealTimeInit ==
    /\ shared_data = 0 /\ data_ready = FALSE
    /\ mutex = "free"
    /\ prod = "lock" /\ cons = "lock"
    /\ round = 0
    /\ received = <<>>

RealTimeLock == round < SAMPLES /\ ProducerLock

\* Store, flag, signal, unlock; then sleep.
RealTimeStore ==
    /\ prod = "store"
    /\ shared_data' = round + 1
    /\ data_ready' = TRUE
    /\ mutex' = "free"
    /\ prod' = "lock"
    /\ round' = round + 1
    /\ cons' = IF cons = "wait" THEN "lock" ELSE cons
    /\ UNCHANGED received

\* Fault: the flag is not reset (two receptions are enough to see it).
RealTimeReceive_NoReset ==
    /\ cons = "test" /\ data_ready
    /\ Len(received) <= SAMPLES
    /\ received' = Append(received, shared_data)
    /\ mutex' = "free"
    /\ cons' = "lock"
    /\ UNCHANGED <<shared_data, data_ready, prod, round>>

RealTimeReceive ==
    /\ cons = "test" /\ data_ready
    /\ received' = Append(received, shared_data)
    /\ data_ready' = FALSE
    /\ mutex' = "free"
    /\ cons' = "lock"
    /\ UNCHANGED <<shared_data, prod, round>>

real_time_producer == RealTimeLock \/ RealTimeStore
real_time_consumer == ConsumerLock \/ ConsumerWait \/ RealTimeReceive

RealTimeNext == real_time_producer \/ real_time_consumer \/ SpuriousWake

-----------------------------------------------------------------------------
(* Properties *)

\* data_ready is never reset, so from the second round on a consumer that comes
\* first prints the value of the round before; it never prints an older one,
\* and the first consumer prints what the first producer sent.
AtMostOneRoundOld ==
    \A n \in 1 .. Len(received) :
        received[n] \in {n} \cup (IF n > 1 THEN {n - 1} ELSE {})

Ends == round = cnt + 1

\* Samples may be overwritten before they are read, but the consumer never
\* prints one twice or an older one after a newer one.
InOrderOnce == \A m, n \in 1 .. Len(received) : m < n => received[m] < received[n]

\* The last sample is received.
LastReceived == received # <<>> /\ received[Len(received)] = SAMPLES
=============================================================================
