---------------------------- MODULE SharedCounter ----------------------------
(***************************************************************************)
(* The counter demonstrations: d11 demo_race_condition.c, which runs its     *)
(* threads first without a lock ("none") and then with one lock around the   *)
(* whole loop ("loop"), and the programs of d7, d8 and d9 that lock around   *)
(* each increment ("each").  main runs the modes of Demos one after another. *)
(*                                                                           *)
(* shared_counter++ is a load, an addition in a register and a store.  A     *)
(* build may keep the counter in the register for any number of turns of the *)
(* loop, except across a lock or an unlock.                                  *)
(***************************************************************************)
EXTENDS Integers, Sequences

CONSTANTS
    thread_nums,
    count,          \* turns of each thread's loop
    Demos           \* sequence of modes main demonstrates

Threads == 1 .. thread_nums

VARIABLES
    shared_counter, mutex,      \* mutex: its holder, 0 when it is free
    pc, reg, i,                 \* of each thread
    demo,                       \* the demonstration main is in
    main,                       \* threads created plus threads joined in it
    final                       \* the values main printed

vars == <<shared_counter, mutex, pc, reg, i, demo, main, final>>

Running == demo <= Len(Demos)
Mode == Demos[demo]

Init ==
    /\ shared_counter = 0 /\ mutex = 0
    /\ pc = [t \in Threads |-> "unborn"]
    /\ reg = [t \in Threads |-> 0]
    /\ i = [t \in Threads |-> 0]
    /\ demo = 1 /\ main = 0
    /\ final = <<>>

Goto(t, label) == pc' = [pc EXCEPT ![t] = label]

-----------------------------------------------------------------------------
(* main *)

CreateThread ==
    /\ Running /\ main < thread_nums
    /\ main' = main + 1
    /\ Goto(main + 1, IF Mode = "none" THEN "load" ELSE "lock")
    /\ UNCHANGED <<shared_counter, mutex, reg, i, demo, final>>

JoinThread ==
    /\ Running /\ main \in thread_nums .. 2 * thread_nums - 1
    /\ pc[main - thread_nums + 1] = "done"
    /\ main' = main + 1
    /\ UNCHANGED <<shared_counter, mutex, pc, reg, i, demo, final>>

\* The counter is printed and reset, and the next demonstration starts.
NextDemo ==
    /\ Running /\ main = 2 * thread_nums
    /\ final' = Append(final, shared_counter)
    /\ demo' = demo + 1
    /\ main' = 0
    /\ shared_counter' = 0
    /\ pc' = [t \in Threads |-> "unborn"]
    /\ i' = [t \in Threads |-> 0]
    /\ UNCHANGED <<mutex, reg>>

-----------------------------------------------------------------------------
(* A thread *)

\* Fault: the lock is not waited for.
Lock_NoWait(t) ==
    /\ pc[t] = "lock"
    /\ mutex' = t
    /\ Goto(t, "load")
    /\ UNCHANGED <<shared_counter, reg, i, demo, main, final>>

Lock(t) ==
    /\ pc[t] = "lock" /\ mutex = 0
    /\ mutex' = t
    /\ Goto(t, "load")
    /\ UNCHANGED <<shared_counter, reg, i, demo, main, final>>

Load(t) ==
    /\ pc[t] = "load"
    /\ reg' = [reg EXCEPT ![t] = shared_counter]
    /\ Goto(t, "add")
    /\ UNCHANGED <<shared_counter, mutex, i, demo, main, final>>

\* One turn of the loop in the register, or a few.
Increment(t) ==
    /\ pc[t] = "add"
    /\ \E turns \in IF Mode = "each" THEN {1} ELSE 1 .. count - i[t] :
          /\ reg' = [reg EXCEPT ![t] = @ + turns]
          /\ i' = [i EXCEPT ![t] = @ + turns]
    /\ Goto(t, "store")
    /\ UNCHANGED <<shared_counter, mutex, demo, main, final>>

Store(t) ==
    /\ pc[t] = "store"
    /\ shared_counter' = reg[t]
    /\ Goto(t, IF Mode = "each" THEN "unlock"
               ELSE IF i[t] < count THEN "load"
               ELSE IF Mode = "loop" THEN "unlock" ELSE "done")
    /\ UNCHANGED <<mutex, reg, i, demo, main, final>>

Unlock(t) ==
    /\ pc[t] = "unlock"
    /\ mutex' = 0
    /\ Goto(t, IF i[t] < count THEN "lock" ELSE "done")
    /\ UNCHANGED <<shared_counter, reg, i, demo, main, final>>

increment(t) == Lock(t) \/ Load(t) \/ Increment(t) \/ Store(t) \/ Unlock(t)

Next == CreateThread \/ JoinThread \/ NextDemo \/ \E t \in Threads : increment(t)

-----------------------------------------------------------------------------
(* Properties *)

Least(a, b) == IF a <= b THEN a ELSE b

\* What each demonstration prints: with either way of locking no increment is
\* lost.  Without a lock the loss is not limited to one thread's share: any
\* value down to 2 can come out, but never less (with two threads or more), and
\* never more than all increments.
FinalValues ==
    \A d \in 1 .. Len(final) :
        IF Demos[d] = "none"
        THEN final[d] \in Least(2, count) .. thread_nums * count
        ELSE final[d] = thread_nums * count

Ends == demo = Len(Demos) + 1
=============================================================================
