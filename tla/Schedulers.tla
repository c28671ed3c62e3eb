----------------------------- MODULE Schedulers -----------------------------
(***************************************************************************)
(* The schedulers of d4 and d5: fcfs_scheduling, sjf_scheduling,             *)
(* priority_scheduling and round_robin_scheduling, each on any small table   *)
(* of processes.  They are separate programs; algo says which one runs.  One *)
(* step is one turn of the outer loop, for round robin of the inner one.     *)
(*                                                                           *)
(* First come first served and round robin do not look at arrival times.     *)
(* The totals, which are only printed, are left out.                         *)
(*                                                                           *)
(* rival is any other scheduler, preemptive or not, which chooses freely     *)
(* among the processes that have arrived: what shortest job first has to be  *)
(* measured against.                                                         *)
(***************************************************************************)
EXTENDS Integers, Sequences, FiniteSets

CONSTANTS
    n,                  \* processes
    TIME_QUANTUM,
    Arrivals, Bursts, Priorities

VARIABLES
    algo,
    arrival_time, burst_time, priority,
    remaining_time,     \* priority_scheduling counts burst_time itself down
    waiting_time, turnaround_time,
    current_time, completed,
    i,                  \* loop counter of fcfs and round robin
    ran,                \* history: who ran in each unit of time, 0 for nobody
    rival               \* remaining times and completed processes of the rival

table == <<algo, arrival_time, burst_time, priority>>
vars == <<table, remaining_time, waiting_time, turnaround_time, current_time, completed, i,
          ran, rival>>

Procs == 1 .. n
Nobody == 0

\* Every process needs some time: one with burst_time 0 is never completed by
\* any of the loops of d5.
Init ==
    /\ algo \in {"fcfs", "sjf", "priority", "rr"}
    /\ arrival_time \in [Procs -> Arrivals]
    /\ burst_time \in [Procs -> Bursts \ {0}]
    /\ IF algo = "priority" THEN priority \in [Procs -> Priorities]
       ELSE priority = [p \in Procs |-> 0]
    /\ remaining_time = burst_time
    /\ waiting_time = [p \in Procs |-> 0]
    /\ turnaround_time = [p \in Procs |-> 0]
    /\ current_time = 0 /\ completed = 0 /\ i = 1
    /\ ran = <<>>
    /\ rival = [remaining |-> burst_time, completed |-> 0]

-----------------------------------------------------------------------------
(* fcfs_scheduling *)

fcfs_scheduling ==
    LET wait == IF i = 1 THEN 0 ELSE waiting_time[i - 1] + burst_time[i - 1]
    IN  /\ algo = "fcfs" /\ i <= n
        /\ waiting_time' = [waiting_time EXCEPT ![i] = wait]
        /\ turnaround_time' = [turnaround_time EXCEPT ![i] = wait + burst_time[i]]
        /\ i' = i + 1
        /\ UNCHANGED <<table, remaining_time, current_time, completed, ran, rival>>

-----------------------------------------------------------------------------
(* sjf_scheduling and priority_scheduling *)

Ready == {p \in Procs : arrival_time[p] <= current_time /\ remaining_time[p] > 0}

\* The first process of least key.
FirstLeast(S, key) ==
    CHOOSE p \in S : \A q \in S : key[p] < key[q] \/ (key[p] = key[q] /\ p <= q)

IdleTick ==
    /\ Ready = {}
    /\ ran' = Append(ran, Nobody)
    /\ UNCHANGED <<remaining_time, waiting_time, turnaround_time, completed>>

\* left is what the formula for the waiting time subtracts besides the arrival.
RunTick(p, left) ==
    /\ remaining_time' = [remaining_time EXCEPT ![p] = @ - 1]
    /\ ran' = Append(ran, p)
    /\ IF remaining_time[p] = 1
       THEN /\ completed' = completed + 1
            /\ waiting_time' = [waiting_time EXCEPT
                    ![p] = current_time + 1 - left - arrival_time[p]]
            /\ turnaround_time' = [turnaround_time EXCEPT
                    ![p] = current_time + 1 - arrival_time[p]]
       ELSE UNCHANGED <<completed, waiting_time, turnaround_time>>

RivalTick ==
    \/ UNCHANGED rival
    \/ \E p \in Procs :
          /\ arrival_time[p] <= current_time /\ rival.remaining[p] > 0
          /\ rival' = [remaining |-> [rival.remaining EXCEPT ![p] = @ - 1],
                       completed |-> IF rival.remaining[p] = 1 THEN rival.completed + 1
                                     ELSE rival.completed]

\* Fault: the job that needs most time goes first.
shortest_job_Longest ==
    FirstLeast(Ready, [p \in Procs |-> 0 - remaining_time[p]])

shortest_job == FirstLeast(Ready, remaining_time)

sjf_scheduling ==
    /\ algo = "sjf" /\ completed # n
    /\ IF Ready = {} THEN IdleTick ELSE RunTick(shortest_job, burst_time[shortest_job])
    /\ RivalTick
    /\ current_time' = current_time + 1
    /\ UNCHANGED <<table, i>>

selected_process == FirstLeast(Ready, priority)

\* The burst_time of the formula is the one counted down, 0 by now.
priority_scheduling ==
    /\ algo = "priority" /\ completed < n
    /\ IF Ready = {} THEN IdleTick ELSE RunTick(selected_process, 0)
    /\ current_time' = current_time + 1
    /\ UNCHANGED <<table, i, rival>>

-----------------------------------------------------------------------------
(* round_robin_scheduling *)

execute_time == IF remaining_time[i] < TIME_QUANTUM THEN remaining_time[i] ELSE TIME_QUANTUM

RoundRobinTurn ==
    /\ remaining_time' = [remaining_time EXCEPT ![i] = @ - execute_time]
    /\ current_time' = current_time + execute_time
    /\ ran' = ran \o [k \in 1 .. execute_time |-> i]
    /\ IF remaining_time'[i] = 0
       THEN /\ completed' = completed + 1
            /\ turnaround_time' = [turnaround_time EXCEPT ![i] = current_time' - arrival_time[i]]
            /\ waiting_time' = [waiting_time EXCEPT ![i] = turnaround_time'[i] - burst_time[i]]
       ELSE UNCHANGED <<completed, turnaround_time, waiting_time>>

\* The outer loop tests completed before each pass over the processes.
round_robin_scheduling ==
    /\ algo = "rr" /\ (i > 1 \/ completed < n)
    /\ IF remaining_time[i] > 0 THEN RoundRobinTurn
       ELSE UNCHANGED <<remaining_time, current_time, ran, completed, turnaround_time, waiting_time>>
    /\ i' = (i % n) + 1
    /\ UNCHANGED <<table, rival>>

Next ==
    fcfs_scheduling \/ sjf_scheduling \/ priority_scheduling \/ round_robin_scheduling

-----------------------------------------------------------------------------
(* Properties *)

UnitsOf(p) == {t \in 1 .. Len(ran) : ran[t] = p}
FinishOf(p) == CHOOSE t \in UnitsOf(p) : \A u \in UnitsOf(p) : u <= t
Finished(p) == Cardinality(UnitsOf(p)) = burst_time[p]

\* Units of time up to its end in which p did not run.
Passed(p) == FinishOf(p) - burst_time[p]

\* Work left for p at the beginning of unit t.
LeftAt(p, t) == burst_time[p] - Cardinality({u \in UnitsOf(p) : u < t})

\* The reported times are those of the schedule that was run: the turnaround times of
\* all three schedulers, the waiting times of shortest job first and round robin.
\* (Round robin starts processes before they arrive and may report negative ones.)
\* What priority_scheduling reports as waiting time is wrong, so nothing is claimed
\* of it: it repeats the turnaround time.
TimesExact ==
    \A p \in Procs : (algo # "fcfs" /\ Finished(p)) =>
        /\ turnaround_time[p] = FinishOf(p) - arrival_time[p]
        /\ algo # "priority" => waiting_time[p] = Passed(p) - arrival_time[p]

\* Nobody waits while a process of lower priority runs or no process runs.
PriorityRespected ==
    algo = "priority" =>
        \A t \in 1 .. Len(ran), q \in Procs :
            (arrival_time[q] < t /\ LeftAt(q, t) > 0) =>
                ran[t] # Nobody /\ priority[ran[t]] <= priority[q]

\* At every moment shortest job first has completed as many processes as any
\* other scheduler could have: it therefore has the least total waiting time.
ShortestJobBest == algo = "sjf" => completed >= rival.completed

\* A process with work left waits for at most one quantum of each of the others.
NoStarvation ==
    algo = "rr" =>
        \A p \in Procs : LeftAt(p, Len(ran) + 1) > 0 =>
            \/ Len(ran) <= (n - 1) * TIME_QUANTUM
            \/ \E t \in Len(ran) - (n - 1) * TIME_QUANTUM .. Len(ran) : ran[t] = p

\* First come first served adds up the bursts so far.
QueueTimes ==
    LET total[p \in 0 .. n] == IF p = 0 THEN 0 ELSE total[p - 1] + burst_time[p]
    IN  algo = "fcfs" => \A p \in 1 .. i - 1 : turnaround_time[p] = total[p]

SchedulesKept ==
    TimesExact /\ PriorityRespected /\ ShortestJobBest /\ NoStarvation /\ QueueTimes
=============================================================================
