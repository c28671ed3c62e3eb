----------------------- MODULE ResourceAllocationGraph -----------------------
(***************************************************************************)
(* d14 Resource_Allocation_Graph.c: detectDeadLock, which lets processes     *)
(* complete one after the other and reports those that cannot.  One step is  *)
(* one turn of the inner for loop; a row of a matrix is a vector over the    *)
(* resources.  The entries of work are ints of Width bits.                   *)
(***************************************************************************)
EXTENDS Integers

CONSTANTS
    processes, Resources,
    Units,          \* the numbers main may put into the rows of its matrices
    Width           \* bits of an int

Procs == 0 .. processes - 1
Rows == [Resources -> Units]

VARIABLES
    allocation, request, available,
    work, finish, i, found,
    verdict         \* "none" while it runs, then "deadlock" or "clear"

graph == <<allocation, request, available>>
vars == <<graph, work, finish, i, found, verdict>>

\* The addition of the build: two's complement, if it overflows.
Wrap(n) == ((n + 2 ^ (Width - 1)) % 2 ^ Width) - 2 ^ (Width - 1)

Init ==
    /\ allocation \in [Procs -> Rows]
    /\ request \in [Procs -> Rows]
    /\ available \in Rows
    /\ work = available
    /\ finish = {}
    /\ i = 0
    /\ found = FALSE
    /\ verdict = "none"

canComplete(p) == \A r \in Resources : request[p][r] <= work[r]

\* One turn of the for loop.
Visit ==
    /\ verdict = "none" /\ i < processes
    /\ IF canComplete(i)
       THEN /\ work' = [r \in Resources |-> Wrap(work[r] + allocation[i][r])]
            /\ finish' = finish \cup {i}
            /\ found' = TRUE
       ELSE UNCHANGED <<work, finish, found>>
    /\ i' = i + 1
    /\ UNCHANGED <<graph, verdict>>

\* while (found)
Again ==
    /\ verdict = "none" /\ i = processes /\ found
    /\ i' = 0
    /\ found' = FALSE
    /\ UNCHANGED <<graph, work, finish, verdict>>

Return ==
    /\ verdict = "none" /\ i = processes /\ ~found
    /\ verdict' = IF finish = Procs THEN "clear" ELSE "deadlock"
    /\ UNCHANGED <<graph, work, finish, i, found>>

detectDeadLock == Visit \/ Again \/ Return

Next == detectDeadLock

\* Sequential code: it runs on.
Spec == Init /\ [][Next]_vars /\ WF_vars(Next)

-----------------------------------------------------------------------------

\* The loop is to find an unfinished process that can be completed, as its
\* comment says, so it completes each process once at most and comes to an end
\* with a verdict.
DetectionReturns == <>(verdict # "none")
=============================================================================
