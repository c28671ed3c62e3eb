-------------------------- MODULE DeadlockRecovery --------------------------
(***************************************************************************)
(* d14 recoverFromDeadlock.c: the process of least effective priority loses  *)
(* its resources, the others grow older.  Recovery is called again as long   *)
(* as some process still holds something.                                    *)
(***************************************************************************)
EXTENDS Integers, FiniteSetsExt

CONSTANTS
    num_processes,
    Resources,
    Priorities,         \* the values of rand() % 10
    AGE_STEP            \* the 10 of age / 10

Processes == 0 .. num_processes - 1

VARIABLES priority, age, resources_held

vars == <<priority, age, resources_held>>

initializeRecovery ==
    /\ priority \in [Processes -> Priorities]
    /\ age = [p \in Processes |-> 0]

\* main then hands out some resources.
Init ==
    /\ initializeRecovery
    /\ resources_held \in [Processes -> SUBSET Resources]

curr_priority(p) == priority[p] - age[p] \div AGE_STEP

\* The first process of least current priority, -1 if there is none.
selectVictimProcess ==
    IF Processes = {} THEN -1
    ELSE CHOOSE v \in Processes :
            \A p \in Processes :
                /\ curr_priority(v) <= curr_priority(p)
                /\ p < v => curr_priority(v) < curr_priority(p)

releaseResources(victim) == resources_held' = [resources_held EXCEPT ![victim] = {}]

\* Fault: the processes that were spared do not age.
recoverFromDeadlock_NoAging ==
    LET victim == selectVictimProcess
    IN  /\ victim # -1
        /\ releaseResources(victim)
        /\ UNCHANGED <<priority, age>>

recoverFromDeadlock ==
    LET victim == selectVictimProcess
    IN  /\ victim # -1
        /\ releaseResources(victim)
        /\ age' = [p \in Processes |-> IF p = victim THEN age[p] ELSE age[p] + 1]
        /\ UNCHANGED priority

Holders == {p \in Processes : resources_held[p] # {}}

Next == Holders # {} /\ recoverFromDeadlock

Spec == Init /\ [][Next]_vars /\ WF_vars(Next)

-----------------------------------------------------------------------------

\* A victim stays in the table and may be chosen over and over, but ageing
\* brings every process down to the others: all resources are released in the
\* end, whatever the priorities.
AllReleased == <>(Holders = {})
=============================================================================
