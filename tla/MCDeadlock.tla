----------------------------- MODULE MCDeadlock -----------------------------
(***************************************************************************)
(* The deadlock tools of d14: the banker's algorithm for three processes and *)
(* two resource types, the wait-for graph, the ordered requests and the      *)
(* recovery.  They are separate programs: tool says which one a behaviour is *)
(* of.  Where a program does not run its variables keep one first value.     *)
(***************************************************************************)
EXTENDS Banker

CONSTANTS
    r1, r2,                 \* the two resource types of the banker
    processes,              \* vertices of the wait-for graph
    num_resources, Clients, \* of the ordered requests
    num_processes, Priorities, AGE_STEP     \* of the recovery

ASSUME DeadlockAssumption ==
    /\ processes \in Nat
    /\ num_resources \in Nat
    /\ -1 \notin Clients     \* -1 is nobody

VARIABLES
    tool,
    matrix, visited, recStack, frames, root, verdict,       \* WaitForGraph
    free, current_resource, owner, wanted,                  \* ResourceOrdering
    priority, age, resources_held                           \* DeadlockRecovery

graphVars == <<matrix, visited, recStack, frames, root, verdict>>
orderingVars == <<free, current_resource, owner, wanted>>
recoveryVars == <<priority, age, resources_held>>
allVars == <<tool, vars, graphVars, orderingVars, recoveryVars>>

Graph == INSTANCE WaitForGraph
Ordering == INSTANCE ResourceOrdering WITH Processes <- Clients, available <- free
Recovery == INSTANCE DeadlockRecovery WITH Resources <- {1}

Pair(a, b) == [r \in Resources |-> IF r = r1 THEN a ELSE b]

MCClaims == {Pair(2, 1), Pair(1, 0), Pair(0, 2)}
MCHoldings == {Pair(a, b) : a \in 0 .. 2, b \in 0 .. 1}
MCPools == {Pair(1, 1), Pair(2, 0)}
MCRequests == {Pair(1, 0), Pair(0, 1), Pair(1, 1), Pair(2, 1)}

NoBanker ==
    /\ Init
    /\ max = [p \in Procs |-> Pair(1, 0)] /\ available = Pair(2, 0)
    /\ allocation = [p \in Procs |-> Pair(0, 0)]
NoGraph ==
    matrix = 0 /\ visited = 0 /\ recStack = 0 /\ frames = 0 /\ root = 0 /\ verdict = 0
NoOrdering == free = 0 /\ current_resource = 0 /\ owner = 0 /\ wanted = 0
NoRecovery == priority = 0 /\ age = 0 /\ resources_held = [p \in Recovery!Processes |-> {}]

MCInit ==
    /\ tool \in {"bankers", "graph", "ordering", "recovery"}
    /\ IF tool = "bankers" THEN Init ELSE NoBanker
    /\ IF tool = "graph" THEN Graph!Init ELSE NoGraph
    /\ IF tool = "ordering" THEN Ordering!Init ELSE NoOrdering
    /\ IF tool = "recovery" THEN Recovery!Init ELSE NoRecovery

MCNext ==
    /\ UNCHANGED tool
    /\ IF tool = "bankers" THEN Next ELSE UNCHANGED vars
    /\ IF tool = "graph" THEN Graph!Next ELSE UNCHANGED graphVars
    /\ IF tool = "ordering" THEN Ordering!Next ELSE UNCHANGED orderingVars
    /\ IF tool = "recovery" THEN Recovery!Next ELSE UNCHANGED recoveryVars

\* A call of requestResources runs on once it is entered, the loop that recovers
\* goes on while there is a victim; nothing makes a process send a request.
MCSpec ==
    /\ MCInit /\ [][MCNext]_allVars
    /\ WF_allVars((tool = "recovery" \/ pc # "idle") /\ MCNext)

-----------------------------------------------------------------------------

\* The depth-first search reports a deadlock exactly when the wait-for graph has
\* a cycle.
SearchExact == tool = "graph" => Graph!SearchExact

\* Requests in increasing priority never end in a circular wait.
OrderingNoDeadlock == tool = "ordering" => Ordering!NoDeadlock

\* Repeated recovery releases the resources of every process.
RecoveryAllReleased == tool = "recovery" => Recovery!AllReleased
=============================================================================
