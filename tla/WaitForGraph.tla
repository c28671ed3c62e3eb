---------------------------- MODULE WaitForGraph ----------------------------
(***************************************************************************)
(* d14 Wait-for_graph.c: detectDeadLock looks for a cycle with a depth-first *)
(* search.  The C call stack of detectCycleDFS is the sequence frames, whose *)
(* last element is the running call: its vertex and its loop counter i.      *)
(***************************************************************************)
EXTENDS Integers, Sequences

CONSTANT processes          \* graph->processes

Vertices == 0 .. processes - 1

VARIABLES
    matrix,         \* the edges: matrix[v] is the set of w with matrix[v][w] != 0
    visited, recStack,
    frames,
    root,           \* the loop counter of detectDeadLock
    verdict         \* "none" while it runs, then "cycle" or "clear"

vars == <<matrix, visited, recStack, frames, root, verdict>>

TypeOK ==
    /\ matrix \in [Vertices -> SUBSET Vertices]
    /\ visited \subseteq Vertices
    /\ recStack \subseteq visited
    /\ frames \in Seq([vertex : Vertices, i : 0 .. processes])
    /\ root \in 0 .. processes
    /\ verdict \in {"none", "cycle", "clear"}

\* main sets any edges after initializeWFG; the search starts from scratch.
Init ==
    /\ matrix \in [Vertices -> SUBSET Vertices]
    /\ visited = {} /\ recStack = {}
    /\ frames = <<>>
    /\ root = 0
    /\ verdict = "none"

Top == frames[Len(frames)]
Running == verdict = "none" /\ frames # <<>>

\* detectCycleDFS(v) for an unvisited v.
Enter(v, stack) ==
    /\ visited' = visited \cup {v}
    /\ recStack' = recStack \cup {v}
    /\ frames' = Append(stack, [vertex |-> v, i |-> 0])

NextI == [frames EXCEPT ![Len(frames)].i = @ + 1]

\* The outer loop calls detectCycleDFS(root), which does nothing but clear
\* recStack[root] when root was visited before.
StartRoot ==
    /\ verdict = "none" /\ frames = <<>> /\ root < processes
    /\ \/ /\ root \notin visited
          /\ Enter(root, frames)
       \/ /\ root \in visited
          /\ recStack' = recStack \ {root}
          /\ UNCHANGED <<visited, frames>>
    /\ root' = root + 1
    /\ UNCHANGED <<matrix, verdict>>

SkipVertex ==
    /\ Running /\ Top.i < processes /\ Top.i \notin matrix[Top.vertex]
    /\ frames' = NextI
    /\ UNCHANGED <<matrix, visited, recStack, root, verdict>>

\* An unvisited neighbour: the recursive call.  When it returns 0 the caller is
\* still at the same i, and finds the neighbour visited and off the stack.
Descend ==
    /\ Running /\ Top.i < processes /\ Top.i \in matrix[Top.vertex]
    /\ Top.i \notin visited
    /\ Enter(Top.i, frames)
    /\ UNCHANGED <<matrix, root, verdict>>

\* Fault: every visited neighbour is taken for one on the current path.
VisitedNeighbour_AnyVisited ==
    /\ Running /\ Top.i < processes /\ Top.i \in matrix[Top.vertex]
    /\ Top.i \in visited
    /\ verdict' = "cycle"
    /\ UNCHANGED <<matrix, visited, recStack, frames, root>>

\* A visited neighbour: on the current path it closes a cycle, and 1 is
\* returned through all the calls.
VisitedNeighbour ==
    /\ Running /\ Top.i < processes /\ Top.i \in matrix[Top.vertex]
    /\ Top.i \in visited
    /\ \/ /\ Top.i \in recStack
          /\ verdict' = "cycle"
          /\ UNCHANGED frames
       \/ /\ Top.i \notin recStack
          /\ frames' = NextI
          /\ UNCHANGED verdict
    /\ UNCHANGED <<matrix, visited, recStack, root>>

\* The end of the loop over neighbours: return 0.
Leave ==
    /\ Running /\ Top.i = processes
    /\ recStack' = recStack \ {Top.vertex}
    /\ frames' = SubSeq(frames, 1, Len(frames) - 1)
    /\ UNCHANGED <<matrix, visited, root, verdict>>

detectCycleDFS == SkipVertex \/ Descend \/ VisitedNeighbour \/ Leave

AllRootsDone ==
    /\ verdict = "none" /\ frames = <<>> /\ root = processes
    /\ verdict' = "clear"
    /\ UNCHANGED <<matrix, visited, recStack, frames, root>>

detectDeadLock == StartRoot \/ detectCycleDFS \/ AllRootsDone

Next == detectDeadLock

Spec == Init /\ [][Next]_vars

-----------------------------------------------------------------------------
(* Properties *)

\* Some processes wait only for one another.
Deadlocked ==
    \E C \in (SUBSET Vertices) \ {{}} : \A v \in C : matrix[v] \cap C # {}

\* The search says "cycle" exactly for the wait-for graphs with a deadlock: a
\* vertex left behind by an earlier call is neither searched again nor taken
\* for one on the current path.
SearchExact ==
    /\ verdict = "cycle" => Deadlocked
    /\ verdict = "clear" => ~Deadlocked
=============================================================================
