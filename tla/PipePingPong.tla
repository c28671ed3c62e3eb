---------------------------- MODULE PipePingPong ----------------------------
(***************************************************************************)
(* d6 context_switch_measuring.c: parent and child pass a byte to and fro    *)
(* through one pipe that both write and both read, so either may read back   *)
(* its own byte.                                                             *)
(***************************************************************************)
EXTENDS Integers

CONSTANT NUM_SWITCHES

VARIABLES
    pipe,                   \* bytes in the pipe
    parent, child,          \* "write", "read" or "done"
    parentTurns, childTurns

vars == <<pipe, parent, child, parentTurns, childTurns>>

Init ==
    /\ pipe = 0
    /\ parent = "write" /\ child = "read"
    /\ parentTurns = 0 /\ childTurns = 0

ParentWrite ==
    /\ parent = "write"
    /\ pipe' = pipe + 1
    /\ parent' = "read"
    /\ UNCHANGED <<child, parentTurns, childTurns>>

ParentRead ==
    /\ parent = "read" /\ pipe > 0
    /\ pipe' = pipe - 1
    /\ parentTurns' = parentTurns + 1
    /\ parent' = IF parentTurns' = NUM_SWITCHES THEN "done" ELSE "write"
    /\ UNCHANGED <<child, childTurns>>

\* read blocks: the child holds a write end itself, so it never sees the end
\* of the file.
ChildRead ==
    /\ child = "read" /\ pipe > 0
    /\ pipe' = pipe - 1
    /\ child' = "write"
    /\ UNCHANGED <<parent, parentTurns, childTurns>>

\* Fault: the child does not answer.
ChildWrite_None ==
    /\ child = "write"
    /\ childTurns' = childTurns + 1
    /\ child' = IF childTurns' = NUM_SWITCHES THEN "done" ELSE "read"
    /\ UNCHANGED <<pipe, parent, parentTurns>>

ChildWrite ==
    /\ child = "write"
    /\ pipe' = pipe + 1
    /\ childTurns' = childTurns + 1
    /\ child' = IF childTurns' = NUM_SWITCHES THEN "done" ELSE "read"
    /\ UNCHANGED <<parent, parentTurns>>

ParentLoop == ParentWrite \/ ParentRead
ChildLoop == ChildRead \/ ChildWrite

Next == ParentLoop \/ ChildLoop

-----------------------------------------------------------------------------

\* The measurement ends: the parent reads a byte for each one it writes, its
\* own or the child's answer.  (The child may be left blocked in read.)
ParentReturns == parent = "done"
=============================================================================
