-------------------------- MODULE ResourceOrdering --------------------------
(***************************************************************************)
(* d14 ResourceOrderingSystem.c: resources must be requested in increasing   *)
(* priority.  Each process remembers the resource it got last, as main does  *)
(* with current_resource, and a process told "not available" still wants the *)
(* resource.  The program has no operation that gives a resource back.       *)
(***************************************************************************)
EXTENDS Integers

CONSTANTS
    num_resources,
    Processes       \* the clients that call requestResource

ResourceIds == 0 .. num_resources - 1
None == -1

VARIABLES
    available,          \* the resources whose available flag is set
    current_resource,   \* of each process, -1 at first
    owner,              \* history: who was given a resource
    wanted              \* the resource a process was refused as not available

vars == <<available, current_resource, owner, wanted>>

initializeResourceOrdering ==
    /\ available = ResourceIds
    /\ current_resource = [p \in Processes |-> None]
    /\ owner = [r \in ResourceIds |-> None]
    /\ wanted = [p \in Processes |-> None]

Init == initializeResourceOrdering

priority(r) == r

\* Fault: a resource of lower priority than the one held passes.
isValidResourceRequest_AnyOrder(curr, req) == curr = None \/ priority(curr) # priority(req)

isValidResourceRequest(curr, req) == curr = None \/ priority(curr) < priority(req)

RequestInvalid(p, req) ==
    /\ ~isValidResourceRequest(current_resource[p], req)
    /\ UNCHANGED vars

RequestUnavailable(p, req) ==
    /\ isValidResourceRequest(current_resource[p], req)
    /\ req \notin available
    /\ wanted' = [wanted EXCEPT ![p] = req]
    /\ UNCHANGED <<available, current_resource, owner>>

RequestGranted(p, req) ==
    /\ isValidResourceRequest(current_resource[p], req)
    /\ req \in available
    /\ available' = available \ {req}
    /\ current_resource' = [current_resource EXCEPT ![p] = req]
    /\ owner' = [owner EXCEPT ![req] = p]
    /\ wanted' = [wanted EXCEPT ![p] = None]

requestResource(p, req) ==
    RequestInvalid(p, req) \/ RequestUnavailable(p, req) \/ RequestGranted(p, req)

Next == \E p \in Processes, req \in ResourceIds : requestResource(p, req)

Spec == Init /\ [][Next]_vars

-----------------------------------------------------------------------------

\* What the ordering is for: never does each process of a group want a
\* resource that another one of the group holds.
NoDeadlock ==
    \A C \in (SUBSET Processes) \ {{}} :
        ~\A p \in C : wanted[p] # None /\ owner[wanted[p]] \in C \ {p}
=============================================================================
