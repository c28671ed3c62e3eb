------------------------------- MODULE Banker -------------------------------
(***************************************************************************)
(* d14 Safety_algorithm.c and Banker_algorithm.c: the scan of isSafe, one    *)
(* step for each process the for loop looks at (both programs hold it), and  *)
(* requestResources on top of it.  After main has filled in the matrices,    *)
(* processes send requests in any order; each call validates, allocates      *)
(* tentatively, scans, and grants or rolls back.  The program is             *)
(* sequential: a call ends before the next.                                  *)
(*                                                                           *)
(* The C loops over resources touch each resource on its own, so a row of a  *)
(* matrix is a vector [Resources -> Int] and a loop is one vector operation. *)
(***************************************************************************)
EXTENDS Integers, Sequences

CONSTANTS
    P,              \* state->processes
    Resources,      \* the resource types 0 .. state->resources - 1
    Claims,         \* the rows main may give a process as maximum claim
    Holdings,       \* the rows main may give a process as allocation
    Pools,          \* the values main may give available
    Requests        \* the vectors a process may pass as request[]

Procs == 0 .. P - 1
Vectors == [Resources -> Nat]

ASSUME BankerAssumption ==
    /\ P \in Nat
    /\ Claims \subseteq Vectors
    /\ Holdings \subseteq Vectors
    /\ Pools \subseteq Vectors

ASSUME RequestAssumption == Requests \subseteq Vectors

VARIABLES
    max, allocation, need, available,
    work,           \* the local variable of isSafe
    finish,         \* the processes whose entry of finish[] is set
    safeSequence,   \* the entries 0 .. count - 1 of safeSequence[]
    i, found,       \* the local variables of the loop
    trail,          \* history: the values work has had during the scan
    pc,             \* "idle", or inside isSafe called by main ("check") or by "request"
    caller,         \* process_id and request of the call in progress
    before          \* history: allocation, need and available when it began

matrices == <<max, allocation, need, available>>
locals == <<work, finish, safeSequence, i, found, trail>>
vars == <<matrices, locals, pc, caller, before>>

Leq(a, b) == \A r \in Resources : a[r] <= b[r]
Add(a, b) == [r \in Resources |-> a[r] + b[r]]
Sub(a, b) == [r \in Resources |-> a[r] - b[r]]

\* main: the two matrices and available are filled in, with every process
\* inside its claim, and need is calculated from them.
calculateNeed == need = [p \in Procs |-> Sub(max[p], allocation[p])]

initializeBankers ==
    /\ max \in [Procs -> Claims]
    /\ allocation \in [Procs -> Holdings]
    /\ \A p \in Procs : Leq(allocation[p], max[p])
    /\ available \in Pools
    /\ calculateNeed

NoCall == [process |-> 0, request |-> [r \in Resources |-> 0]]
State == [allocation |-> allocation, need |-> need, available |-> available]

TypeOK ==
    /\ max \in [Procs -> Vectors]
    /\ allocation \in [Procs -> Vectors]
    /\ need \in [Procs -> Vectors]
    /\ available \in Vectors
    /\ work \in Vectors
    /\ finish \subseteq Procs
    /\ safeSequence \in Seq(Procs) /\ Len(safeSequence) <= P
    /\ i \in 0 .. P
    /\ found \in BOOLEAN
    /\ trail \in Seq(Vectors)
    /\ pc \in {"idle", "check", "request"}
    /\ pc = "request" => caller \in [process : Procs, request : Requests]

Init ==
    /\ initializeBankers
    /\ work = available
    /\ finish = {}
    /\ safeSequence = <<>>
    /\ i = 0
    /\ found = FALSE
    /\ trail = <<available>>
    /\ pc = "idle"
    /\ caller = NoCall
    /\ before = State

-----------------------------------------------------------------------------
(* isSafe *)

\* Entry: work is a copy of available and nothing is finished.
ScanEnter ==
    /\ work' = available'
    /\ finish' = {}
    /\ safeSequence' = <<>>
    /\ i' = 0
    /\ found' = FALSE
    /\ trail' = <<available'>>

canAllocate(p) == Leq(need[p], work)
count == Len(safeSequence)

\* Fault: finish[i] is not tested, as in Resource_Allocation_Graph.c.
ScanVisit_Again ==
    /\ i < P
    /\ IF canAllocate(i)
       THEN /\ work' = Add(work, allocation[i])
            /\ safeSequence' = Append(safeSequence, i)
            /\ finish' = finish \cup {i}
            /\ found' = TRUE
            /\ trail' = Append(trail, work')
       ELSE UNCHANGED <<work, safeSequence, finish, found, trail>>
    /\ i' = i + 1

\* Fault: need is not compared with work.
ScanVisit_NoTest ==
    /\ i < P
    /\ IF i \notin finish
       THEN /\ work' = Add(work, allocation[i])
            /\ safeSequence' = Append(safeSequence, i)
            /\ finish' = finish \cup {i}
            /\ found' = TRUE
            /\ trail' = Append(trail, work')
       ELSE UNCHANGED <<work, safeSequence, finish, found, trail>>
    /\ i' = i + 1

\* One turn of the for loop: an unfinished process whose need can be met is
\* taken to run to its end and to give back what it holds.
ScanVisit ==
    /\ i < P
    /\ IF i \notin finish /\ canAllocate(i)
       THEN /\ work' = Add(work, allocation[i])
            /\ safeSequence' = Append(safeSequence, i)
            /\ finish' = finish \cup {i}
            /\ found' = TRUE
            /\ trail' = Append(trail, work')
       ELSE UNCHANGED <<work, safeSequence, finish, found, trail>>
    /\ i' = i + 1

\* Fault: a turn of the loop in which nothing was found is followed by another.
ScanAgain_NoGiveUp ==
    /\ i = P /\ count < P
    /\ i' = 0
    /\ found' = FALSE
    /\ UNCHANGED <<work, finish, safeSequence, trail>>

\* The end of the for loop, with some process still to finish: once more.
ScanAgain ==
    /\ i = P /\ found /\ count < P
    /\ i' = 0
    /\ found' = FALSE
    /\ UNCHANGED <<work, finish, safeSequence, trail>>

\* isSafe returns: all processes finished, or a whole turn found none.
ScanSafe == i = P /\ count >= P
ScanUnsafe == i = P /\ count < P /\ ~found

-----------------------------------------------------------------------------
(* requestResources *)

valid(p, request) == Leq(request, need[p]) /\ Leq(request, available)

\* An invalid request returns FALSE and changes nothing.
RequestInvalid(p, request) ==
    /\ pc = "idle"
    /\ ~valid(p, request)
    /\ UNCHANGED vars

\* A valid one is allocated tentatively and isSafe is called.
RequestTry(p, request) ==
    /\ pc = "idle"
    /\ valid(p, request)
    /\ before' = State
    /\ caller' = [process |-> p, request |-> request]
    /\ available' = Sub(available, request)
    /\ allocation' = [allocation EXCEPT ![p] = Add(@, request)]
    /\ need' = [need EXCEPT ![p] = Sub(@, request)]
    /\ UNCHANGED max
    /\ ScanEnter
    /\ pc' = "request"

isSafe ==
    /\ pc # "idle"
    /\ ScanVisit \/ ScanAgain
    /\ UNCHANGED <<matrices, pc, caller, before>>

Return ==
    /\ pc' = "idle"
    /\ caller' = NoCall
    /\ UNCHANGED <<max, locals, before>>

RequestGranted ==
    /\ pc = "request" /\ ScanSafe
    /\ Return
    /\ UNCHANGED <<allocation, need, available>>

\* Fault: the rollback leaves need as it is.
RequestDenied_KeepNeed ==
    /\ pc = "request" /\ ScanUnsafe
    /\ available' = Add(available, caller.request)
    /\ allocation' = [allocation EXCEPT ![caller.process] = Sub(@, caller.request)]
    /\ UNCHANGED need
    /\ Return

\* Fault: what is taken back from the process is not put back in the pool.
RequestDenied_Leak ==
    /\ pc = "request" /\ ScanUnsafe
    /\ allocation' = [allocation EXCEPT ![caller.process] = Sub(@, caller.request)]
    /\ need' = [need EXCEPT ![caller.process] = Add(@, caller.request)]
    /\ UNCHANGED available
    /\ Return

\* Unsafe: everything the tentative allocation did is undone.
RequestDenied ==
    /\ pc = "request" /\ ScanUnsafe
    /\ available' = Add(available, caller.request)
    /\ allocation' = [allocation EXCEPT ![caller.process] = Sub(@, caller.request)]
    /\ need' = [need EXCEPT ![caller.process] = Add(@, caller.request)]
    /\ Return

\* main also calls isSafe on its own, for what it prints.
CheckEnter ==
    /\ pc = "idle"
    /\ UNCHANGED <<matrices, caller, before>>
    /\ ScanEnter
    /\ pc' = "check"

CheckReturn ==
    /\ pc = "check" /\ (ScanSafe \/ ScanUnsafe)
    /\ Return
    /\ UNCHANGED <<allocation, need, available>>

requestResources(p, request) == RequestInvalid(p, request) \/ RequestTry(p, request)

Next ==
    \/ \E p \in Procs, request \in Requests : requestResources(p, request)
    \/ CheckEnter
    \/ isSafe
    \/ CheckReturn \/ RequestGranted \/ RequestDenied

Spec == Init /\ [][Next]_vars

\* The call is sequential code: once entered it runs on.
FairSpec == Spec /\ WF_vars(isSafe \/ CheckReturn \/ RequestGranted \/ RequestDenied)

-----------------------------------------------------------------------------
(* Properties *)

\* The reference definition of a safe state: some order of all the processes in
\* which each can get all it may still need from the pool and from what the
\* ones before it held.
Orders == {s \in [1 .. P -> Procs] : \A j, k \in 1 .. P : s[j] = s[k] => j = k}

Pool(state, s) ==
    LET pool[k \in 0 .. P] ==
            IF k = 0 THEN state.available ELSE Add(pool[k - 1], state.allocation[s[k]])
    IN  pool

SafeState(state) ==
    \E s \in Orders : \A k \in 1 .. P : Leq(state.need[s[k]], Pool(state, s)[k - 1])

\* The greedy scan of isSafe, which never goes back on a choice, decides exactly
\* whether the state it is called in is safe: no safe request is denied and no
\* unsafe one is granted.
VerdictExact ==
    pc # "idle" => /\ ScanSafe => SafeState(State)
                   /\ ScanUnsafe => ~SafeState(State)

\* From a safe start no sequence of requests, granted, denied or invalid, ever
\* leaves the processes in a state that can deadlock.
SafetyKept == SafeState(State) => [](pc = "idle" => SafeState(State))

\* A denied request has no effect: when requestResources returns with isSafe
\* false, allocation, need and available are what they were at the call.
RollbackExact == [][pc = "request" /\ ScanUnsafe => State' = before]_vars

\* No step, the tentative allocation and its rollback included, makes or loses
\* a unit of a resource, and need stays what is missing to the claim.
Held(r) ==
    LET sum[k \in 0 .. P] == IF k = 0 THEN 0 ELSE sum[k - 1] + allocation[k - 1][r]
    IN  sum[P]
Total == [r \in Resources |-> available[r] + Held(r)]
Conservation ==
    [][Total' = Total /\ \A p \in Procs : need'[p] = Sub(max'[p], allocation'[p])]_vars

\* isSafe comes to an end: every turn of its while loop finishes a process.
RequestsReturn == pc # "idle" ~> pc = "idle"
=============================================================================
