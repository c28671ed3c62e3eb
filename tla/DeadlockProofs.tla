--------------------------- MODULE DeadlockProofs ---------------------------
(***************************************************************************)
(* The deadlock tools of d14, for all sizes.  The banker: isSafe decides     *)
(* exactly whether a state is safe, a denied request leaves no trace, no     *)
(* unit is lost, and a system that starts safe stays safe.  The wait-for     *)
(* graph: the search says "cycle" exactly when there is one.  Ordered        *)
(* requests: no circular wait.                                               *)
(***************************************************************************)
EXTENDS MCDeadlock, FiniteSetTheorems, SequenceTheorems, WellFoundedInduction,
        TLAPS

-----------------------------------------------------------------------------
(* Vectors *)

\* Sums and differences of vectors are vectors, and take each other back.
LEMMA VectorOps ==
    ASSUME NEW a \in Vectors, NEW b \in Vectors
    PROVE  /\ Add(a, b) \in Vectors
           /\ Leq(b, a) => Sub(a, b) \in Vectors
           /\ Add(Sub(a, b), b) = a
           /\ Sub(Add(a, b), b) = a
<1>1. Add(a, b) \in Vectors
  BY DEF Add, Vectors
<1>2. Leq(b, a) => Sub(a, b) \in Vectors
  <2> SUFFICES ASSUME Leq(b, a) PROVE Sub(a, b) \in Vectors
    OBVIOUS
  <2>1. \A r \in Resources : a[r] \in Nat /\ b[r] \in Nat /\ b[r] <= a[r]
    BY DEF Vectors, Leq
  <2>2. \A r \in Resources : a[r] - b[r] \in Nat
    BY <2>1
  <2>3. QED BY <2>2 DEF Sub, Vectors
<1>3. Add(Sub(a, b), b) = a
  BY DEF Add, Sub, Vectors
<1>4. Sub(Add(a, b), b) = a
  BY DEF Add, Sub, Vectors
<1>5. QED BY <1>1, <1>2, <1>3, <1>4

\* Giving b to a process moves its need away from its claim by as much as it
\* moves its allocation towards it.
LEMMA NeedMoves ==
    ASSUME NEW m \in Vectors, NEW a \in Vectors, NEW b \in Vectors
    PROVE  Sub(Sub(m, a), b) = Sub(m, Add(a, b))
BY DEF Sub, Add, Vectors

-----------------------------------------------------------------------------
(* The recursive definition of the pool along an order of the processes. *)

\* Every non-empty set of naturals has a least member.
LEMMA LeastNatural ==
    ASSUME NEW T, T \subseteq Nat, T # {}
    PROVE  \E x \in T : \A y \in T : x <= y
<1>1. PICK x \in T : \A y \in T : ~(<<y, x>> \in OpToRel(<, Nat))
  BY WFMin, NatLessThanWellFounded
<1>2. \A y \in T : ~(y < x)
  BY <1>1 DEF OpToRel
<1>3. \A y \in T : x <= y
  BY <1>2
<1>4. QED BY <1>3

\* The values of t start at available and grow by the allocation of one process
\* after the other.
IsPool(t, state, s) ==
    t = [k \in 0 .. P |-> IF k = 0 THEN state.available
                          ELSE Add(t[k - 1], state.allocation[s[k]])]

\* Then they are the pool.
LEMMA PoolUnique ==
    ASSUME NEW state, NEW s, NEW t, IsPool(t, state, s)
    PROVE  \A k \in 0 .. P : Pool(state, s)[k] = t[k]
<1> DEFINE pool == Pool(state, s)
<1>1. pool = [k \in 0 .. P |-> IF k = 0 THEN state.available
                               ELSE Add(pool[k - 1], state.allocation[s[k]])]
  <2>1. \E x : IsPool(x, state, s)
    OBVIOUS
  <2>2. QED BY <2>1 DEF Pool, IsPool
<1> HIDE DEF pool
<1> DEFINE T == {k \in 0 .. P : pool[k] # t[k]}
<1>2. CASE T # {}
  <2>1. PICK k \in T : \A j \in T : k <= j
    <3>1. T \subseteq Nat
      BY BankerAssumption
    <3> HIDE DEF T
    <3>2. QED BY <1>2, <3>1, LeastNatural
  <2>2. k \in 0 .. P /\ P \in Nat
    BY <2>1, BankerAssumption
  <2>3. CASE k = 0
    BY <1>1, <2>1, <2>2, <2>3 DEF IsPool
  <2>4. CASE k # 0
    <3>1. k - 1 \in 0 .. P /\ ~(k <= k - 1)
      BY <2>2, <2>4
    <3>2. pool[k - 1] = t[k - 1]
      BY <2>1, <3>1
    <3>3. pool[k] = Add(pool[k - 1], state.allocation[s[k]])
      BY <1>1, <2>2, <2>4
    <3>4. t[k] = Add(t[k - 1], state.allocation[s[k]])
      BY <2>2, <2>4 DEF IsPool
    <3>5. pool[k] = t[k]
      BY <3>2, <3>3, <3>4
    <3>6. QED BY <2>1, <3>5
  <2>5. QED BY <2>3, <2>4
<1>3. CASE T = {}
  BY <1>3 DEF pool
<1>4. QED BY <1>2, <1>3

-----------------------------------------------------------------------------
(* The inductive invariant *)

\* need is what is missing to the claim.
NeedOK == need = [p \in Procs |-> Sub(max[p], allocation[p])]

\* During requestResources the matrices are those at the call, with the request
\* moved from the pool to the caller.
Tentative ==
    pc = "request" =>
        /\ before \in [allocation : [Procs -> Vectors], need : [Procs -> Vectors],
                       available : Vectors]
        /\ available = Sub(before.available, caller.request)
        /\ allocation = [before.allocation EXCEPT
                            ![caller.process] = Add(@, caller.request)]
        /\ need = [before.need EXCEPT ![caller.process] = Sub(@, caller.request)]

\* The scan has put each process in the sequence once, each when the pool left
\* by the ones before it covered its need.
Scanned ==
    pc # "idle" =>
        /\ Len(trail) = Len(safeSequence) + 1
        /\ trail[1] = available
        /\ work = trail[Len(safeSequence) + 1]
        /\ \A k \in 1 .. Len(safeSequence) :
              /\ trail[k + 1] = Add(trail[k], allocation[safeSequence[k]])
              /\ Leq(need[safeSequence[k]], trail[k])
              /\ safeSequence[k] \in finish
        /\ \A j, k \in 1 .. Len(safeSequence) :
              safeSequence[j] = safeSequence[k] => j = k

Counted == IsFiniteSet(finish) /\ Cardinality(finish) = Len(safeSequence)

IInv == TypeOK /\ NeedOK /\ Tentative /\ Scanned /\ Counted

\* The matrices main fills in satisfy the invariant before any scan.
LEMMA InitInv == Init => IInv
<1> SUFFICES ASSUME Init PROVE IInv
  OBVIOUS
<1>1. max \in [Procs -> Vectors] /\ allocation \in [Procs -> Vectors] /\ available \in Vectors
  BY BankerAssumption DEF Init, initializeBankers
<1>2. \A p \in Procs : Sub(max[p], allocation[p]) \in Vectors
  BY <1>1, VectorOps DEF Init, initializeBankers
<1>3. NeedOK
  BY DEF Init, initializeBankers, calculateNeed, NeedOK
<1>4. need \in [Procs -> Vectors]
  BY <1>2, <1>3 DEF NeedOK
<1>5. TypeOK
  <2>1. safeSequence \in Seq(Procs) /\ Len(safeSequence) <= P /\ i \in 0 .. P
    BY BankerAssumption DEF Init
  <2>2. trail \in Seq(Vectors)
    BY <1>1 DEF Init
  <2>3. work \in Vectors /\ finish \subseteq Procs /\ found \in BOOLEAN /\ pc = "idle"
    BY <1>1 DEF Init
  <2>4. QED BY <1>1, <1>4, <2>1, <2>2, <2>3 DEF TypeOK
<1>6. Tentative /\ Scanned
  BY DEF Init, Tentative, Scanned
<1>7. Counted
  BY FS_EmptySet DEF Init, Counted
<1>8. QED BY <1>3, <1>5, <1>6, <1>7 DEF IInv

\* Entering isSafe establishes what the scan maintains.
LEMMA EnterInv ==
    ASSUME ScanEnter, available' \in Vectors
    PROVE  Scanned' /\ Counted' /\ work' \in Vectors /\ finish' \subseteq Procs
           /\ safeSequence' \in Seq(Procs) /\ Len(safeSequence') <= P
           /\ i' \in 0 .. P /\ found' \in BOOLEAN /\ trail' \in Seq(Vectors)
<1>1. /\ work' = available' /\ finish' = {} /\ safeSequence' = <<>> /\ i' = 0
      /\ found' = FALSE /\ trail' = <<available'>>
  BY DEF ScanEnter
<1>2. Scanned'
  BY <1>1 DEF Scanned
<1>3. Counted'
  BY <1>1, FS_EmptySet DEF Counted
<1>4. /\ safeSequence' \in Seq(Procs) /\ Len(safeSequence') <= P /\ i' \in 0 .. P
  BY <1>1, BankerAssumption
<1>5. trail' \in Seq(Vectors)
  BY <1>1
<1>6. work' \in Vectors /\ finish' \subseteq Procs /\ found' \in BOOLEAN
  BY <1>1
<1>7. QED BY <1>2, <1>3, <1>4, <1>5, <1>6

\* The tentative allocation of requestResources keeps the matrices in type and
\* need in step with the claim, and remembers the state at the call.
LEMMA TryInv ==
    ASSUME IInv, NEW p \in Procs, NEW request \in Requests, RequestTry(p, request)
    PROVE  IInv'
<1> USE DEF IInv
<1>1. /\ request \in Vectors /\ need[p] \in Vectors /\ allocation[p] \in Vectors
      /\ available \in Vectors /\ Leq(request, need[p]) /\ Leq(request, available)
  BY RequestAssumption DEF TypeOK, RequestTry, valid
<1>2. /\ Sub(available, request) \in Vectors /\ Add(allocation[p], request) \in Vectors
      /\ Sub(need[p], request) \in Vectors
  BY <1>1, VectorOps
<1>3. /\ available' \in Vectors /\ allocation' \in [Procs -> Vectors]
      /\ need' \in [Procs -> Vectors] /\ max' \in [Procs -> Vectors]
  BY <1>2 DEF RequestTry, TypeOK
<1>4. ScanEnter
  BY DEF RequestTry
<1>5. TypeOK'
  BY <1>3, <1>4, EnterInv DEF TypeOK, RequestTry
<1>6. NeedOK'
  <2>1. Sub(need[p], request) = Sub(max[p], Add(allocation[p], request))
    <3>1. need[p] = Sub(max[p], allocation[p])
      BY DEF NeedOK
    <3>2. max[p] \in Vectors
      BY DEF TypeOK
    <3>3. QED BY <1>1, <3>1, <3>2, NeedMoves
  <2>2. \A q \in Procs : need'[q] = Sub(max'[q], allocation'[q])
    BY <2>1 DEF NeedOK, RequestTry, TypeOK
  <2>3. QED BY <1>3, <2>2 DEF NeedOK
<1>7. Tentative'
  BY DEF Tentative, RequestTry, State, TypeOK
<1>8. QED BY <1>3, <1>4, <1>5, <1>6, <1>7, EnterInv

\* A turn of the for loop that puts process i in the sequence.
LEMMA VisitInv ==
    ASSUME IInv, pc # "idle", ScanVisit, UNCHANGED <<matrices, pc, caller, before>>
    PROVE  IInv'
<1> USE DEF IInv
<1>0. NeedOK' /\ Tentative'
  BY DEF NeedOK, Tentative, matrices
<1>1. i \in Procs /\ i + 1 \in 0 .. P /\ i' = i + 1
  BY BankerAssumption DEF ScanVisit, TypeOK, Procs
<1>2. CASE i \notin finish /\ canAllocate(i)
  <2> DEFINE n == Len(safeSequence)
  <2>1. /\ work' = Add(work, allocation[i]) /\ safeSequence' = Append(safeSequence, i)
        /\ finish' = finish \cup {i} /\ found' = TRUE /\ trail' = Append(trail, work')
    BY <1>2 DEF ScanVisit
  <2>2. work \in Vectors /\ allocation[i] \in Vectors /\ work' \in Vectors
    <3>1. work \in Vectors /\ allocation[i] \in Vectors
      BY <1>1 DEF TypeOK
    <3>2. QED BY <2>1, <3>1, VectorOps
  <2>3. /\ safeSequence \in Seq(Procs) /\ trail \in Seq(Vectors) /\ n \in Nat
        /\ Len(trail) = n + 1
    BY DEF TypeOK, Scanned
  <2>4. /\ safeSequence' \in Seq(Procs) /\ Len(safeSequence') = n + 1
        /\ safeSequence'[n + 1] = i
        /\ \A k \in 1 .. n : safeSequence'[k] = safeSequence[k]
    BY <1>1, <2>1, <2>3
  <2>5. /\ trail' \in Seq(Vectors) /\ Len(trail') = n + 2
        /\ trail'[n + 2] = work'
        /\ \A k \in 1 .. n + 1 : trail'[k] = trail[k]
    BY <2>1, <2>2, <2>3
  <2>6. Counted'
    BY <1>2, <2>1, <2>4, FS_AddElement DEF Counted
  <2>7. Len(safeSequence') <= P
    <3>1. IsFiniteSet(Procs) /\ Cardinality(Procs) = P
      <4>1. IsFiniteSet(0 .. P - 1)
        BY BankerAssumption, FS_Interval
      <4>2. Cardinality(0 .. P - 1) = IF 0 > P - 1 THEN 0 ELSE P - 1 - 0 + 1
        BY BankerAssumption, FS_Interval
      <4>3. QED BY <4>1, <4>2, BankerAssumption DEF Procs
    <3>2. finish' \subseteq Procs
      BY <1>1, <2>1 DEF TypeOK
    <3>3. Cardinality(finish') <= Cardinality(Procs)
      BY <3>1, <3>2, FS_Subset
    <3>4. QED BY <2>6, <3>1, <3>3 DEF Counted
  <2>8. TypeOK'
    BY <1>1, <2>1, <2>2, <2>4, <2>5, <2>7 DEF TypeOK, matrices
  <2>9. Scanned'
    <3>1. /\ Len(trail') = Len(safeSequence') + 1 /\ trail'[1] = available'
          /\ work' = trail'[Len(safeSequence') + 1]
      BY <2>3, <2>4, <2>5 DEF Scanned, matrices
    <3>2. \A k \in 1 .. n :
             /\ trail'[k + 1] = Add(trail'[k], allocation[safeSequence'[k]])
             /\ Leq(need[safeSequence'[k]], trail'[k])
             /\ safeSequence'[k] \in finish'
      BY <2>1, <2>3, <2>4, <2>5 DEF Scanned
    <3>3. /\ trail'[n + 2] = Add(trail'[n + 1], allocation[safeSequence'[n + 1]])
          /\ Leq(need[safeSequence'[n + 1]], trail'[n + 1])
          /\ safeSequence'[n + 1] \in finish'
      BY <1>2, <2>1, <2>3, <2>4, <2>5 DEF Scanned, canAllocate
    <3>4. \A j, k \in 1 .. n + 1 : safeSequence'[j] = safeSequence'[k] => j = k
      <4>1. \A j, k \in 1 .. n : safeSequence'[j] = safeSequence'[k] => j = k
        BY <2>4 DEF Scanned
      <4>2. \A k \in 1 .. n : safeSequence'[k] # safeSequence'[n + 1]
        BY <1>2, <2>4 DEF Scanned
      <4>3. QED BY <2>3, <4>1, <4>2
    <3>5. allocation' = allocation /\ need' = need /\ pc' = pc
      BY DEF matrices
    <3>6. \A k \in 1 .. n + 1 :
             /\ trail'[k + 1] = Add(trail'[k], allocation[safeSequence'[k]])
             /\ Leq(need[safeSequence'[k]], trail'[k])
             /\ safeSequence'[k] \in finish'
      <4>1. \A k \in 1 .. n + 1 : k \in 1 .. n \/ k = n + 1
        BY <2>3
      <4>2. n + 1 + 1 = n + 2
        BY <2>3
      <4>3. QED BY <3>2, <3>3, <4>1, <4>2
    <3>7. QED BY <2>4, <3>1, <3>4, <3>5, <3>6 DEF Scanned
  <2>10. QED BY <1>0, <2>6, <2>8, <2>9
<1>3. CASE ~(i \notin finish /\ canAllocate(i))
  <2>1. UNCHANGED <<work, safeSequence, finish, found, trail>>
    BY <1>3 DEF ScanVisit
  <2>2. QED BY <1>0, <1>1, <2>1 DEF TypeOK, Scanned, Counted, matrices
<1>4. QED BY <1>2, <1>3

\* Undoing the tentative allocation gives back the state at the call.
LEMMA DeniedRestores ==
    ASSUME IInv, RequestDenied
    PROVE  /\ State' = before
           /\ allocation' \in [Procs -> Vectors] /\ need' \in [Procs -> Vectors]
           /\ available' \in Vectors
<1> DEFINE p == caller.process
           q == caller.request
<1>1. /\ p \in Procs /\ q \in Vectors
      /\ before \in [allocation : [Procs -> Vectors], need : [Procs -> Vectors],
                     available : Vectors]
      /\ available = Sub(before.available, q)
      /\ allocation = [before.allocation EXCEPT ![p] = Add(@, q)]
      /\ need = [before.need EXCEPT ![p] = Sub(@, q)]
  BY RequestAssumption DEF RequestDenied, IInv, TypeOK, Tentative
<1>2. /\ available' = Add(available, q)
      /\ allocation' = [allocation EXCEPT ![p] = Sub(@, q)]
      /\ need' = [need EXCEPT ![p] = Add(@, q)]
  BY DEF RequestDenied
<1> HIDE DEF p, q
<1>3. /\ Add(Sub(before.available, q), q) = before.available
      /\ Sub(Add(before.allocation[p], q), q) = before.allocation[p]
      /\ Add(Sub(before.need[p], q), q) = before.need[p]
  BY <1>1, VectorOps
<1>4. available' = before.available
  BY <1>1, <1>2, <1>3
<1>5. allocation' = before.allocation
  BY <1>1, <1>2, <1>3
<1>6. need' = before.need
  BY <1>1, <1>2, <1>3
<1>7. State' = before
  BY <1>1, <1>4, <1>5, <1>6 DEF State
<1>8. QED BY <1>1, <1>4, <1>5, <1>6, <1>7

\* and with it the relation of need to the claim.
LEMMA DeniedNeed ==
    ASSUME IInv, RequestDenied
    PROVE  NeedOK'
<1> DEFINE p == caller.process
           q == caller.request
<1>1. /\ p \in Procs /\ q \in Vectors /\ max \in [Procs -> Vectors]
      /\ allocation \in [Procs -> Vectors] /\ need \in [Procs -> Vectors]
      /\ need = [x \in Procs |-> Sub(max[x], allocation[x])]
  BY RequestAssumption DEF RequestDenied, IInv, TypeOK, NeedOK
<1>2. /\ max' = max
      /\ allocation' = [allocation EXCEPT ![p] = Sub(@, q)]
      /\ need' = [need EXCEPT ![p] = Add(@, q)]
  BY DEF RequestDenied, Return
<1> HIDE DEF p, q
<1>3. Add(Sub(max[p], allocation[p]), q) = Sub(max[p], Sub(allocation[p], q))
  BY <1>1 DEF Add, Sub, Vectors
<1>4. \A x \in Procs : need'[x] = Sub(max'[x], allocation'[x])
  BY <1>1, <1>2, <1>3
<1>5. QED BY <1>1, <1>2, <1>4 DEF NeedOK

\* Every step of requestResources and isSafe keeps the invariant.
LEMMA StepInv == IInv /\ [Next]_vars => IInv'
<1> SUFFICES ASSUME IInv, [Next]_vars PROVE IInv'
  OBVIOUS
<1>1. CASE UNCHANGED vars
  BY <1>1 DEF IInv, TypeOK, NeedOK, Tentative, Scanned, Counted, vars, matrices, locals
<1>2. ASSUME NEW p \in Procs, NEW request \in Requests, requestResources(p, request)
      PROVE  IInv'
  BY <1>1, <1>2, TryInv DEF requestResources, RequestInvalid
<1>3. CASE CheckEnter
  <2>1. /\ available' \in Vectors /\ ScanEnter
        /\ UNCHANGED <<max, allocation, need, available, caller, before>> /\ pc' = "check"
    BY <1>3 DEF CheckEnter, IInv, TypeOK, matrices
  <2>2. TypeOK'
    BY <2>1, EnterInv DEF IInv, TypeOK
  <2>3. NeedOK' /\ Tentative'
    BY <2>1 DEF IInv, NeedOK, Tentative
  <2>4. QED BY <2>1, <2>2, <2>3, EnterInv DEF IInv
<1>4. CASE isSafe
  <2>1. CASE ScanVisit
    BY <1>4, <2>1, VisitInv DEF isSafe
  <2>2. CASE ScanAgain
    <3>1. /\ UNCHANGED <<max, allocation, need, available, pc, caller, before>>
          /\ UNCHANGED <<work, finish, safeSequence, trail>>
          /\ i' = 0 /\ found' = FALSE
      BY <1>4, <2>2 DEF isSafe, ScanAgain, matrices
    <3>2. i' \in 0 .. P
      BY <3>1, BankerAssumption
    <3>3. TypeOK'
      BY <3>1, <3>2 DEF IInv, TypeOK
    <3>4. NeedOK' /\ Tentative'
      BY <3>1 DEF IInv, NeedOK, Tentative
    <3>5. Scanned' /\ Counted'
      BY <3>1 DEF IInv, Scanned, Counted
    <3>6. QED BY <3>3, <3>4, <3>5 DEF IInv
  <2>3. QED BY <1>4, <2>1, <2>2 DEF isSafe
<1>5. CASE CheckReturn \/ RequestGranted
  BY <1>5 DEF CheckReturn, RequestGranted, Return, locals, IInv, TypeOK, NeedOK,
              Tentative, Scanned, Counted
<1>6. CASE RequestDenied
  <2>1. /\ State' = before /\ max' = max /\ UNCHANGED locals /\ pc' = "idle"
        /\ allocation' \in [Procs -> Vectors] /\ need' \in [Procs -> Vectors]
        /\ available' \in Vectors
    BY <1>6, DeniedRestores DEF RequestDenied, Return, IInv
  <2>2. TypeOK' /\ Tentative' /\ Scanned' /\ Counted'
    BY <2>1 DEF IInv, TypeOK, Tentative, Scanned, Counted, locals
  <2>3. NeedOK'
    BY <1>6, DeniedNeed DEF IInv
  <2>4. QED BY <2>2, <2>3 DEF IInv
<1>7. QED BY <1>1, <1>2, <1>3, <1>4, <1>5, <1>6 DEF Next

\* The inductive invariant of requestResources and isSafe, for all systems.
THEOREM Invariance == Spec => []IInv
BY InitInv, StepInv, PTL DEF Spec
-----------------------------------------------------------------------------
(* What the invariant says *)

\* No entry of allocation, need, available or work goes below zero and the scan
\* stays inside safe_sequence, for all sizes.
THEOREM TypeCorrect == Spec => []TypeOK
<1>1. IInv => TypeOK
  BY DEF IInv
<1>2. QED BY Invariance, <1>1, PTL

\* When all processes are in the sequence it is a safe order.
LEMMA ScanSound ==
    ASSUME IInv, pc # "idle", ScanSafe
    PROVE  SafeState(State)
<1>1. Len(safeSequence) = P /\ P \in Nat /\ safeSequence \in Seq(Procs)
  BY BankerAssumption DEF IInv, TypeOK, ScanSafe, count
<1>2. safeSequence \in Orders
  <2>1. safeSequence \in [1 .. P -> Procs]
    BY <1>1
  <2>2. QED BY <1>1, <2>1 DEF IInv, Scanned, Orders
<1> DEFINE s == safeSequence
           t == [k \in 0 .. P |-> trail[k + 1]]
<1>3. \A k \in 1 .. P : trail[k + 1] = Add(trail[k], allocation[s[k]])
                        /\ Leq(need[s[k]], trail[k])
  BY <1>1 DEF IInv, Scanned
<1>4. IsPool(t, State, s)
  <2>1. t[0] = State.available
    BY <1>1 DEF IInv, Scanned, State
  <2>2. \A k \in 1 .. P : t[k] = Add(t[k - 1], State.allocation[s[k]])
    <3> SUFFICES ASSUME NEW k \in 1 .. P
                 PROVE  t[k] = Add(t[k - 1], State.allocation[s[k]])
      OBVIOUS
    <3>1. k \in 0 .. P /\ k - 1 \in 0 .. P /\ k - 1 + 1 = k
      BY <1>1
    <3>2. t[k] = trail[k + 1] /\ t[k - 1] = trail[k]
      BY <3>1
    <3>3. QED BY <1>3, <3>2 DEF State
  <2>3. \A k \in 0 .. P : k = 0 \/ k \in 1 .. P
    BY <1>1
  <2> HIDE DEF s
  <2>4. \A k \in 0 .. P : t[k] = IF k = 0 THEN State.available
                                  ELSE Add(t[k - 1], State.allocation[s[k]])
    <3> HIDE DEF t
    <3> QED BY <2>1, <2>2, <2>3
  <2>5. t = [k \in 0 .. P |-> t[k]]
    OBVIOUS
  <2> HIDE DEF t
  <2>6. QED BY <2>4, <2>5 DEF IsPool
<1> HIDE DEF s
<1>5. \A k \in 0 .. P : Pool(State, s)[k] = t[k]
  <2> HIDE DEF t
  <2> QED BY <1>4, PoolUnique
<1>6. \A k \in 1 .. P : Leq(State.need[s[k]], Pool(State, s)[k - 1])
  <2> SUFFICES ASSUME NEW k \in 1 .. P
               PROVE  Leq(State.need[s[k]], Pool(State, s)[k - 1])
    OBVIOUS
  <2>1. k - 1 \in 0 .. P /\ k - 1 + 1 = k
    BY <1>1
  <2>2. Pool(State, s)[k - 1] = trail[k]
    BY <1>5, <2>1
  <2>3. State.need = need
    BY DEF State
  <2>4. QED BY <1>3, <2>2, <2>3
<1>7. QED BY <1>2, <1>6 DEF SafeState, s

\* A denied request leaves no trace, for all sizes.
THEOREM DeniedIsNoOp == Spec => RollbackExact
<1>1. IInv /\ [Next]_vars => [pc = "request" /\ ScanUnsafe => State' = before]_vars
  <2> SUFFICES ASSUME IInv, Next, pc = "request", ScanUnsafe
               PROVE  State' = before \/ UNCHANGED vars
    OBVIOUS
  <2>1. i = P /\ count < P /\ ~found /\ P \in Nat
    BY BankerAssumption DEF ScanUnsafe
  <2>2. RequestDenied
    BY <2>1 DEF Next, requestResources, RequestInvalid, RequestTry, CheckEnter, isSafe,
                ScanVisit, ScanAgain, CheckReturn, RequestGranted, ScanSafe, count,
                IInv, TypeOK
  <2>3. QED BY <2>2, DeniedRestores
<1>2. QED BY Invariance, <1>1, PTL DEF Spec, RollbackExact

\* Between calls the state is safe, during a request the one it began in was.
SafeSoFar ==
    /\ pc # "request" => SafeState(State)
    /\ pc = "request" => SafeState(before)

\* A system that starts safe is safe after every request, for all sizes.
THEOREM StaysSafe == Spec => SafetyKept
<1>1. Init /\ SafeState(State) => SafeSoFar
  BY DEF Init, SafeSoFar
<1>2. IInv /\ SafeSoFar /\ [Next]_vars => SafeSoFar'
  <2> SUFFICES ASSUME IInv, SafeSoFar, [Next]_vars PROVE SafeSoFar'
    OBVIOUS
  <2>a. ASSUME UNCHANGED <<allocation, need, available>>
        PROVE  State' = State
    BY <2>a DEF State
  <2>1. CASE UNCHANGED vars
    <3>1. State' = State /\ before' = before /\ pc' = pc
      BY <2>1, <2>a DEF vars, matrices
    <3>2. QED BY <3>1 DEF SafeSoFar
  <2>2. ASSUME NEW p \in Procs, NEW request \in Requests, RequestTry(p, request)
        PROVE  SafeSoFar'
    <3>1. pc = "idle" /\ pc' = "request" /\ before' = State
      BY <2>2 DEF RequestTry
    <3>2. QED BY <3>1 DEF SafeSoFar
  <2>3. CASE CheckEnter \/ isSafe \/ CheckReturn
    <3>1. State' = State /\ before' = before /\ (pc' = "request" <=> pc = "request")
      BY <2>3, <2>a DEF CheckEnter, isSafe, CheckReturn, Return, matrices
    <3>2. QED BY <3>1 DEF SafeSoFar
  <2>4. CASE RequestGranted
    <3>1. State' = State /\ pc' = "idle" /\ pc = "request" /\ ScanSafe
      BY <2>4, <2>a DEF RequestGranted, Return
    <3>2. SafeState(State)
      BY <3>1, ScanSound
    <3>3. QED BY <3>1, <3>2 DEF SafeSoFar
  <2>5. CASE RequestDenied
    <3>1. State' = before /\ pc' = "idle" /\ pc = "request"
      BY <2>5, DeniedRestores DEF RequestDenied, Return
    <3>2. QED BY <3>1 DEF SafeSoFar
  <2>6. QED BY <2>1, <2>2, <2>3, <2>4, <2>5 DEF Next, requestResources, RequestInvalid
<1>3. SafeSoFar => (pc = "idle" => SafeState(State))
  BY DEF SafeSoFar
<1>4. QED BY Invariance, <1>1, <1>2, <1>3, PTL DEF Spec, SafetyKept

-----------------------------------------------------------------------------
(* The other half of the verdict: isSafe gives up only in an unsafe state. *)

\* q is the pool as the n processes o[1], ..., o[n], all different and all in S,
\* give back what they hold.
Chain(o, q, n, S) ==
    /\ n \in Nat
    /\ o \in [1 .. n -> S] /\ \A j, k \in 1 .. n : o[j] = o[k] => j = k
    /\ q \in [0 .. n -> [Resources -> Int]] /\ q[0] = available
    /\ \A k \in 1 .. n : q[k] = Add(q[k - 1], allocation[o[k]])

\* work holds at least what any chain through finished processes collects,
\* whatever its order ...
Dominates == \A o, q, n : Chain(o, q, n, finish) => Leq(q[n], work)

\* ... and in a turn that has found nothing, no process passed could be met.
Exhausted == ~found => \A p \in Procs : p < i /\ p \notin finish => ~canAllocate(p)

ScanInv == IInv /\ (pc # "idle" => Dominates /\ Exhausted)

\* A chain through p, with p taken out of it.
LEMMA ChainWithout ==
    ASSUME TypeOK, NEW S \in SUBSET Procs, NEW p \in Procs, p \notin S,
           NEW o, NEW q, NEW n, Chain(o, q, n, S \cup {p}),
           NEW m \in 1 .. n, o[m] = p
    PROVE  \E o2, q2 : Chain(o2, q2, n - 1, S) /\ q[n] = Add(q2[n - 1], allocation[p])
<1> DEFINE o2 == [k \in 1 .. n - 1 |-> IF k < m THEN o[k] ELSE o[k + 1]]
           q2 == [k \in 0 .. n - 1 |-> IF k < m THEN q[k] ELSE Sub(q[k + 1], allocation[p])]
<1>0. /\ n \in Nat /\ m \in Nat /\ 1 <= m /\ m <= n /\ n - 1 \in Nat
      /\ o \in [1 .. n -> S \cup {p}] /\ \A j, k \in 1 .. n : o[j] = o[k] => j = k
      /\ q \in [0 .. n -> [Resources -> Int]] /\ q[0] = available
      /\ \A k \in 1 .. n : q[k] = Add(q[k - 1], allocation[o[k]])
  BY DEF Chain
<1>a. \A x \in Procs : allocation[x] \in [Resources -> Int]
  BY DEF TypeOK, Vectors
<1>1. o2 \in [1 .. n - 1 -> S]
  BY <1>0
<1>2. \A j, k \in 1 .. n - 1 : o2[j] = o2[k] => j = k
  BY <1>0
<1>3. \A a, b \in [Resources -> Int] :
         /\ Sub(a, b) \in [Resources -> Int] /\ Add(a, b) \in [Resources -> Int]
         /\ Sub(Add(a, b), b) = a /\ Add(Sub(a, b), b) = a
  BY DEF Sub, Add
<1>4. \A a, b, c \in [Resources -> Int] : Sub(Add(a, b), c) = Add(Sub(a, c), b)
  BY DEF Sub, Add
<1>5. q2 \in [0 .. n - 1 -> [Resources -> Int]] /\ q2[0] = available
  <2>1. \A k \in 0 .. n - 1 : q[k] \in [Resources -> Int] /\ q[k + 1] \in [Resources -> Int]
    BY <1>0
  <2>2. \A k \in 0 .. n - 1 : Sub(q[k + 1], allocation[p]) \in [Resources -> Int]
    BY <1>a, <1>3, <2>1
  <2>3. \A k \in 0 .. n - 1 : q2[k] \in [Resources -> Int]
    BY <2>1, <2>2
  <2>4. q2[0] = q[0]
    BY <1>0
  <2>5. QED BY <1>0, <2>3, <2>4
<1>6. ASSUME NEW k \in 1 .. n - 1
      PROVE  q2[k] = Add(q2[k - 1], allocation[o2[k]])
  <2>0. /\ k \in 0 .. n - 1 /\ k - 1 \in 0 .. n - 1 /\ k \in 1 .. n /\ k + 1 \in 1 .. n
        /\ k + 1 - 1 = k /\ k \in 0 .. n /\ k - 1 \in 0 .. n
    BY <1>0
  <2>1. CASE k < m
    <3>1. q2[k] = q[k] /\ q2[k - 1] = q[k - 1] /\ o2[k] = o[k]
      BY <2>0, <2>1, <1>0
    <3>2. QED BY <1>0, <2>0, <3>1
  <2>2. CASE k = m
    <3>1. q2[k] = Sub(q[k + 1], allocation[p]) /\ q2[k - 1] = q[k - 1] /\ o2[k] = o[k + 1]
      BY <2>0, <2>2, <1>0
    <3>2. q[k + 1] = Add(q[k], allocation[o[k + 1]]) /\ q[k] = Add(q[k - 1], allocation[p])
      BY <1>0, <2>0, <2>2
    <3>3. q[k - 1] \in [Resources -> Int] /\ q[k] \in [Resources -> Int]
          /\ o[k + 1] \in Procs
      BY <1>0, <2>0
    <3>4. allocation[o[k + 1]] \in [Resources -> Int] /\ allocation[p] \in [Resources -> Int]
      BY <1>a, <3>3
    <3>5. Sub(q[k + 1], allocation[p]) = Add(Sub(q[k], allocation[p]), allocation[o[k + 1]])
      BY <1>4, <3>2, <3>3, <3>4
    <3>6. Sub(q[k], allocation[p]) = q[k - 1]
      BY <1>3, <3>2, <3>3, <3>4
    <3>7. QED BY <3>1, <3>5, <3>6
  <2>3. CASE k > m
    <3>1. /\ q2[k] = Sub(q[k + 1], allocation[p]) /\ q2[k - 1] = Sub(q[k], allocation[p])
          /\ o2[k] = o[k + 1]
      <4>1. ~(k < m) /\ ~(k - 1 < m) /\ k - 1 + 1 = k
        BY <1>0, <2>0, <2>3
      <4>2. QED BY <2>0, <4>1
    <3>2. q[k + 1] = Add(q[k], allocation[o[k + 1]])
      BY <1>0, <2>0
    <3>3. q[k] \in [Resources -> Int] /\ o[k + 1] \in Procs
      BY <1>0, <2>0
    <3>4. allocation[o[k + 1]] \in [Resources -> Int] /\ allocation[p] \in [Resources -> Int]
      BY <1>a, <3>3
    <3>5. Sub(q[k + 1], allocation[p]) = Add(Sub(q[k], allocation[p]), allocation[o[k + 1]])
      BY <1>4, <3>2, <3>3, <3>4
    <3>6. QED BY <3>1, <3>5
  <2>4. QED BY <1>0, <2>0, <2>1, <2>2, <2>3
<1>7. q[n] = Add(q2[n - 1], allocation[p])
  <2>0. n \in 0 .. n /\ n - 1 \in 0 .. n - 1 /\ n - 1 + 1 = n /\ n \in 1 .. n
    BY <1>0
  <2>1. CASE m = n
    BY <1>0, <2>0, <2>1
  <2>2. CASE m < n
    <3>1. q2[n - 1] = Sub(q[n], allocation[p])
      BY <1>0, <2>0, <2>2
    <3>2. q[n] \in [Resources -> Int]
      BY <1>0, <2>0
    <3>3. QED BY <1>a, <1>3, <3>1, <3>2
  <2>3. QED BY <1>0, <2>1, <2>2
<1> HIDE DEF o2, q2
<1>8. Chain(o2, q2, n - 1, S)
  BY <1>0, <1>1, <1>2, <1>5, <1>6 DEF Chain
<1>9. QED BY <1>7, <1>8

\* Entering isSafe: nothing is finished, so the only chain is the empty one.
LEMMA EnterScan ==
    ASSUME ScanEnter, available' \in Vectors
    PROVE  Dominates' /\ Exhausted'
<1>1. work' = available' /\ finish' = {} /\ i' = 0
  BY DEF ScanEnter
<1>2. ASSUME NEW o, NEW q, NEW n, Chain(o, q, n, finish)'
      PROVE  Leq(q[n], work)'
  <2>1. n \in Nat /\ o \in [1 .. n -> {}] /\ q[0] = available'
    BY <1>1, <1>2 DEF Chain
  <2>2. n = 0
    <3>1. ASSUME n # 0 PROVE FALSE
      <4>1. 1 \in 1 .. n
        BY <2>1, <3>1
      <4>2. o[1] \in {}
        BY <2>1, <4>1
      <4>3. QED BY <4>2
    <3>2. QED BY <3>1
  <2>3. QED BY <1>1, <2>1, <2>2 DEF Leq, Vectors
<1>3. Dominates'
  BY <1>2 DEF Dominates
<1>4. Exhausted'
  BY <1>1 DEF Exhausted, Procs
<1>5. QED BY <1>3, <1>4

\* A turn of the for loop.
LEMMA VisitScan ==
    ASSUME ScanInv, pc # "idle", ScanVisit, UNCHANGED matrices
    PROVE  Dominates' /\ Exhausted'
<1> USE DEF ScanInv, IInv
<1>0. /\ i \in Procs /\ i' = i + 1 /\ UNCHANGED <<allocation, need, available>>
  BY BankerAssumption DEF ScanVisit, TypeOK, Procs, matrices
<1>1. CASE i \notin finish /\ canAllocate(i)
  <2>1. work' = Add(work, allocation[i]) /\ finish' = finish \cup {i} /\ found' = TRUE
    BY <1>1 DEF ScanVisit
  <2>2. Exhausted'
    BY <2>1 DEF Exhausted
  <2>3. \A x \in Procs, r \in Resources : allocation[x][r] \in Nat
    BY DEF TypeOK, Vectors
  <2>4. \A r \in Resources : work[r] \in Int
    BY DEF TypeOK, Vectors
  <2>5. ASSUME NEW o, NEW q, NEW n, Chain(o, q, n, finish \cup {i})
        PROVE  Leq(q[n], Add(work, allocation[i]))
    <3>1. /\ n \in Nat /\ o \in [1 .. n -> finish \cup {i}]
          /\ q \in [0 .. n -> [Resources -> Int]]
      BY <2>5 DEF Chain
    <3>2. CASE \E m \in 1 .. n : o[m] = i
      <4>1. PICK m \in 1 .. n : o[m] = i
        BY <3>2
      <4>2. TypeOK /\ finish \in SUBSET Procs /\ i \in Procs /\ i \notin finish
        BY <1>0, <1>1 DEF TypeOK
      <4>3. PICK o2, q2 : Chain(o2, q2, n - 1, finish) /\ q[n] = Add(q2[n - 1], allocation[i])
        <5> HIDE DEF ScanInv, IInv
        <5> QED BY <2>5, <4>1, <4>2, ChainWithout
      <4>4. Leq(q2[n - 1], work)
        BY <4>3 DEF Dominates
      <4>5. \A r \in Resources : q2[n - 1][r] \in Int
        <5>1. n - 1 \in 0 .. n - 1 /\ q2 \in [0 .. n - 1 -> [Resources -> Int]]
          BY <4>3 DEF Chain
        <5>2. QED BY <5>1
      <4>6. QED BY <1>0, <2>3, <2>4, <4>3, <4>4, <4>5 DEF Leq, Add
    <3>3. CASE ~ \E m \in 1 .. n : o[m] = i
      <4>1. o \in [1 .. n -> finish]
        BY <3>1, <3>3
      <4>2. Chain(o, q, n, finish)
        BY <2>5, <4>1 DEF Chain
      <4>3. Leq(q[n], work)
        BY <4>2 DEF Dominates
      <4>4. \A r \in Resources : q[n][r] \in Int
        BY <3>1
      <4>5. QED BY <1>0, <2>3, <2>4, <4>3, <4>4 DEF Leq, Add
    <3>4. QED BY <3>2, <3>3
  <2>6. Dominates'
    BY <1>0, <2>1, <2>5 DEF Dominates, Chain
  <2>7. QED BY <2>2, <2>6
<1>2. CASE ~(i \notin finish /\ canAllocate(i))
  <2>1. UNCHANGED <<work, finish, found>>
    BY <1>2 DEF ScanVisit
  <2>2. Dominates'
    BY <1>0, <2>1 DEF Dominates, Chain
  <2>3. \A p \in Procs : p < i + 1 => p < i \/ p = i
    BY <1>0, BankerAssumption DEF Procs
  <2>4. Exhausted'
    BY <1>0, <1>2, <2>1, <2>3 DEF Exhausted, canAllocate
  <2>5. QED BY <2>2, <2>4
<1>3. QED BY <1>1, <1>2

\* Every step of isSafe keeps both.
LEMMA ScanStep == ScanInv /\ [Next]_vars => ScanInv'
<1> SUFFICES ASSUME ScanInv, [Next]_vars PROVE ScanInv'
  OBVIOUS
<1>0. IInv'
  BY StepInv DEF ScanInv
<1>a. available' \in Vectors
  BY <1>0 DEF IInv, TypeOK
<1>1. CASE UNCHANGED vars
  <2>1. /\ UNCHANGED <<available, allocation, need, work, finish, found, i, pc>>
    BY <1>1 DEF vars, matrices, locals
  <2>2. QED BY <1>0, <2>1 DEF ScanInv, Dominates, Chain, Exhausted, canAllocate
<1>2. ASSUME NEW p \in Procs, NEW request \in Requests, RequestTry(p, request)
      PROVE  ScanInv'
  BY <1>0, <1>2, <1>a, EnterScan DEF RequestTry, ScanInv
<1>3. CASE CheckEnter
  BY <1>0, <1>3, <1>a, EnterScan DEF CheckEnter, ScanInv
<1>4. CASE isSafe
  <2>1. CASE ScanVisit
    BY <1>0, <1>4, <2>1, VisitScan DEF isSafe, ScanInv
  <2>2. CASE ScanAgain
    <3>1. /\ UNCHANGED <<available, allocation, need, work, finish, pc>> /\ i' = 0
          /\ pc # "idle"
      BY <1>4, <2>2 DEF isSafe, ScanAgain, matrices
    <3>2. Dominates'
      BY <3>1 DEF ScanInv, Dominates, Chain
    <3>3. Exhausted'
      BY <3>1 DEF Exhausted, Procs
    <3>4. QED BY <1>0, <3>2, <3>3 DEF ScanInv
  <2>3. QED BY <1>4, <2>1, <2>2 DEF isSafe
<1>5. CASE CheckReturn \/ RequestGranted \/ RequestDenied
  BY <1>0, <1>5 DEF CheckReturn, RequestGranted, RequestDenied, Return, ScanInv
<1>6. QED BY <1>1, <1>2, <1>3, <1>4, <1>5 DEF Next, requestResources, RequestInvalid

\* The recursive definition of the pool does define one.
LEMMA PoolExists ==
    ASSUME NEW state, NEW s
    PROVE  \E t : IsPool(t, state, s)
<1> DEFINE Part(t, n) == t = [k \in 0 .. n |-> IF k = 0 THEN state.available
                                               ELSE Add(t[k - 1], state.allocation[s[k]])]
           T == {n \in 0 .. P : ~ \E t : Part(t, n)}
<1>0. P \in Nat
  BY BankerAssumption
<1>1. CASE T = {}
  <2>1. P \in 0 .. P
    BY <1>0
  <2>2. PICK t : Part(t, P)
    BY <1>1, <2>1
  <2>3. QED BY <2>2 DEF IsPool
<1>2. CASE T # {}
  <2>1. PICK n \in T : \A m \in T : n <= m
    <3>1. T \subseteq Nat
      BY <1>0
    <3> HIDE DEF T
    <3>2. QED BY <1>2, <3>1, LeastNatural
  <2>2. n \in 0 .. P /\ ~ \E t : Part(t, n)
    BY <2>1
  <2>3. CASE n = 0
    <3>1. Part([k \in 0 .. 0 |-> state.available], 0)
      OBVIOUS
    <3>2. QED BY <2>2, <2>3, <3>1
  <2>4. CASE n # 0
    <3>1. n - 1 \in 0 .. P /\ n \in Nat /\ ~(n <= n - 1)
      BY <1>0, <2>2, <2>4
    <3>2. n - 1 \notin T
      BY <2>1, <3>1
    <3>3. PICK t : Part(t, n - 1)
      BY <3>1, <3>2
    <3> DEFINE u == [k \in 0 .. n |-> IF k = n THEN Add(t[n - 1], state.allocation[s[n]])
                                      ELSE t[k]]
    <3>4. \A k \in 0 .. n - 1 : u[k] = t[k]
      BY <3>1
    <3>5. ASSUME NEW k \in 0 .. n
          PROVE  u[k] = IF k = 0 THEN state.available
                        ELSE Add(u[k - 1], state.allocation[s[k]])
      <4>1. CASE k = n
        <5>1. n - 1 \in 0 .. n - 1 /\ n \in 0 .. n
          BY <2>4, <3>1
        <5>2. u[n - 1] = t[n - 1] /\ u[n] = Add(t[n - 1], state.allocation[s[n]])
          BY <3>4, <5>1
        <5> HIDE DEF u
        <5>3. QED BY <2>4, <4>1, <5>2
      <4>2. CASE k # n
        <5>1. k \in 0 .. n - 1 /\ (k # 0 => k - 1 \in 0 .. n - 1)
          BY <3>1, <4>2
        <5>2. t[k] = IF k = 0 THEN state.available ELSE Add(t[k - 1], state.allocation[s[k]])
          BY <3>3, <5>1
        <5> HIDE DEF u
        <5>3. QED BY <3>4, <5>1, <5>2
      <4>3. QED BY <4>1, <4>2
    <3>6. u = [k \in 0 .. n |-> u[k]]
      OBVIOUS
    <3> HIDE DEF u
    <3>7. Part(u, n)
      BY <3>5, <3>6
    <3>8. QED BY <2>2, <3>7
  <2>5. QED BY <2>3, <2>4
<1>3. QED BY <1>1, <1>2

\* With some process unfinished, every order of all of them reaches one that is
\* not finished, and before it only finished ones.
LEMMA FirstUnfinished ==
    ASSUME IInv, ScanUnsafe, NEW s \in Orders
    PROVE  \E k \in 1 .. P : s[k] \notin finish /\ \A j \in 1 .. k - 1 : s[j] \in finish
<1>0. P \in Nat /\ IsFiniteSet(finish) /\ Cardinality(finish) < P
  BY BankerAssumption DEF IInv, Counted, ScanUnsafe, count
<1>1. s \in [1 .. P -> Procs] /\ \A j, k \in 1 .. P : s[j] = s[k] => j = k
  BY DEF Orders
<1> DEFINE T == {k \in 1 .. P : s[k] \notin finish}
<1>2. T # {}
  <2> SUFFICES ASSUME T = {} PROVE FALSE
    OBVIOUS
  <2>1. s \in [1 .. P -> finish]
    BY <1>1
  <2>2. IsFiniteSet(1 .. P) /\ Cardinality(1 .. P) = P
    <3>1. IsFiniteSet(1 .. P)
      BY <1>0, FS_Interval
    <3>2. Cardinality(1 .. P) = IF 1 > P THEN 0 ELSE P - 1 + 1
      BY <1>0, FS_Interval
    <3>3. QED BY <1>0, <3>1, <3>2
  <2>3. \E x, y \in 1 .. P : x # y /\ s[x] = s[y]
    BY <1>0, <2>1, <2>2, FS_PigeonHole
  <2>4. QED BY <1>1, <2>3
<1>3. PICK k \in T : \A j \in T : k <= j
  <2>1. T \subseteq Nat
    BY <1>0
  <2> HIDE DEF T
  <2>2. QED BY <1>2, <2>1, LeastNatural
<1>4. k \in 1 .. P /\ s[k] \notin finish
  BY <1>3
<1>5. ASSUME NEW j \in 1 .. k - 1 PROVE s[j] \in finish
  <2>1. j \in 1 .. P /\ ~(k <= j)
    BY <1>0, <1>4
  <2>2. QED BY <1>3, <2>1
<1>6. QED BY <1>4, <1>5

\* When a whole turn finds nothing there is no safe order: its first unfinished
\* process needs no more than the ones before it leave, which work holds.
LEMMA ScanComplete ==
    ASSUME ScanInv, pc # "idle", ScanUnsafe
    PROVE  ~SafeState(State)
<1> USE DEF ScanInv
<1>0. P \in Nat /\ i = P /\ ~found /\ TypeOK
  BY BankerAssumption DEF ScanUnsafe, IInv
<1> SUFFICES ASSUME NEW s \in Orders,
                    \A k \in 1 .. P : Leq(State.need[s[k]], Pool(State, s)[k - 1])
             PROVE  FALSE
  BY DEF SafeState
<1>1. s \in [1 .. P -> Procs] /\ \A j, k \in 1 .. P : s[j] = s[k] => j = k
  BY DEF Orders
<1>2. PICK k \in 1 .. P : s[k] \notin finish /\ \A j \in 1 .. k - 1 : s[j] \in finish
  BY FirstUnfinished
<1>3. PICK t : IsPool(t, State, s)
  BY PoolExists
<1>4. \A j \in 0 .. P : Pool(State, s)[j] = t[j]
  BY <1>3, PoolUnique
<1>5. State.available = available /\ State.allocation = allocation /\ State.need = need
  BY DEF State
<1>6. t[0] = available /\ \A j \in 1 .. P : t[j] = Add(t[j - 1], allocation[s[j]])
  <2>1. \A j \in 0 .. P : t[j] = IF j = 0 THEN State.available
                                  ELSE Add(t[j - 1], State.allocation[s[j]])
    BY <1>3 DEF IsPool
  <2>2. QED BY <1>0, <1>5, <2>1
<1> DEFINE n == k - 1
           o == [j \in 1 .. n |-> s[j]]
           q == [j \in 0 .. n |-> t[j]]
<1>7. n \in Nat /\ n \in 0 .. P /\ n \in 0 .. n /\ \A j \in 1 .. n : j \in 1 .. P
  BY <1>0
<1>8. \A j \in 0 .. P : t[j] \in [Resources -> Int]
  <2> DEFINE T == {j \in 0 .. P : t[j] \notin [Resources -> Int]}
  <2> SUFFICES ASSUME T # {} PROVE FALSE
    OBVIOUS
  <2>1. PICK j \in T : \A m \in T : j <= m
    <3>1. T \subseteq Nat
      BY <1>0
    <3> HIDE DEF T
    <3>2. QED BY <3>1, LeastNatural
  <2>2. CASE j = 0
    BY <1>0, <1>6, <2>1, <2>2 DEF TypeOK, Vectors
  <2>3. CASE j # 0
    <3>1. j \in 1 .. P /\ j - 1 \in 0 .. P /\ ~(j <= j - 1)
      BY <1>0, <2>1, <2>3
    <3>2. t[j] = Add(t[j - 1], allocation[s[j]])
      BY <1>6, <3>1
    <3>3. t[j - 1] \in [Resources -> Int]
      BY <2>1, <3>1
    <3>4. s[j] \in Procs
      BY <1>1, <3>1
    <3>5. allocation[s[j]] \in [Resources -> Int]
      BY <1>0, <3>4 DEF TypeOK, Vectors
    <3>6. t[j] \in [Resources -> Int]
      BY <3>2, <3>3, <3>5 DEF Add
    <3>7. QED BY <2>1, <3>6
  <2>4. QED BY <2>2, <2>3
<1>9. Leq(t[n], work)
  <2>1. Chain(o, q, n, finish)
    <3>1. o \in [1 .. n -> finish] /\ \A j, m \in 1 .. n : o[j] = o[m] => j = m
      BY <1>1, <1>2, <1>7
    <3>2. \A j \in 0 .. n : j \in 0 .. P
      BY <1>0, <1>7
    <3>3. q \in [0 .. n -> [Resources -> Int]] /\ q[0] = available
      BY <1>6, <1>7, <1>8, <3>2
    <3>4. \A j \in 1 .. n : q[j] = Add(q[j - 1], allocation[o[j]])
      <4> SUFFICES ASSUME NEW j \in 1 .. n PROVE q[j] = Add(q[j - 1], allocation[o[j]])
        OBVIOUS
      <4>1. j \in 0 .. n /\ j - 1 \in 0 .. n /\ j \in 1 .. P
        BY <1>7
      <4>2. q[j] = t[j] /\ q[j - 1] = t[j - 1] /\ o[j] = s[j]
        BY <4>1
      <4>3. QED BY <1>6, <4>1, <4>2
    <3> HIDE DEF o, q
    <3>5. QED BY <1>7, <3>1, <3>3, <3>4 DEF Chain
  <2>2. Leq(q[n], work)
    BY <2>1 DEF Dominates
  <2>3. QED BY <1>7, <2>2
<1>10. Leq(need[s[k]], t[n])
  BY <1>4, <1>5, <1>7
<1>11. s[k] \in Procs /\ s[k] < P
  BY <1>0, <1>1, <1>2 DEF Procs
<1>12. Leq(need[s[k]], work)
  <2>1. /\ t[n] \in [Resources -> Int] /\ need[s[k]] \in [Resources -> Int]
        /\ work \in [Resources -> Int]
    BY <1>0, <1>7, <1>8, <1>11 DEF TypeOK, Vectors
  <2> HIDE DEF n
  <2>2. QED BY <1>9, <1>10, <2>1 DEF Leq
<1>13. QED BY <1>0, <1>2, <1>11, <1>12 DEF Exhausted, canAllocate

\* isSafe answers exactly whether the state is safe, for all systems: no unsafe
\* request is granted, and no safe one is denied although the scan is greedy.
THEOREM VerdictCorrect == Spec => []VerdictExact
<1>1. Init => ScanInv
  BY InitInv DEF Init, ScanInv
<1>2. ScanInv => VerdictExact
  BY ScanSound, ScanComplete DEF ScanInv, VerdictExact
<1>3. QED BY <1>1, <1>2, ScanStep, PTL DEF Spec

-----------------------------------------------------------------------------
(* Units of a resource *)

\* t[k] is the sum of the first k values of f.
IsSum(t, f) == t = [k \in 0 .. P |-> IF k = 0 THEN 0 ELSE t[k - 1] + f[k - 1]]
SumOf(f) == (CHOOSE t : IsSum(t, f))[P]

\* The sum of n values leads to the sum of n + 1, so the sums exist.
LEMMA SumExists ==
    ASSUME NEW f
    PROVE  \E t : IsSum(t, f)
<1> DEFINE Part(t, n) == t = [k \in 0 .. n |-> IF k = 0 THEN 0 ELSE t[k - 1] + f[k - 1]]
           T == {n \in 0 .. P : ~ \E t : Part(t, n)}
<1>0. P \in Nat
  BY BankerAssumption
<1>1. CASE T = {}
  <2>1. PICK t : Part(t, P)
    BY <1>0, <1>1
  <2>2. QED BY <2>1 DEF IsSum
<1>2. CASE T # {}
  <2>1. PICK n \in T : \A m \in T : n <= m
    <3>1. T \subseteq Nat
      BY <1>0
    <3> HIDE DEF T
    <3>2. QED BY <1>2, <3>1, LeastNatural
  <2>2. CASE n = 0
    <3>1. Part([k \in 0 .. 0 |-> 0], 0)
      OBVIOUS
    <3>2. QED BY <2>1, <2>2, <3>1
  <2>3. CASE n # 0
    <3>1. n - 1 \in 0 .. P /\ n \in Nat /\ ~(n <= n - 1)
      BY <1>0, <2>1, <2>3
    <3>2. PICK t : Part(t, n - 1)
      BY <2>1, <3>1
    <3> DEFINE u == [k \in 0 .. n |-> IF k = n THEN t[n - 1] + f[n - 1] ELSE t[k]]
    <3>3. \A k \in 0 .. n - 1 : u[k] = t[k]
      BY <3>1
    <3>4. ASSUME NEW k \in 0 .. n
          PROVE  u[k] = IF k = 0 THEN 0 ELSE u[k - 1] + f[k - 1]
      <4>1. CASE k = n
        <5>1. u[n - 1] = t[n - 1] /\ u[n] = t[n - 1] + f[n - 1]
          BY <2>3, <3>1, <3>3
        <5> HIDE DEF u
        <5>2. QED BY <2>3, <4>1, <5>1
      <4>2. CASE k # n
        <5>1. k \in 0 .. n - 1 /\ (k # 0 => k - 1 \in 0 .. n - 1)
          BY <3>1, <4>2
        <5>2. t[k] = IF k = 0 THEN 0 ELSE t[k - 1] + f[k - 1]
          BY <3>2, <5>1
        <5> HIDE DEF u
        <5>3. QED BY <3>3, <5>1, <5>2
      <4>3. QED BY <4>1, <4>2
    <3>5. u = [k \in 0 .. n |-> u[k]]
      OBVIOUS
    <3>6. Part(u, n)
      <4> HIDE DEF u
      <4> QED BY <3>4, <3>5
    <3>7. QED BY <2>1, <3>6
  <2>4. QED BY <2>2, <2>3
<1>3. QED BY <1>1, <1>2

\* Changing one of the values by d changes the sum by d.
LEMMA SumMoves ==
    ASSUME NEW f \in [Procs -> Int], NEW g \in [Procs -> Int], NEW q \in Procs, NEW d \in Int,
           g[q] = f[q] + d, \A p \in Procs : p # q => g[p] = f[p]
    PROVE  SumOf(f) \in Int /\ SumOf(g) = SumOf(f) + d
<1> DEFINE t == CHOOSE x : IsSum(x, f)
           u == CHOOSE x : IsSum(x, g)
<1>1. IsSum(t, f) /\ IsSum(u, g)
  BY SumExists
<1>2. SumOf(f) = t[P] /\ SumOf(g) = u[P]
  BY DEF SumOf
<1> HIDE DEF t, u
<1>3. \A k \in 0 .. P : /\ t[k] = IF k = 0 THEN 0 ELSE t[k - 1] + f[k - 1]
                        /\ u[k] = IF k = 0 THEN 0 ELSE u[k - 1] + g[k - 1]
  BY <1>1 DEF IsSum
<1> DEFINE Good(k) == t[k] \in Int /\ u[k] = t[k] + IF q < k THEN d ELSE 0
           T == {k \in 0 .. P : ~Good(k)}
<1>4. P \in Nat /\ P \in 0 .. P /\ q \in 0 .. P - 1
  BY BankerAssumption DEF Procs
<1>5. ASSUME T # {} PROVE FALSE
  <2>1. PICK k \in T : \A m \in T : k <= m
    <3>1. T \subseteq Nat
      BY <1>4
    <3> HIDE DEF T
    <3>2. QED BY <1>5, <3>1, LeastNatural
  <2>2. k \in 0 .. P /\ ~Good(k)
    BY <2>1
  <2>3. CASE k = 0
    BY <1>3, <1>4, <2>2, <2>3
  <2>4. CASE k # 0
    <3>1. k - 1 \in 0 .. P /\ ~(k <= k - 1) /\ k - 1 \in Procs
      BY <1>4, <2>2, <2>4 DEF Procs
    <3>2. Good(k - 1)
      BY <2>1, <3>1
    <3>3. t[k] = t[k - 1] + f[k - 1] /\ u[k] = u[k - 1] + g[k - 1]
      BY <1>3, <2>2, <2>4
    <3>4. f[k - 1] \in Int /\ g[k - 1] = f[k - 1] + IF k - 1 = q THEN d ELSE 0
      BY <3>1
    <3>5. Good(k)
      BY <1>4, <2>2, <3>2, <3>3, <3>4
    <3>6. QED BY <2>2, <3>5
  <2>5. QED BY <2>3, <2>4
<1>6. Good(P)
  BY <1>4, <1>5
<1>7. QED BY <1>2, <1>4, <1>6

\* Held adds up the column of r.
Column(a, r) == [p \in Procs |-> a[p][r]]
HeldOf(a, r) ==
    LET sum[k \in 0 .. P] == IF k = 0 THEN 0 ELSE sum[k - 1] + a[k - 1][r]
    IN  sum[P]

LEMMA HeldIsSum ==
    ASSUME NEW a, NEW r
    PROVE  HeldOf(a, r) = SumOf(Column(a, r))
<1> DEFINE Sum1(t) == t = [k \in 0 .. P |-> IF k = 0 THEN 0 ELSE t[k - 1] + a[k - 1][r]]
<1>1. \A k \in 0 .. P : k # 0 => Column(a, r)[k - 1] = a[k - 1][r]
  <2> TAKE k \in 0 .. P
  <2> SUFFICES ASSUME k # 0 PROVE Column(a, r)[k - 1] = a[k - 1][r]
    OBVIOUS
  <2>1. k - 1 \in Procs
    BY BankerAssumption DEF Procs
  <2>2. QED BY <2>1 DEF Column
<1>2. ASSUME NEW t PROVE IsSum(t, Column(a, r)) <=> Sum1(t)
  BY <1>1 DEF IsSum
<1>3. (CHOOSE t : IsSum(t, Column(a, r))) = (CHOOSE t : Sum1(t))
  BY <1>2
<1>4. QED BY <1>3 DEF HeldOf, SumOf

\* Moving x of every resource from the pool to a process leaves the totals alone.
LEMMA TotalKept ==
    ASSUME TypeOK, NEW q \in Procs, NEW x \in [Resources -> Int],
           available' = Sub(available, x),
           allocation' = [allocation EXCEPT ![q] = Add(@, x)]
    PROVE  Total' = Total
<1>1. \A r \in Resources : available'[r] = available[r] - x[r] /\ available[r] \in Int
  BY DEF Sub, TypeOK, Vectors
<1>2. ASSUME NEW r \in Resources
      PROVE  Held(r) \in Int /\ Held(r)' = Held(r) + x[r]
  <2>1. Column(allocation, r) \in [Procs -> Int]
    BY DEF Column, TypeOK, Vectors
  <2>2. /\ allocation'[q][r] = allocation[q][r] + x[r]
        /\ \A p \in Procs : p # q => allocation'[p] = allocation[p]
    BY DEF TypeOK, Add
  <2>3. PICK g \in [Procs -> Int] : g = Column(allocation', r)
    <3>1. \A p \in Procs : allocation'[p][r] \in Int
      BY <2>2 DEF TypeOK, Vectors
    <3>2. QED BY <3>1 DEF Column
  <2>4. PICK f \in [Procs -> Int] : f = Column(allocation, r)
    BY <2>1
  <2>5. g[q] = f[q] + x[r] /\ \A p \in Procs : p # q => g[p] = f[p]
    BY <2>2, <2>3, <2>4 DEF Column
  <2>6. SumOf(f) \in Int /\ SumOf(g) = SumOf(f) + x[r]
    BY <2>5, SumMoves
  <2>7. Held(r) = HeldOf(allocation, r) /\ Held(r)' = HeldOf(allocation', r)
    BY DEF Held, HeldOf
  <2>8. QED BY <2>3, <2>4, <2>6, <2>7, HeldIsSum
<1>3. \A r \in Resources : available'[r] + Held(r)' = available[r] + Held(r)
  BY <1>1, <1>2
<1>4. QED BY <1>3 DEF Total

\* No step of requestResources or isSafe makes or loses a unit of a resource, and
\* need stays what is missing to the claim, for all systems.
THEOREM UnitsConserved == Spec => Conservation
<1>1. IInv /\ IInv' /\ [Next]_vars =>
          [Total' = Total /\ \A p \in Procs : need'[p] = Sub(max'[p], allocation'[p])]_vars
  <2> SUFFICES ASSUME IInv, IInv', Next, ~UNCHANGED vars
               PROVE  Total' = Total /\ \A p \in Procs : need'[p] = Sub(max'[p], allocation'[p])
    OBVIOUS
  <2>1. \A p \in Procs : need'[p] = Sub(max'[p], allocation'[p])
    BY DEF IInv, NeedOK
  <2>2. ASSUME UNCHANGED <<available, allocation>> PROVE Total' = Total
    BY <2>2 DEF Total, Held
  <2>3. ASSUME NEW p \in Procs, NEW request \in Requests, RequestTry(p, request)
        PROVE  Total' = Total
    <3>1. request \in [Resources -> Int] /\ TypeOK
      BY RequestAssumption DEF Vectors, IInv
    <3>2. QED BY <2>3, <3>1, TotalKept DEF RequestTry
  <2>4. CASE RequestDenied
    <3>1. caller.process \in Procs /\ caller.request \in Vectors /\ TypeOK
      BY <2>4, RequestAssumption DEF RequestDenied, IInv, TypeOK
    <3>2. PICK q \in Procs, x \in [Resources -> Int] :
              q = caller.process /\ \A r \in Resources : x[r] = 0 - caller.request[r]
      <4>1. [r \in Resources |-> 0 - caller.request[r]] \in [Resources -> Int]
        BY <3>1 DEF Vectors
      <4>2. QED BY <3>1, <4>1
    <3>3. available' = Sub(available, x)
      BY <2>4, <3>1, <3>2 DEF RequestDenied, Add, Sub, TypeOK, Vectors
    <3>4. Sub(allocation[q], caller.request) = Add(allocation[q], x)
      BY <3>1, <3>2 DEF Add, Sub, TypeOK, Vectors
    <3>5. allocation' = [allocation EXCEPT ![q] = Add(@, x)]
      BY <2>4, <3>2, <3>4 DEF RequestDenied
    <3>6. TypeOK
      BY <3>1
    <3>7. QED BY <2>1, <3>3, <3>5, <3>6, TotalKept
  <2>5. CASE CheckEnter \/ isSafe \/ CheckReturn \/ RequestGranted
    <3>1. UNCHANGED <<available, allocation>>
      BY <2>5 DEF CheckEnter, isSafe, CheckReturn, RequestGranted, matrices
    <3>2. QED BY <2>1, <2>2, <3>1
  <2>6. QED BY <2>1, <2>3, <2>4, <2>5 DEF Next, requestResources, RequestInvalid
<1>2. QED BY Invariance, <1>1, PTL DEF Spec, Conservation

-----------------------------------------------------------------------------
(* ResourceOrderingSystem.c *)

\* A process got its resources in increasing order, and wants a greater one.
Ascending ==
    /\ current_resource \in [Clients -> Ordering!ResourceIds \cup {-1}]
    /\ owner \in [Ordering!ResourceIds -> Clients \cup {-1}]
    /\ wanted \in [Clients -> Ordering!ResourceIds \cup {-1}]
    /\ \A r \in Ordering!ResourceIds : owner[r] # -1 => r <= current_resource[owner[r]]
    /\ \A p \in Clients : wanted[p] # -1 => current_resource[p] < wanted[p]

LEMMA AscendingInit == Ordering!Init => Ascending
BY DeadlockAssumption
DEF Ordering!Init, Ordering!initializeResourceOrdering, Ordering!None, Ordering!ResourceIds,
    Ascending

\* requestResource keeps to the order.
LEMMA AscendingStep == Ascending /\ Ordering!Next => Ascending'
<1> SUFFICES ASSUME Ascending, NEW p \in Clients, NEW req \in Ordering!ResourceIds,
                    Ordering!requestResource(p, req)
             PROVE  Ascending'
  BY DEF Ordering!Next
<1> USE DEF Ordering!None
<1>0. req \in Int /\ req # -1 /\ p # -1 /\ req >= 0
      /\ \A r \in Ordering!ResourceIds : r \in Int
  BY DeadlockAssumption DEF Ordering!ResourceIds
<1>1. CASE Ordering!RequestInvalid(p, req)
  BY <1>1 DEF Ordering!RequestInvalid, Ordering!vars, Ascending
<1>2. CASE Ordering!RequestUnavailable(p, req)
  <2>1. current_resource[p] < req
    BY <1>0, <1>2 DEF Ordering!RequestUnavailable, Ordering!isValidResourceRequest,
                      Ordering!priority
  <2>2. QED BY <1>0, <1>2, <2>1 DEF Ordering!RequestUnavailable, Ascending
<1>3. CASE Ordering!RequestGranted(p, req)
  <2>1. /\ current_resource[p] < req
        /\ current_resource' = [current_resource EXCEPT ![p] = req]
        /\ owner' = [owner EXCEPT ![req] = p]
        /\ wanted' = [wanted EXCEPT ![p] = -1]
    BY <1>0, <1>3 DEF Ordering!RequestGranted, Ordering!isValidResourceRequest,
                      Ordering!priority
  <2>2. \A q \in Clients : current_resource[q] \in Int
    <3>1. Ordering!ResourceIds \cup {-1} \subseteq Int
      BY <1>0
    <3>2. QED BY <3>1 DEF Ascending
  <2>3. \A r \in Ordering!ResourceIds : owner'[r] # -1 => r <= current_resource'[owner'[r]]
    BY <1>0, <2>1, <2>2 DEF Ascending
  <2>4. \A q \in Clients : wanted'[q] # -1 => current_resource'[q] < wanted'[q]
    BY <2>1 DEF Ascending
  <2>5. QED BY <2>1, <2>3, <2>4 DEF Ascending
<1>4. QED BY <1>1, <1>2, <1>3 DEF Ordering!requestResource

\* In a circular wait the process that wants the greatest resource would want one
\* that its owner has already passed.
LEMMA AscendingSafe == Ascending => Ordering!NoDeadlock
<1> SUFFICES ASSUME Ascending, NEW C \in (SUBSET Clients) \ {{}},
                    \A p \in C : wanted[p] # -1 /\ owner[wanted[p]] \in C \ {p}
             PROVE  FALSE
  BY DEF Ordering!NoDeadlock, Ordering!None
<1>0. num_resources \in Nat /\ Ordering!ResourceIds = 0 .. num_resources - 1
  BY DeadlockAssumption DEF Ordering!ResourceIds
<1>1. \A p \in C : wanted[p] \in 0 .. num_resources - 1
  BY <1>0 DEF Ascending
<1> DEFINE T == {num_resources - wanted[p] : p \in C}
<1>2. T \subseteq Nat /\ T # {}
  BY <1>0, <1>1
<1>3. PICK x \in T : \A y \in T : x <= y
  <2> HIDE DEF T
  <2> QED BY <1>2, LeastNatural
<1>4. PICK p \in C : x = num_resources - wanted[p]
  BY <1>3
<1>5. PICK q \in C : owner[wanted[p]] = q
  OBVIOUS
<1>6. q \in Clients /\ q # -1 /\ current_resource[q] \in Int
  BY <1>0, DeadlockAssumption DEF Ascending
<1>7. wanted[p] <= current_resource[q]
  BY <1>0, <1>1, <1>5, <1>6 DEF Ascending
<1>8. current_resource[q] < wanted[q]
  BY <1>6 DEF Ascending
<1>9. num_resources - wanted[p] <= num_resources - wanted[q]
  BY <1>3, <1>4
<1>10. wanted[p] \in Int /\ wanted[q] \in Int
  BY <1>1
<1>11. QED BY <1>0, <1>6, <1>7, <1>8, <1>9, <1>10

\* Requests in increasing order never end in a circular wait, for any number of
\* resources and clients.
THEOREM OrderedRequests == MCSpec => []OrderingNoDeadlock
<1> DEFINE Inv == tool = "ordering" => Ascending
<1>1. MCInit => Inv
  BY AscendingInit DEF MCInit
<1>2. Inv /\ [MCNext]_allVars => Inv'
  <2> SUFFICES ASSUME Inv, [MCNext]_allVars PROVE Inv'
    OBVIOUS
  <2>1. CASE MCNext
    BY <2>1, AscendingStep DEF MCNext, orderingVars, Ascending
  <2>2. CASE UNCHANGED allVars
    BY <2>2 DEF allVars, orderingVars, Ascending
  <2>3. QED BY <2>1, <2>2
<1>3. Inv => OrderingNoDeadlock
  BY AscendingSafe DEF OrderingNoDeadlock
<1> HIDE DEF Inv
<1>4. QED BY <1>1, <1>2, <1>3, PTL DEF MCSpec

-----------------------------------------------------------------------------
(* Wait-for_graph.c *)

Vertex(k) == frames[k].vertex
Depth == Len(frames)

\* The vertices whose call has returned 0.
Black == visited \ recStack

\* Some processes of S wait only for one another.
CycleIn(S) == \E C \in (SUBSET S) \ {{}} : \A v \in C : matrix[v] \cap C # {}

\* The calls of detectCycleDFS in progress follow a path of the graph, without
\* repetition, and recStack holds just their vertices.
OnPath ==
    /\ \A v \in recStack : \E k \in 1 .. Depth : Vertex(k) = v
    /\ \A k \in 1 .. Depth : Vertex(k) \in recStack
    /\ \A j, k \in 1 .. Depth : Vertex(j) = Vertex(k) => j = k
    /\ \A k \in 1 .. Depth - 1 :
          frames[k].i \in matrix[Vertex(k)] /\ Vertex(k + 1) = frames[k].i

\* What a call has looked at and what a finished one leaves behind is finished,
\* and no cycle is among the finished.
Explored ==
    /\ \A v \in Black : matrix[v] \subseteq Black
    /\ \A k \in 1 .. Depth : \A w \in matrix[Vertex(k)] : w < frames[k].i => w \in Black
    /\ ~CycleIn(Black)

\* detectDeadLock has visited all the roots it is past.
RootsVisited == \A v \in Graph!Vertices : v < root => v \in visited

SearchInv == Graph!TypeOK /\ OnPath /\ Explored /\ RootsVisited /\ Graph!SearchExact

LEMMA SearchInit == Graph!Init => SearchInv
<1> SUFFICES ASSUME Graph!Init PROVE SearchInv
  OBVIOUS
<1> USE DEF Graph!Init
<1>0. processes \in Nat
  BY DeadlockAssumption
<1>1. Depth = 0 /\ Black = {}
  BY DEF Depth, Black
<1>2. Graph!TypeOK
  BY <1>0 DEF Graph!TypeOK
<1>3. OnPath
  BY <1>1 DEF OnPath
<1>4. Explored
  BY <1>1 DEF Explored, CycleIn
<1>5. RootsVisited
  BY <1>0 DEF RootsVisited, Graph!Vertices
<1>6. Graph!SearchExact
  BY DEF Graph!SearchExact
<1>7. QED BY <1>2, <1>3, <1>4, <1>5, <1>6 DEF SearchInv

\* Elements and front of a sequence.
LEMMA SeqParts ==
    ASSUME NEW S, NEW q \in Seq(S)
    PROVE  /\ \A k \in 1 .. Len(q) : q[k] \in S
           /\ Len(q) # 0 => /\ SubSeq(q, 1, Len(q) - 1) \in Seq(S)
                            /\ Len(SubSeq(q, 1, Len(q) - 1)) = Len(q) - 1
                            /\ \A k \in 1 .. Len(q) - 1 : SubSeq(q, 1, Len(q) - 1)[k] = q[k]
<1>1. \A k \in 1 .. Len(q) : q[k] \in S
  OBVIOUS
<1>2. ASSUME Len(q) # 0
      PROVE  /\ SubSeq(q, 1, Len(q) - 1) \in Seq(S)
             /\ Len(SubSeq(q, 1, Len(q) - 1)) = Len(q) - 1
             /\ \A k \in 1 .. Len(q) - 1 : SubSeq(q, 1, Len(q) - 1)[k] = q[k]
  <2>1. Len(q) \in Nat /\ Len(q) - 1 \in Nat
    BY <1>2
  <2>2. \A k \in 1 .. Len(q) - 1 : q[k] \in S /\ 1 + k - 1 = k
    BY <1>1, <2>1
  <2>3. PICK m \in Nat : m = Len(q) - 1
    BY <2>1
  <2>4. m - 1 + 1 = m /\ (~(1 <= m) => m = 0) /\ 1 \in Int /\ m \in Int
    OBVIOUS
  <2>5. \A k \in 1 .. m : q[k] \in S /\ 1 + k - 1 = k
    BY <2>2, <2>3
  <2>6. /\ SubSeq(q, 1, m) \in Seq(S) /\ Len(SubSeq(q, 1, m)) = m
        /\ \A k \in 1 .. m : SubSeq(q, 1, m)[k] = q[k]
    BY <2>4, <2>5, SubSeqProperties
  <2>7. QED BY <2>3, <2>6
<1>3. QED BY <1>1, <1>2

\* A call on an unvisited vertex lengthens the path by it.
LEMMA EnterStep ==
    ASSUME SearchInv, NEW v \in Graph!Vertices, v \notin visited,
           Graph!Enter(v, frames), UNCHANGED <<matrix, verdict>>,
           frames # <<>> => Graph!Top.i = v /\ v \in matrix[Graph!Top.vertex],
           root' \in 0 .. processes
    PROVE  Graph!TypeOK' /\ OnPath' /\ Explored' /\ visited \subseteq visited'
<1> USE DEF SearchInv
<1>n. PICK n \in Nat : n = Depth
  BY DEF Graph!TypeOK, Depth
<1>0. /\ frames \in Seq([vertex : Graph!Vertices, i : 0 .. processes]) /\ n = Len(frames)
      /\ processes \in Nat /\ recStack \subseteq visited /\ visited \subseteq Graph!Vertices
      /\ recStack = {Vertex(k) : k \in 1 .. n}
  BY <1>n, DeadlockAssumption DEF Graph!TypeOK, Depth, OnPath
<1>1. /\ visited' = visited \cup {v} /\ recStack' = recStack \cup {v}
      /\ frames' = Append(frames, [vertex |-> v, i |-> 0])
  BY DEF Graph!Enter
<1>2. [vertex |-> v, i |-> 0] \in [vertex : Graph!Vertices, i : 0 .. processes]
  BY <1>0
<1>3. /\ frames' \in Seq([vertex : Graph!Vertices, i : 0 .. processes])
      /\ Depth' = n + 1 /\ frames'[n + 1] = [vertex |-> v, i |-> 0]
      /\ \A k \in 1 .. n : frames'[k] = frames[k]
  BY <1>0, <1>1, <1>2 DEF Depth
<1>4. /\ Vertex(n + 1)' = v /\ frames'[n + 1].i = 0
      /\ \A k \in 1 .. n : Vertex(k)' = Vertex(k) /\ frames'[k].i = frames[k].i
  BY <1>3 DEF Vertex
<1>5. Graph!TypeOK'
  BY <1>0, <1>1, <1>3 DEF Graph!TypeOK
<1>6. Black' = Black
  BY <1>0, <1>1 DEF Black
<1>7. \A k \in 1 .. n : Vertex(k) # v
  BY <1>0
<1>8. \A k \in 1 .. n + 1 : k \in 1 .. n \/ k = n + 1
  BY <1>0
<1>9. OnPath'
  <2>1. \A w \in recStack' : \E k \in 1 .. n + 1 : Vertex(k)' = w
    <3> TAKE w \in recStack'
    <3>1. CASE w = v
      <4>1. n + 1 \in 1 .. n + 1
        BY <1>0
      <4>2. QED BY <1>4, <3>1, <4>1
    <3>2. CASE w # v
      <4>1. PICK k \in 1 .. n : Vertex(k) = w
        BY <1>0, <1>1, <3>2
      <4>2. k \in 1 .. n + 1
        BY <1>0
      <4>3. QED BY <1>4, <4>1, <4>2
    <3>3. QED BY <3>1, <3>2
  <2>2. \A k \in 1 .. n + 1 : Vertex(k)' \in recStack'
    <3> TAKE k \in 1 .. n + 1
    <3>1. CASE k \in 1 .. n
      BY <1>0, <1>1, <1>4, <3>1
    <3>2. CASE k = n + 1
      BY <1>1, <1>4, <3>2
    <3>3. QED BY <1>8, <3>1, <3>2
  <2>3. \A j, k \in 1 .. n + 1 : Vertex(j)' = Vertex(k)' => j = k
    BY <1>n, <1>4, <1>7, <1>8 DEF OnPath
  <2>4. ASSUME NEW k \in 1 .. n
        PROVE  frames'[k].i \in matrix'[Vertex(k)'] /\ Vertex(k + 1)' = frames'[k].i
    <3>1. CASE k = n
      <4>1. frames # <<>>
        BY <1>0, <3>1 DEF Depth
      <4>2. frames[n].i = v /\ v \in matrix[Vertex(n)]
        BY <1>0, <4>1 DEF Graph!Top, Vertex
      <4>3. QED BY <1>4, <3>1, <4>2
    <3>2. CASE k # n
      <4>1. k \in 1 .. n - 1 /\ k + 1 \in 1 .. n
        BY <1>0, <3>2
      <4>2. QED BY <1>n, <1>4, <4>1 DEF OnPath
    <3>3. QED BY <3>1, <3>2
  <2>5. n + 1 - 1 = n
    BY <1>0
  <2>6. QED BY <1>3, <2>1, <2>2, <2>3, <2>4, <2>5 DEF OnPath
<1>10. Explored'
  <2>1. \A w \in Black' : matrix'[w] \subseteq Black'
    BY <1>6 DEF Explored
  <2>2. ASSUME NEW k \in 1 .. n + 1, NEW w \in matrix'[Vertex(k)'], w < frames'[k].i
        PROVE  w \in Black'
    <3>1. CASE k \in 1 .. n
      BY <1>n, <1>4, <1>6, <2>2, <3>1 DEF Explored
    <3>2. CASE k = n + 1
      <4>1. matrix[v] \subseteq Graph!Vertices
        BY DEF Graph!TypeOK
      <4>2. w \in Nat /\ w < 0
        BY <1>0, <1>4, <2>2, <3>2, <4>1 DEF Graph!Vertices
      <4>3. QED BY <4>2
    <3>3. QED BY <1>8, <3>1, <3>2
  <2>3. ~CycleIn(Black)'
    BY <1>6 DEF Explored, CycleIn
  <2>4. QED BY <1>3, <2>1, <2>2, <2>3 DEF Explored
<1>11. QED BY <1>1, <1>5, <1>9, <1>10

\* The loop over the neighbours goes on past one that is no edge, or is finished.
LEMMA AdvanceStep ==
    ASSUME SearchInv, Graph!Running, Graph!Top.i < processes, frames' = Graph!NextI,
           Graph!Top.i \in matrix[Graph!Top.vertex] => Graph!Top.i \in Black,
           UNCHANGED <<matrix, visited, recStack, root, verdict>>
    PROVE  Graph!TypeOK' /\ OnPath' /\ Explored'
<1> USE DEF SearchInv
<1>n. PICK n \in Nat : n = Depth
  BY DEF Graph!TypeOK, Depth
<1>0. /\ frames \in Seq([vertex : Graph!Vertices, i : 0 .. processes]) /\ n = Len(frames)
      /\ processes \in Nat /\ frames # <<>> /\ n # 0
  BY <1>n, DeadlockAssumption DEF Graph!TypeOK, Depth, Graph!Running
<1>1. n \in 1 .. n /\ frames[n] \in [vertex : Graph!Vertices, i : 0 .. processes]
  <2>1. n \in 1 .. n
    BY <1>0
  <2>2. QED BY <1>0, <2>1, SeqParts
<1>2. PICK v \in Graph!Vertices, c \in 0 .. processes : frames[n] = [vertex |-> v, i |-> c]
  BY <1>1
<1>3. v = Vertex(n) /\ c = Graph!Top.i /\ Graph!Top.vertex = v /\ c + 1 \in 0 .. processes
  BY <1>0, <1>2 DEF Vertex, Graph!Top
<1>4. frames' = [frames EXCEPT ![n] = [vertex |-> v, i |-> c + 1]]
  <2>1. [frames[n] EXCEPT !.i = @ + 1] = [vertex |-> v, i |-> c + 1]
    BY <1>2
  <2>2. frames' = [frames EXCEPT ![n] = [frames[n] EXCEPT !.i = @ + 1]]
    BY <1>0, <1>1 DEF Graph!NextI
  <2>3. QED BY <2>1, <2>2
<1>5. /\ frames' \in Seq([vertex : Graph!Vertices, i : 0 .. processes])
      /\ Len(frames') = n /\ frames'[n] = [vertex |-> v, i |-> c + 1]
      /\ \A k \in 1 .. n : k # n => frames'[k] = frames[k]
  BY <1>0, <1>1, <1>3, <1>4
<1>6. /\ Depth' = n
      /\ \A k \in 1 .. n : Vertex(k)' = Vertex(k)
      /\ \A k \in 1 .. n : k # n => frames'[k].i = frames[k].i
      /\ frames'[n].i = c + 1 /\ frames[n].i = c
  BY <1>2, <1>3, <1>5 DEF Depth, Vertex
<1>7. Graph!TypeOK'
  BY <1>5 DEF Graph!TypeOK
<1>8. OnPath'
  <2>1. \A k \in 1 .. n - 1 : k \in 1 .. n /\ k + 1 \in 1 .. n /\ k # n
    OBVIOUS
  <2>2. \A k \in 1 .. n - 1 :
           frames'[k].i \in matrix'[Vertex(k)'] /\ Vertex(k + 1)' = frames'[k].i
    BY <1>n, <1>6, <2>1 DEF OnPath
  <2>3. /\ \A w \in recStack' : \E k \in 1 .. n : Vertex(k)' = w
        /\ \A k \in 1 .. n : Vertex(k)' \in recStack'
        /\ \A j, k \in 1 .. n : Vertex(j)' = Vertex(k)' => j = k
    BY <1>n, <1>6 DEF OnPath
  <2>4. QED BY <1>6, <2>2, <2>3 DEF OnPath
<1>9. Explored'
  <2>0. Black' = Black /\ matrix' = matrix
    BY DEF Black
  <2>1. ASSUME NEW k \in 1 .. n, NEW w \in matrix[Vertex(k)], w < frames'[k].i
        PROVE  w \in Black
    <3>1. CASE k # n
      BY <1>n, <1>6, <2>1, <3>1 DEF Explored
    <3>2. CASE k = n
      <4>1. w \in Int
        <5>1. matrix[v] \subseteq Graph!Vertices
          BY DEF Graph!TypeOK
        <5>2. QED BY <1>0, <1>3, <2>1, <3>2, <5>1 DEF Graph!Vertices
      <4>2. w < c \/ w = c
        BY <1>6, <2>1, <3>2, <4>1
      <4>3. CASE w < c
        BY <1>n, <1>6, <2>1, <3>2, <4>3 DEF Explored
      <4>4. CASE w = c
        BY <1>3, <2>1, <3>2, <4>4
      <4>5. QED BY <4>2, <4>3, <4>4
    <3>3. QED BY <3>1, <3>2
  <2>2. ~CycleIn(Black)'
    BY <2>0 DEF Explored, CycleIn
  <2>3. QED BY <1>6, <2>0, <2>1, <2>2 DEF Explored
<1>10. QED BY <1>7, <1>8, <1>9

\* A call that returns 0 finishes its vertex, all of whose neighbours are finished.
LEMMA LeaveStep ==
    ASSUME SearchInv, Graph!Leave
    PROVE  Graph!TypeOK' /\ OnPath' /\ Explored'
<1> USE DEF SearchInv
<1>n. PICK n \in Nat : n = Depth
  BY DEF Graph!TypeOK, Depth
<1>0. /\ frames \in Seq([vertex : Graph!Vertices, i : 0 .. processes]) /\ n = Len(frames)
      /\ processes \in Nat /\ n # 0 /\ recStack \subseteq visited
      /\ UNCHANGED <<matrix, visited, root, verdict>>
  BY <1>n, DeadlockAssumption DEF Graph!TypeOK, Depth, Graph!Running, Graph!Leave
<1>1. PICK u : u = Vertex(n) /\ frames[n].i = processes
  BY <1>0 DEF Vertex, Graph!Leave, Graph!Top
<1>2. frames' = SubSeq(frames, 1, n - 1) /\ recStack' = recStack \ {u}
  BY <1>0, <1>1 DEF Graph!Leave, Graph!Top, Vertex
<1>3. /\ frames' \in Seq([vertex : Graph!Vertices, i : 0 .. processes])
      /\ Len(frames') = n - 1
      /\ \A k \in 1 .. n - 1 : frames'[k] = frames[k]
  BY <1>0, <1>2, SeqParts
<1>4. /\ Depth' = n - 1
      /\ \A k \in 1 .. n - 1 : Vertex(k)' = Vertex(k) /\ frames'[k].i = frames[k].i
  BY <1>3 DEF Depth, Vertex
<1>5. Graph!TypeOK'
  BY <1>0, <1>2, <1>3 DEF Graph!TypeOK
<1>6. n \in 1 .. n /\ \A k \in 1 .. n - 1 : k \in 1 .. n /\ k # n
  BY <1>0
<1>7. \A k \in 1 .. n : k \in 1 .. n - 1 \/ k = n
  BY <1>0
<1>8. OnPath'
  <2>1. \A w \in recStack' : \E k \in 1 .. n - 1 : Vertex(k)' = w
    BY <1>n, <1>1, <1>2, <1>4, <1>7 DEF OnPath
  <2>2. \A k \in 1 .. n - 1 : Vertex(k)' \in recStack'
    BY <1>n, <1>1, <1>2, <1>4, <1>6 DEF OnPath
  <2>3. \A j, k \in 1 .. n - 1 : Vertex(j)' = Vertex(k)' => j = k
    BY <1>n, <1>4, <1>6 DEF OnPath
  <2>4. \A k \in 1 .. n - 1 - 1 : k \in 1 .. n - 1 /\ k + 1 \in 1 .. n - 1
    BY <1>0
  <2>5. \A k \in 1 .. n - 1 - 1 :
           frames'[k].i \in matrix'[Vertex(k)'] /\ Vertex(k + 1)' = frames'[k].i
    BY <1>n, <1>0, <1>4, <2>4 DEF OnPath
  <2>6. QED BY <1>4, <2>1, <2>2, <2>3, <2>5 DEF OnPath
<1>9. Explored'
  <2>1. u \in recStack /\ u \in Graph!Vertices
    <3>1. frames[n] \in [vertex : Graph!Vertices, i : 0 .. processes]
      BY <1>0, <1>6, SeqParts
    <3>2. QED BY <1>n, <1>1, <1>6, <3>1 DEF OnPath, Vertex
  <2>2. Black' = Black \cup {u} /\ u \notin Black
    BY <1>0, <1>2, <2>1 DEF Black
  <2>3. matrix[u] \subseteq Black
    <3>1. \A w \in matrix[u] : w < processes
      BY <1>0, <2>1 DEF Graph!TypeOK, Graph!Vertices
    <3>2. QED BY <1>n, <1>1, <1>6, <3>1 DEF Explored
  <2>4. \A w \in Black' : matrix'[w] \subseteq Black'
    BY <1>0, <2>2, <2>3 DEF Explored
  <2>5. \A k \in 1 .. n - 1 : \A w \in matrix'[Vertex(k)'] : w < frames'[k].i => w \in Black'
    BY <1>n, <1>0, <1>4, <1>6, <2>2 DEF Explored
  <2>6. ~CycleIn(Black)'
    <3> SUFFICES ASSUME NEW C \in (SUBSET (Black \cup {u})) \ {{}},
                        \A v \in C : matrix[v] \cap C # {}
                 PROVE  FALSE
      BY <1>0, <2>2 DEF CycleIn
    <3>1. C \ {u} \in SUBSET Black
      OBVIOUS
    <3>2. C \ {u} # {}
      BY <2>2, <2>3
    <3>3. \A v \in C \ {u} : matrix[v] \cap (C \ {u}) # {}
      BY <2>2, <3>1 DEF Explored
    <3>4. QED BY <3>1, <3>2, <3>3 DEF Explored, CycleIn
  <2>7. QED BY <1>4, <2>4, <2>5, <2>6 DEF Explored
<1>10. QED BY <1>5, <1>8, <1>9

\* An edge back to a call in progress closes a cycle.
LEMMA CycleFound ==
    ASSUME SearchInv, Graph!Running, Graph!Top.i \in matrix[Graph!Top.vertex],
           Graph!Top.i \in recStack
    PROVE  Graph!Deadlocked
<1> USE DEF SearchInv
<1>n. PICK n \in Nat : n = Depth
  BY DEF Graph!TypeOK, Depth
<1>0. /\ frames \in Seq([vertex : Graph!Vertices, i : 0 .. processes]) /\ n = Len(frames)
      /\ n # 0
  BY <1>n DEF Graph!TypeOK, Depth, Graph!Running
<1>1. PICK m \in 1 .. n : Vertex(m) = Graph!Top.i
  BY <1>n DEF OnPath
<1> DEFINE C == {Vertex(k) : k \in m .. n}
<1>2. C \in SUBSET Graph!Vertices /\ C # {}
  <2>1. \A k \in m .. n : frames[k] \in [vertex : Graph!Vertices, i : 0 .. processes]
    <3>1. \A k \in m .. n : k \in 1 .. n
      OBVIOUS
    <3>2. QED BY <1>0, <3>1, SeqParts
  <2>2. \A k \in m .. n : Vertex(k) \in Graph!Vertices
    BY <2>1 DEF Vertex
  <2>3. m \in m .. n
    OBVIOUS
  <2>4. QED BY <2>2, <2>3
<1>3. ASSUME NEW k \in m .. n
      PROVE  matrix[Vertex(k)] \cap C # {}
  <2>1. CASE k = n
    <3>1. Vertex(m) \in matrix[Vertex(k)]
      BY <1>0, <1>1, <2>1 DEF Graph!Top, Vertex
    <3>2. m \in m .. n
      OBVIOUS
    <3>3. QED BY <3>1, <3>2
  <2>2. CASE k # n
    <3>1. k \in 1 .. n - 1 /\ k + 1 \in m .. n
      BY <1>0, <2>2
    <3>2. Vertex(k + 1) \in matrix[Vertex(k)]
      BY <1>n, <3>1 DEF OnPath
    <3>3. QED BY <3>1, <3>2
  <2>3. QED BY <2>1, <2>2
<1>4. \A v \in C : matrix[v] \cap C # {}
  BY <1>3
<1> HIDE DEF C
<1>5. QED BY <1>2, <1>4 DEF Graph!Deadlocked

\* Every step of detectDeadLock and detectCycleDFS.
LEMMA SearchStep == SearchInv /\ Graph!Next => SearchInv'
<1> SUFFICES ASSUME SearchInv, Graph!Next PROVE SearchInv'
  OBVIOUS
<1>0. /\ processes \in Nat /\ Graph!TypeOK /\ RootsVisited
      /\ \A v \in Graph!Vertices : v \in Int
  BY DeadlockAssumption DEF SearchInv, Graph!Vertices
<1>a. ASSUME Graph!TypeOK' /\ OnPath' /\ Explored', visited \subseteq visited',
             root' = root, verdict = "none", UNCHANGED verdict
      PROVE  SearchInv'
  <2>1. RootsVisited'
    BY <1>0, <1>a DEF RootsVisited
  <2>2. Graph!SearchExact'
    BY <1>a DEF Graph!SearchExact
  <2>3. QED BY <1>a, <2>1, <2>2 DEF SearchInv
<1>1. CASE Graph!StartRoot
  <2>1. /\ verdict = "none" /\ frames = <<>> /\ root < processes /\ root' = root + 1
        /\ UNCHANGED <<matrix, verdict>> /\ root \in Nat
    BY <1>0, <1>1 DEF Graph!StartRoot, Graph!TypeOK
  <2>2. root \in Graph!Vertices /\ root' \in 0 .. processes
    BY <1>0, <2>1 DEF Graph!Vertices
  <2>3. Graph!SearchExact'
    BY <2>1 DEF Graph!SearchExact
  <2>4. \A v \in Graph!Vertices : v < root' => v < root \/ v = root
    BY <1>0, <2>1
  <2>5. CASE root \notin visited
    <3>1. Graph!Enter(root, frames)
      BY <1>1, <2>5 DEF Graph!StartRoot
    <3>2. Graph!TypeOK' /\ OnPath' /\ Explored' /\ visited \subseteq visited'
      BY <2>1, <2>2, <2>5, <3>1, EnterStep
    <3>3. RootsVisited'
      BY <1>0, <2>4, <3>1, <3>2 DEF RootsVisited, Graph!Enter
    <3>4. QED BY <2>3, <3>2, <3>3 DEF SearchInv
  <2>6. CASE root \in visited
    <3>1. recStack' = recStack \ {root} /\ UNCHANGED <<visited, frames>>
      BY <1>1, <2>6 DEF Graph!StartRoot
    <3>2. Depth = 0
      BY <2>1 DEF Depth
    <3>3. recStack = {} /\ recStack' = {}
      BY <3>1, <3>2 DEF SearchInv, OnPath
    <3>4. Graph!TypeOK'
      BY <1>0, <2>1, <2>2, <3>1, <3>3 DEF Graph!TypeOK
    <3>5. OnPath'
      BY <3>1, <3>3, <3>2, <2>1 DEF SearchInv, OnPath, Depth
    <3>6. Explored'
      BY <3>1, <3>3, <2>1 DEF SearchInv, Explored, Depth, Black, Vertex, CycleIn
    <3>7. RootsVisited'
      BY <1>0, <2>4, <2>6, <3>1 DEF RootsVisited
    <3>8. QED BY <2>3, <3>4, <3>5, <3>6, <3>7 DEF SearchInv
  <2>7. QED BY <2>5, <2>6
<1>2. CASE Graph!SkipVertex
  BY <1>2, <1>a, AdvanceStep DEF Graph!SkipVertex, Graph!Running
<1>3. CASE Graph!Descend
  <2>1. /\ verdict = "none" /\ frames # <<>> /\ Graph!Top.i \in matrix[Graph!Top.vertex]
        /\ Graph!Top.i \notin visited /\ Graph!Enter(Graph!Top.i, frames)
        /\ UNCHANGED <<matrix, root, verdict>>
    BY <1>3 DEF Graph!Descend, Graph!Running
  <2>2. Graph!Top.i \in Graph!Vertices
    <3>1. frames \in Seq([vertex : Graph!Vertices, i : 0 .. processes])
      BY <1>0 DEF Graph!TypeOK
    <3>2. Len(frames) \in 1 .. Len(frames)
      BY <2>1, <3>1
    <3>3. Graph!Top \in [vertex : Graph!Vertices, i : 0 .. processes]
      BY <3>1, <3>2, SeqParts DEF Graph!Top
    <3>4. matrix[Graph!Top.vertex] \subseteq Graph!Vertices
      BY <1>0, <3>3 DEF Graph!TypeOK
    <3>5. QED BY <2>1, <3>4
  <2>3. root' \in 0 .. processes
    BY <1>0, <2>1 DEF Graph!TypeOK
  <2>4. PICK v \in Graph!Vertices : v = Graph!Top.i
    BY <2>2
  <2>5. Graph!TypeOK' /\ OnPath' /\ Explored' /\ visited \subseteq visited'
    BY <2>1, <2>3, <2>4, EnterStep
  <2>6. QED BY <1>a, <2>1, <2>5
<1>4. CASE Graph!VisitedNeighbour
  <2>1. /\ Graph!Running /\ verdict = "none"
        /\ Graph!Top.i < processes /\ Graph!Top.i \in matrix[Graph!Top.vertex]
        /\ Graph!Top.i \in visited
        /\ UNCHANGED <<matrix, visited, recStack, root>>
    BY <1>4 DEF Graph!VisitedNeighbour, Graph!Running
  <2>2. CASE Graph!Top.i \in recStack
    <3>1. verdict' = "cycle" /\ UNCHANGED frames
      BY <1>4, <2>2 DEF Graph!VisitedNeighbour
    <3>2. Graph!Deadlocked
      BY <2>1, <2>2, CycleFound
    <3>3. Graph!TypeOK'
      BY <1>0, <2>1, <3>1 DEF Graph!TypeOK
    <3>4. OnPath' /\ Explored' /\ RootsVisited'
      BY <2>1, <3>1
      DEF SearchInv, OnPath, Explored, RootsVisited, Depth, Vertex, Black, CycleIn
    <3>5. Graph!SearchExact'
      BY <2>1, <3>1, <3>2 DEF Graph!SearchExact, Graph!Deadlocked
    <3>6. QED BY <3>3, <3>4, <3>5 DEF SearchInv
  <2>3. CASE Graph!Top.i \notin recStack
    <3>1. frames' = Graph!NextI /\ UNCHANGED verdict
      BY <1>4, <2>3 DEF Graph!VisitedNeighbour
    <3>2. Graph!Top.i \in Black
      BY <2>1, <2>3 DEF Black
    <3>3. QED BY <1>a, <2>1, <3>1, <3>2, AdvanceStep
  <2>4. QED BY <2>2, <2>3
<1>5. CASE Graph!Leave
  BY <1>5, <1>a, LeaveStep DEF Graph!Leave, Graph!Running
<1>6. CASE Graph!AllRootsDone
  <2>1. /\ frames = <<>> /\ root = processes /\ verdict' = "clear"
        /\ UNCHANGED <<matrix, visited, recStack, frames, root>>
    BY <1>6 DEF Graph!AllRootsDone
  <2>2. Graph!TypeOK'
    BY <1>0, <2>1 DEF Graph!TypeOK
  <2>3. OnPath' /\ Explored' /\ RootsVisited'
    BY <2>1 DEF SearchInv, OnPath, Explored, RootsVisited, Depth, Vertex, Black, CycleIn
  <2>4. Black = Graph!Vertices
    <3>1. recStack = {}
      BY <2>1 DEF SearchInv, OnPath, Depth
    <3>2. visited = Graph!Vertices
      <4>1. \A v \in Graph!Vertices : v < processes
        BY <1>0 DEF Graph!Vertices
      <4>2. QED BY <1>0, <2>1, <4>1 DEF RootsVisited, Graph!TypeOK
    <3>3. QED BY <3>1, <3>2 DEF Black
  <2>5. ~Graph!Deadlocked
    BY <2>4 DEF SearchInv, Explored, CycleIn, Graph!Deadlocked
  <2>6. Graph!SearchExact'
    BY <2>1, <2>5 DEF Graph!SearchExact, Graph!Deadlocked
  <2>7. QED BY <2>2, <2>3, <2>6 DEF SearchInv
<1>7. QED BY <1>1, <1>2, <1>3, <1>4, <1>5, <1>6
      DEF Graph!Next, Graph!detectDeadLock, Graph!detectCycleDFS

\* detectDeadLock reports a deadlock exactly when the wait-for graph has one, for
\* every number of processes and every graph.
THEOREM SearchCorrect == MCSpec => []SearchExact
<1> DEFINE Inv == tool = "graph" => SearchInv
<1>1. MCInit => Inv
  BY SearchInit DEF MCInit
<1>2. Inv /\ [MCNext]_allVars => Inv'
  <2> SUFFICES ASSUME Inv, [MCNext]_allVars PROVE Inv'
    OBVIOUS
  <2>a. ASSUME SearchInv, UNCHANGED graphVars PROVE SearchInv'
    BY <2>a DEF graphVars, SearchInv, Graph!TypeOK, OnPath, Explored, RootsVisited, Depth,
                Vertex, Black, CycleIn, Graph!SearchExact, Graph!Deadlocked
  <2>1. CASE MCNext
    BY <2>1, SearchStep DEF MCNext
  <2>2. CASE UNCHANGED allVars
    BY <2>2, <2>a DEF allVars
  <2>3. QED BY <2>1, <2>2
<1>3. Inv => SearchExact
  BY DEF SearchExact, SearchInv
<1> HIDE DEF Inv
<1>4. QED BY <1>1, <1>2, <1>3, PTL DEF MCSpec
=============================================================================
