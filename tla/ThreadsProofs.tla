---------------------------- MODULE ThreadsProofs ----------------------------
(***************************************************************************)
(* The small thread programs, for all sizes.  Data-parallel work: the pieces *)
(* of the workers are disjoint and cover the array, so that every item is    *)
(* processed once.  Handoffs: how old a received value may be.  Counters:    *)
(* what may be printed with and without a lock.                              *)
(***************************************************************************)
EXTENDS MCThreads, FiniteSetTheorems, WellFoundedInduction, TLAPS

\* Every non-empty set of naturals has a least member.
LEMMA LeastNatural ==
    ASSUME NEW T, T \subseteq Nat, T # {}
    PROVE  \E x \in T : \A y \in T : x <= y
<1>1. PICK x \in T : \A y \in T : ~(<<y, x>> \in OpToRel(<, Nat))
  BY WFMin, NatLessThanWellFounded
<1>2. \A y \in T : ~(y < x)
  BY <1>1 DEF OpToRel
<1>3. \A y \in T : x <= y
  BY <1>2
<1>4. QED BY <1>3

\* Products of naturals are naturals and grow with a factor.
LEMMA Products ==
    ASSUME NEW c \in Nat
    PROVE  /\ \A a \in Nat : a * c \in Nat
           /\ \A a \in Nat, b \in Nat : a <= b => a * c <= b * c
<1>1. \A a \in Nat : a * c \in Nat
  OBVIOUS
<1>2. ASSUME NEW a \in Nat, NEW b \in Nat, a <= b
      PROVE  a * c <= b * c
  <2>1. b - a \in Nat
    BY <1>2
  <2>2. (b - a) * c \in Nat
    BY <2>1, <1>1
  <2>3. (b - a) * c = b * c - a * c
    OBVIOUS
  <2>4. QED BY <2>2, <2>3, <1>1
<1>3. QED BY <1>1, <1>2

\* All whole pieces together fit into the array.
LEMMA ChunkFits ==
    chunk_size \in Nat /\ NUM_WORKERS * chunk_size <= NUM_ITEMS
<1>1. ASSUME NEW n \in Nat, NEW d \in Nat \ {0}
      PROVE  n \div d \in Nat /\ d * (n \div d) <= n
  OBVIOUS
<1>2. QED BY <1>1, WorkAssumption DEF chunk_size

\* The pieces lie one behind the other.
LEMMA PieceBounds ==
    /\ Start(0) = 0
    /\ End(NUM_WORKERS - 1) = NUM_ITEMS
    /\ \A w \in Workers : /\ Start(w) \in Nat /\ End(w) \in Nat
                          /\ Start(w) <= End(w) /\ End(w) <= NUM_ITEMS
                          /\ w + 1 \in Workers => End(w) = Start(w + 1)
    /\ \A w, v \in Workers : w < v => End(w) <= Start(v)
<1> USE WorkAssumption, ChunkFits
<1> DEFINE c == chunk_size
<1>1. c \in Nat /\ NUM_WORKERS * c <= NUM_ITEMS
  OBVIOUS
<1> HIDE DEF c
<1>2. \A a \in Nat : a * c \in Nat
  BY <1>1, Products
<1>3. \A a \in Nat, b \in Nat : a <= b => a * c <= b * c
  BY <1>1, Products
<1>4. \A w \in Workers : Start(w) = w * c
  BY DEF Start, c
<1>5. \A w \in Workers : End(w) = IF w = NUM_WORKERS - 1 THEN NUM_ITEMS ELSE (w + 1) * c
  BY DEF End, c
<1>6. \A w \in Workers : /\ w \in Nat /\ w + 1 \in Nat /\ w <= w + 1 /\ w + 1 <= NUM_WORKERS
  BY DEF Workers
<1>7. \A w \in Workers : /\ w * c \in Nat /\ (w + 1) * c \in Nat
                         /\ w * c <= (w + 1) * c /\ (w + 1) * c <= NUM_WORKERS * c
  BY <1>2, <1>3, <1>6
<1>8. \A w \in Workers : /\ Start(w) \in Nat /\ End(w) \in Nat
                         /\ Start(w) <= End(w) /\ End(w) <= NUM_ITEMS
  <2>1. NUM_WORKERS * c \in Nat
    BY <1>2
  <2>2. TAKE w \in Workers
  <2>3. QED BY <1>1, <1>4, <1>5, <1>7, <2>1
<1>9. \A w \in Workers : w + 1 \in Workers => End(w) = Start(w + 1)
  BY <1>4, <1>5, <1>6 DEF Workers
<1>10. ASSUME NEW w \in Workers, NEW v \in Workers, w < v
       PROVE  End(w) <= Start(v)
  <2>1. w # NUM_WORKERS - 1 /\ w + 1 <= v
    BY <1>10 DEF Workers
  <2>2. (w + 1) * c <= v * c
    BY <1>3, <1>6, <2>1
  <2>3. QED BY <1>4, <1>5, <2>1, <2>2
<1>11. 0 \in Workers /\ NUM_WORKERS - 1 \in Workers
  BY DEF Workers
<1>12. Start(0) = 0
  <2>1. Start(0) = 0 * c
    BY <1>4, <1>11
  <2>2. 0 * c = 0
    BY <1>1
  <2>3. QED BY <2>1, <2>2
<1>13. QED BY <1>5, <1>8, <1>9, <1>10, <1>11, <1>12

\* No item is in two pieces ...
LEMMA PiecesDisjoint ==
    ASSUME NEW w \in Workers, NEW v \in Workers, w # v
    PROVE  Piece(w) \cap Piece(v) = {}
<1>1. \A k \in Items : k \in Int
  BY WorkAssumption DEF Items
<1>2. w < v \/ v < w
  BY WorkAssumption DEF Workers
<1>3. End(w) <= Start(v) \/ End(v) <= Start(w)
  BY <1>2, PieceBounds
<1>4. QED BY <1>1, <1>3, PieceBounds DEF Piece

\* ... and every item is in one.
LEMMA PiecesCover ==
    ASSUME NEW k \in Items
    PROVE  \E w \in Workers : k \in Piece(w)
<1> DEFINE T == {w \in Workers : k < End(w)}
<1>1. k \in Nat /\ k < NUM_ITEMS
  BY WorkAssumption DEF Items
<1>2. NUM_WORKERS - 1 \in T /\ T \subseteq Nat
  BY <1>1, WorkAssumption, PieceBounds DEF Workers
<1>3. PICK w \in T : \A v \in T : w <= v
  BY <1>2, LeastNatural
<1>4. CASE w = 0
  BY <1>1, <1>3, <1>4, PieceBounds DEF Piece
<1>5. CASE w # 0
  <2>1. w - 1 \in Workers /\ w - 1 \notin T /\ (w - 1) + 1 = w
    BY <1>2, <1>3, <1>5, WorkAssumption DEF Workers
  <2>2. End(w - 1) <= k
    BY <1>1, <2>1, PieceBounds
  <2>3. End(w - 1) = Start(w)
    BY <2>1, PieceBounds
  <2>4. QED BY <1>3, <2>2, <2>3 DEF Piece
<1>6. QED BY <1>4, <1>5
-----------------------------------------------------------------------------
(* The inductive invariant *)

\* The loop of a worker stays within its piece.
Loops ==
    \A w \in Workers :
        /\ worker[w] = "none" <=> w >= started
        /\ worker[w] = "failed" => kind = "process"
        /\ worker[w] \in {"read", "write"} => Start(w) <= index[w] /\ index[w] <= End(w)
        /\ worker[w] = "write" => index[w] < End(w) /\ value[w] = 0
        /\ worker[w] \in {"ended", "joined"} => index[w] = End(w)

Done(w, k) == IF worker[w] \notin {"none", "failed"} /\ k < index[w] THEN 1 ELSE 0

\* The items behind the loop counter of their worker have been processed once,
\* the others not at all.
Progress == \A w \in Workers : \A k \in Piece(w) : array[k] = Done(w, k)

Joined == {w \in Workers : worker[w] = "joined"}
AllSettled == \A w \in Workers : worker[w] \in {"joined", "failed"}

\* Every call that waited took a worker, unless no worker was left.
Joins ==
    /\ waited > 0 => started = NUM_WORKERS
    /\ kind = "thread" => \A w \in Workers : w < waited => worker[w] = "joined"
    /\ kind = "process" => AllSettled \/ waited <= Cardinality(Joined)

IInv == TypeOK /\ Loops /\ Progress /\ Joins

LEMMA WorkersFinite == IsFiniteSet(Workers) /\ Cardinality(Workers) = NUM_WORKERS
<1>1. 0 \in Int /\ NUM_WORKERS - 1 \in Int
  BY WorkAssumption
<1>2. Cardinality(Workers) = IF 0 > NUM_WORKERS - 1 THEN 0 ELSE NUM_WORKERS - 1 - 0 + 1
  BY <1>1, FS_Interval DEF Workers
<1>3. QED BY <1>1, <1>2, FS_Interval, WorkAssumption DEF Workers

LEMMA JoinedFinite == IsFiniteSet(Joined)
BY WorkersFinite, FS_Subset DEF Joined

LEMMA InitInv == Init => IInv
<1> SUFFICES ASSUME Init PROVE IInv
  OBVIOUS
<1> USE WorkAssumption
<1>1. TypeOK
  BY DEF Init, TypeOK
<1>2. Loops
  BY DEF Init, Loops, Workers
<1>3. Progress
  BY DEF Init, Progress, Done, Piece
<1>4. Joined = {}
  BY DEF Init, Joined
<1>5. Joins
  BY <1>4, FS_EmptySet DEF Init, Joins, Workers
<1>6. QED BY <1>1, <1>2, <1>3, <1>5 DEF IInv

\* A step that leaves the waiting alone and no worker settled.
LEMMA JoinsKept ==
    ASSUME IInv, UNCHANGED <<kind, waited>>,
           waited > 0 => started' = started,
           \A w \in Workers : worker[w] = "joined" <=> worker'[w] = "joined",
           \E w \in Workers : worker[w] \notin {"joined", "failed"}
    PROVE  Joins'
<1>1. Joined' = Joined
  BY DEF Joined
<1>2. ~AllSettled
  BY DEF AllSettled
<1>3. kind = "process" => waited <= Cardinality(Joined)
  BY <1>2 DEF IInv, Joins
<1>4. (kind = "process" => waited <= Cardinality(Joined))'
  BY <1>1, <1>3
<1>5. QED BY <1>4 DEF IInv, Joins

LEMMA StartWorkerInv == ASSUME IInv, StartWorker PROVE IInv'
<1> USE WorkAssumption DEF StartWorker
<1> DEFINE s == started
<1>1. s \in Workers /\ worker[s] = "none" /\ waited = 0
  BY DEF IInv, TypeOK, Loops, Joins, Workers
<1>2. Start(s) \in 0 .. NUM_ITEMS /\ Start(s) <= End(s)
  BY <1>1, PieceBounds
<1>3. TypeOK'
  BY <1>1, <1>2 DEF IInv, TypeOK
<1>4. Loops'
  BY <1>1, <1>2 DEF IInv, TypeOK, Loops, Workers
<1>5. ASSUME NEW w \in Workers, NEW k \in Piece(w)
      PROVE  array'[k] = Done(w, k)'
  <2>1. array'[k] = Done(w, k)
    BY <1>5 DEF IInv, Progress
  <2>2. CASE w = s
    <3>1. k >= Start(s) /\ k \in Int
      BY <2>2 DEF Piece, Items
    <3>2. Done(w, k) = 0
      BY <1>1, <2>2 DEF Done
    <3>3. Done(w, k)' = 0
      BY <1>1, <1>2, <2>2, <3>1 DEF Done, IInv, TypeOK
    <3>4. QED BY <2>1, <3>2, <3>3
  <2>3. CASE w # s
    BY <1>1, <2>1, <2>3 DEF Done, IInv, TypeOK
  <2>4. QED BY <2>2, <2>3
<1>6. Progress'
  BY <1>5 DEF Progress, Piece, Start, End
<1>7. Joins'
  <2>1. \A w \in Workers : worker[w] = "joined" <=> worker'[w] = "joined"
    BY <1>1 DEF IInv, TypeOK
  <2>2. QED BY <1>1, <2>1, JoinsKept
<1>8. QED BY <1>3, <1>4, <1>6, <1>7 DEF IInv

LEMMA ForkFailsInv == ASSUME IInv, ForkFails PROVE IInv'
<1> USE WorkAssumption DEF ForkFails
<1> DEFINE s == started
<1>1. s \in Workers /\ worker[s] = "none" /\ waited = 0
  BY DEF IInv, TypeOK, Loops, Joins, Workers
<1>2. TypeOK'
  BY <1>1 DEF IInv, TypeOK
<1>3. Loops'
  BY <1>1 DEF IInv, TypeOK, Loops, Workers
<1>4. \A w \in Workers : \A k : Done(w, k)' = Done(w, k)
  BY <1>1 DEF Done, IInv, TypeOK
<1>5. Progress'
  BY <1>4 DEF IInv, Progress, Piece, Start, End
<1>6. Joins'
  <2>1. \A w \in Workers : worker[w] = "joined" <=> worker'[w] = "joined"
    BY <1>1 DEF IInv, TypeOK
  <2>2. QED BY <1>1, <2>1, JoinsKept
<1>7. QED BY <1>2, <1>3, <1>5, <1>6 DEF IInv

LEMMA JoinThreadInv == ASSUME IInv, JoinThread PROVE IInv'
<1> USE WorkAssumption DEF JoinThread
<1>1. waited \in Workers
  BY DEF IInv, TypeOK, Workers
<1>2. TypeOK'
  BY <1>1 DEF IInv, TypeOK
<1>3. Loops'
  BY <1>1 DEF IInv, TypeOK, Loops, Workers
<1>4. \A w \in Workers : \A k : Done(w, k)' = Done(w, k)
  BY <1>1 DEF Done, IInv, TypeOK
<1>5. Progress'
  BY <1>4 DEF IInv, Progress, Piece, Start, End
<1>6. Joins'
  BY <1>1 DEF IInv, TypeOK, Joins, Workers
<1>7. QED BY <1>2, <1>3, <1>5, <1>6 DEF IInv

LEMMA WaitChildInv == ASSUME IInv, WaitChild PROVE IInv'
<1> USE WorkAssumption DEF WaitChild
<1>1. PICK v \in Workers : /\ worker[v] = "ended"
                           /\ worker' = [worker EXCEPT ![v] = "joined"]
  OBVIOUS
<1>2. TypeOK'
  BY <1>1 DEF IInv, TypeOK
<1>3. Loops'
  BY <1>1 DEF IInv, TypeOK, Loops, Workers
<1>4. \A w \in Workers : \A k : Done(w, k)' = Done(w, k)
  BY <1>1 DEF Done, IInv, TypeOK
<1>5. Progress'
  BY <1>4 DEF IInv, Progress, Piece, Start, End
<1>6. Joins'
  <2>1. waited <= Cardinality(Joined)
    BY <1>1 DEF IInv, Joins, AllSettled
  <2>2. Joined' = Joined \cup {v} /\ v \notin Joined
    BY <1>1 DEF Joined, IInv, TypeOK
  <2>3. Cardinality(Joined') = Cardinality(Joined) + 1 /\ Cardinality(Joined) \in Nat
    BY <2>2, JoinedFinite, FS_AddElement, FS_CardinalityType
  <2>4. waited' <= Cardinality(Joined)'
    BY <2>1, <2>3 DEF IInv, TypeOK
  <2>5. QED BY <2>4 DEF IInv, TypeOK, Joins
<1>7. QED BY <1>2, <1>3, <1>5, <1>6 DEF IInv

LEMMA WaitNobodyInv == ASSUME IInv, WaitNobody PROVE IInv'
<1> USE WorkAssumption DEF WaitNobody
<1>1. TypeOK'
  BY DEF IInv, TypeOK
<1>2. Loops'
  BY DEF IInv, Loops
<1>3. Progress'
  BY DEF IInv, Progress, Piece, Start, End, Done
<1>4. AllSettled'
  BY DEF AllSettled
<1>5. Joins'
  BY <1>4 DEF IInv, Joins
<1>6. QED BY <1>1, <1>2, <1>3, <1>5 DEF IInv

LEMMA ReadInv == ASSUME IInv, NEW v \in Workers, Read(v) PROVE IInv'
<1> USE WorkAssumption DEF Read
<1>1. /\ Start(v) <= index[v] /\ index[v] < End(v) /\ End(v) <= NUM_ITEMS
      /\ index[v] \in Nat /\ End(v) \in Nat
  BY PieceBounds DEF IInv, TypeOK, Loops
<1>2. index[v] \in Piece(v) /\ index[v] \in Items
  BY <1>1, PieceBounds DEF Piece, Items
<1>3. array[index[v]] = 0
  BY <1>1, <1>2 DEF IInv, Progress, Done
<1>4. TypeOK'
  BY <1>3 DEF IInv, TypeOK
<1>5. Loops'
  BY <1>1, <1>3 DEF IInv, TypeOK, Loops
<1>6. \A w \in Workers : \A k : Done(w, k)' = Done(w, k)
  BY DEF Done, IInv, TypeOK
<1>7. Progress'
  BY <1>6 DEF IInv, Progress, Piece, Start, End
<1>8. Joins'
  <2>1. \A w \in Workers : worker[w] = "joined" <=> worker'[w] = "joined"
    BY DEF IInv, TypeOK
  <2>2. QED BY <2>1, JoinsKept
<1>9. QED BY <1>4, <1>5, <1>7, <1>8 DEF IInv

LEMMA WriteInv == ASSUME IInv, NEW v \in Workers, Write(v) PROVE IInv'
<1> USE WorkAssumption DEF Write
<1>1. /\ Start(v) <= index[v] /\ index[v] < End(v) /\ End(v) <= NUM_ITEMS
      /\ index[v] \in Nat /\ End(v) \in Nat /\ value[v] = 0
  BY PieceBounds DEF IInv, TypeOK, Loops
<1>2. index[v] \in Piece(v) /\ index[v] \in Items
  BY <1>1, PieceBounds DEF Piece, Items
<1>3. array' = [array EXCEPT ![index[v]] = 1]
  BY <1>1
<1>4. TypeOK'
  <2>1. array' \in [Items -> Nat]
    BY <1>2, <1>3 DEF IInv, TypeOK
  <2>2. index[v] + 1 \in 0 .. NUM_ITEMS
    BY <1>1
  <2>3. QED BY <2>1, <2>2 DEF IInv, TypeOK
<1>5. Loops'
  <2>1. \A w \in Workers : Start(w)' = Start(w) /\ End(w)' = End(w)
    BY DEF Start, End
  <2>2. ASSUME NEW w \in Workers, w = v
        PROVE  worker'[w] = "read" /\ worker[w] = "write" /\ index'[w] = index[w] + 1
    BY <2>2 DEF IInv, TypeOK
  <2>3. ASSUME NEW w \in Workers, w # v
        PROVE  worker'[w] = worker[w] /\ index'[w] = index[w]
    BY <2>3 DEF IInv, TypeOK
  <2>4. worker[v] # "none" /\ worker[v] # "failed" /\ ~(v >= started)
    BY DEF IInv, Loops
  <2>5. Start(v) <= index[v] + 1 /\ index[v] + 1 <= End(v)
    BY <1>1, PieceBounds
  <2>6. QED BY <2>1, <2>2, <2>3, <2>4, <2>5 DEF IInv, Loops
<1>6. ASSUME NEW w \in Workers, NEW k \in Piece(w)
      PROVE  array'[k] = Done(w, k)'
  <2>1. array[k] = Done(w, k) /\ k \in Items /\ k \in Int
    BY <1>6 DEF IInv, Progress, Piece, Items
  <2>2. CASE w # v
    <3>1. k # index[v]
      BY <1>2, <2>2, PiecesDisjoint
    <3>2. array'[k] = array[k]
      BY <1>3, <2>1, <3>1 DEF IInv, TypeOK
    <3>3. Done(w, k)' = Done(w, k)
      BY <2>2 DEF Done, IInv, TypeOK
    <3>4. QED BY <2>1, <3>2, <3>3
  <2>3. CASE w = v
    <3>1. Done(v, k) = IF k < index[v] THEN 1 ELSE 0
      BY DEF Done
    <3>2. Done(v, k)' = IF k < index[v] + 1 THEN 1 ELSE 0
      BY DEF Done, IInv, TypeOK
    <3>3. QED BY <1>1, <1>2, <1>3, <2>1, <2>3, <3>1, <3>2 DEF IInv, TypeOK
  <2>4. QED BY <2>2, <2>3
<1>7. Progress'
  BY <1>6 DEF Progress, Piece, Start, End
<1>8. Joins'
  <2>1. \A w \in Workers : worker[w] = "joined" <=> worker'[w] = "joined"
    BY DEF IInv, TypeOK
  <2>2. QED BY <2>1, JoinsKept
<1>9. QED BY <1>4, <1>5, <1>7, <1>8 DEF IInv

LEMMA LeaveInv == ASSUME IInv, NEW v \in Workers, Leave(v) PROVE IInv'
<1> USE WorkAssumption DEF Leave
<1>1. index[v] = End(v)
  BY PieceBounds DEF IInv, TypeOK, Loops
<1>2. TypeOK'
  BY DEF IInv, TypeOK
<1>3. Loops'
  BY <1>1 DEF IInv, TypeOK, Loops, Start, End
<1>4. \A w \in Workers : \A k : Done(w, k)' = Done(w, k)
  BY DEF Done, IInv, TypeOK
<1>5. Progress'
  BY <1>4 DEF IInv, Progress, Piece, Start, End
<1>6. Joins'
  <2>1. \A w \in Workers : worker[w] = "joined" <=> worker'[w] = "joined"
    BY DEF IInv, TypeOK
  <2>2. QED BY <2>1, JoinsKept
<1>7. QED BY <1>2, <1>3, <1>5, <1>6 DEF IInv

LEMMA StepInv == IInv /\ [Next]_vars => IInv'
<1> SUFFICES ASSUME IInv, [Next]_vars PROVE IInv'
  OBVIOUS
<1>1. CASE StartWorker
  BY <1>1, StartWorkerInv
<1>2. CASE ForkFails
  BY <1>2, ForkFailsInv
<1>3. CASE JoinThread
  BY <1>3, JoinThreadInv
<1>4. CASE WaitChild
  BY <1>4, WaitChildInv
<1>5. CASE WaitNobody
  BY <1>5, WaitNobodyInv
<1>6. CASE \E w \in Workers : thread_worker(w)
  BY <1>6, ReadInv, WriteInv, LeaveInv DEF thread_worker
<1>7. CASE UNCHANGED vars
  BY <1>7 DEF vars, IInv, TypeOK, Loops, Progress, Done, Piece, Start, End, Joins, Joined, AllSettled
<1>8. QED BY <1>1, <1>2, <1>3, <1>4, <1>5, <1>6, <1>7 DEF Next, Main

-----------------------------------------------------------------------------
(* Theorems *)

\* The inductive invariant holds in every reachable state.
THEOREM Invariance == Spec => []IInv
BY InitInv, StepInv, PTL DEF Spec

\* The loop counters and registers keep their types: no worker reads or writes
\* outside the array.
THEOREM TypeCorrect == Spec => []TypeOK
<1>1. IInv => TypeOK
  BY DEF IInv
<1>2. QED BY <1>1, Invariance, PTL

\* When main has waited, no worker is running any more.
LEMMA ReturnedSettled == ASSUME IInv, Returned PROVE AllSettled
<1> USE WorkAssumption
<1>1. CASE kind = "thread"
  BY <1>1 DEF IInv, Joins, Returned, AllSettled, Workers
<1>2. CASE kind = "process" /\ ~AllSettled
  <2>1. NUM_WORKERS <= Cardinality(Joined)
    BY <1>2 DEF IInv, Joins, Returned
  <2>2. Cardinality(Workers) = NUM_WORKERS /\ IsFiniteSet(Workers)
    BY WorkersFinite
  <2>3. Joined \subseteq Workers
    BY DEF Joined
  <2>4. Cardinality(Joined) <= NUM_WORKERS /\ Cardinality(Joined) \in Nat
    BY <2>2, <2>3, FS_Subset, FS_CardinalityType, JoinedFinite
  <2>5. Joined = Workers
    BY <2>1, <2>2, <2>3, <2>4, FS_Subset
  <2>6. QED BY <1>2, <2>5 DEF Joined, AllSettled
<1>3. QED BY <1>1, <1>2 DEF IInv, TypeOK

\* When main has waited, every item has been processed exactly once, except in
\* the pieces of workers that fork did not start.
THEOREM EachItemProcessedOnce == Spec => []EachItemOnce
<1>1. ASSUME IInv, Returned, NEW k \in Items
      PROVE  \E w \in Workers : /\ k \in Piece(w)
                                /\ array[k] = IF worker[w] = "failed" THEN 0 ELSE 1
  <2>1. PICK w \in Workers : k \in Piece(w)
    BY PiecesCover
  <2>2. worker[w] \in {"joined", "failed"}
    BY <1>1, ReturnedSettled DEF AllSettled
  <2>3. array[k] = Done(w, k)
    BY <1>1, <2>1 DEF IInv, Progress
  <2>4. k < End(w) /\ (worker[w] = "joined" => index[w] = End(w))
    BY <1>1, <2>1 DEF Piece, IInv, Loops
  <2>5. array[k] = IF worker[w] = "failed" THEN 0 ELSE 1
    BY <2>2, <2>3, <2>4 DEF Done
  <2>6. QED BY <2>1, <2>5
<1>2. IInv => EachItemOnce
  BY <1>1 DEF EachItemOnce
<1>3. QED BY <1>2, Invariance, PTL

-----------------------------------------------------------------------------
(* demo_thread_communication.c and real_time_communication.c *)

\* received has one value for each round that is over for the consumer; the cell
\* holds the value of this round or of the one before.
HandoffInv ==
    /\ round \in Nat \ {0} /\ received \in Seq(Nat)
    /\ Len(received) = IF cons = "done" THEN round ELSE round - 1
    /\ shared_data = IF prod \in {"flag", "done"} THEN round ELSE round - 1
    /\ data_ready => round > 1 \/ prod = "done"
    /\ Cell!AtMostOneRoundOld

LEMMA HandoffStart == Cell!Init => HandoffInv
BY DEF Cell!Init, HandoffInv, Cell!AtMostOneRoundOld

LEMMA HandoffStep == HandoffInv /\ [Cell!Next]_<<cellVars, mutex>> => HandoffInv'
<1> SUFFICES ASSUME HandoffInv, [Cell!Next]_<<cellVars, mutex>> PROVE HandoffInv'
  OBVIOUS
<1>0. /\ round \in Nat \ {0} /\ received \in Seq(Nat)
      /\ Len(received) = IF cons = "done" THEN round ELSE round - 1
      /\ shared_data = IF prod \in {"flag", "done"} THEN round ELSE round - 1
      /\ data_ready => round > 1 \/ prod = "done"
      /\ \A n \in 1 .. Len(received) :
            received[n] \in {n} \cup (IF n > 1 THEN {n - 1} ELSE {})
  BY DEF HandoffInv, Cell!AtMostOneRoundOld
<1>1. ASSUME UNCHANGED received
      PROVE  (\A n \in 1 .. Len(received) :
                 received[n] \in {n} \cup (IF n > 1 THEN {n - 1} ELSE {}))'
  BY <1>0, <1>1
<1>2. CASE Cell!ConsumerReceive
  <2>1. /\ cons = "test" /\ data_ready /\ received' = Append(received, shared_data)
        /\ cons' = "done" /\ UNCHANGED <<shared_data, data_ready, prod, round>>
    BY <1>2 DEF Cell!ConsumerReceive
  <2>2. shared_data \in Nat /\ shared_data \in {round} \cup (IF round > 1 THEN {round - 1} ELSE {})
    BY <1>0, <2>1
  <2>3. /\ received' \in Seq(Nat) /\ Len(received') = round /\ received'[round] = shared_data
        /\ \A n \in 1 .. round - 1 : received'[n] = received[n]
    BY <1>0, <2>1, <2>2
  <2>4. \A n \in 1 .. Len(received') :
           received'[n] \in {n} \cup (IF n > 1 THEN {n - 1} ELSE {})
    <3> TAKE n \in 1 .. Len(received')
    <3>1. CASE n = round
      BY <2>2, <2>3, <3>1
    <3>2. CASE n # round
      <4>1. n \in 1 .. round - 1 /\ n \in 1 .. Len(received)
        BY <1>0, <2>1, <2>3, <3>2
      <4>2. QED BY <1>0, <2>3, <4>1
    <3>3. QED BY <3>1, <3>2
  <2>5. QED BY <1>0, <2>1, <2>3, <2>4 DEF HandoffInv, Cell!AtMostOneRoundOld
<1>3. CASE Cell!Main
  BY <1>0, <1>1, <1>3 DEF Cell!Main, Cell!CreateConsumer, Cell!CreateProducer, Cell!JoinBoth,
     HandoffInv, Cell!AtMostOneRoundOld
<1>4. CASE Cell!producer
  BY <1>0, <1>1, <1>4 DEF Cell!producer, Cell!ProducerLock, Cell!ProducerStore,
     Cell!ProducerFlag, HandoffInv, Cell!AtMostOneRoundOld
<1>5. CASE Cell!ConsumerLock \/ Cell!ConsumerWait \/ Cell!SpuriousWake
  BY <1>0, <1>1, <1>5 DEF Cell!ConsumerLock, Cell!ConsumerWait, Cell!SpuriousWake,
     HandoffInv, Cell!AtMostOneRoundOld
<1>6. CASE UNCHANGED cellVars
  BY <1>0, <1>1, <1>6 DEF cellVars, HandoffInv, Cell!AtMostOneRoundOld
<1>7. QED BY <1>2, <1>3, <1>4, <1>5, <1>6 DEF Cell!Next, Cell!consumer

\* What was received is older than the cell while the flag is up.
RealTimeInv ==
    /\ round \in Nat /\ received \in Seq(Nat) /\ shared_data = round
    /\ \A n \in 1 .. Len(received) :
          received[n] <= shared_data /\ (data_ready => received[n] < shared_data)
    /\ Cell!InOrderOnce

LEMMA RealTimeStart == Cell!RealTimeInit => RealTimeInv
BY DEF Cell!RealTimeInit, RealTimeInv, Cell!InOrderOnce

LEMMA RealTimeStep == RealTimeInv /\ [Cell!RealTimeNext]_<<cellVars, mutex>> => RealTimeInv'
<1> SUFFICES ASSUME RealTimeInv, [Cell!RealTimeNext]_<<cellVars, mutex>> PROVE RealTimeInv'
  OBVIOUS
<1>0. /\ round \in Nat /\ received \in Seq(Nat) /\ shared_data = round
      /\ \A n \in 1 .. Len(received) :
            received[n] <= shared_data /\ (data_ready => received[n] < shared_data)
      /\ \A m, n \in 1 .. Len(received) : m < n => received[m] < received[n]
      /\ \A n \in 1 .. Len(received) : received[n] \in Nat
  BY DEF RealTimeInv, Cell!InOrderOnce
<1>1. CASE UNCHANGED <<shared_data, data_ready, round, received>>
  BY <1>0, <1>1 DEF RealTimeInv, Cell!InOrderOnce
<1>2. CASE Cell!RealTimeStore
  <2>1. shared_data' = round + 1 /\ round' = round + 1 /\ UNCHANGED received
    BY <1>2 DEF Cell!RealTimeStore
  <2>2. \A n \in 1 .. Len(received) : received[n] < shared_data'
    BY <1>0, <2>1
  <2>3. QED BY <1>0, <2>1, <2>2 DEF RealTimeInv, Cell!InOrderOnce
<1>3. CASE Cell!RealTimeReceive
  <2>1. data_ready /\ ~data_ready' /\ received' = Append(received, shared_data)
        /\ UNCHANGED <<shared_data, round>>
    BY <1>3 DEF Cell!RealTimeReceive
  <2>2. PICK len \in Nat : len = Len(received)
    BY <1>0
  <2>3. /\ received' \in Seq(Nat) /\ Len(received') = len + 1 /\ received'[len + 1] = shared_data
        /\ \A n \in 1 .. len : received'[n] = received[n]
    BY <1>0, <2>1, <2>2
  <2>4. \A n \in 1 .. len + 1 : n = len + 1 \/ n \in 1 .. len
    BY <2>2
  <2>5. \A n \in 1 .. Len(received') : received'[n] <= shared_data
    BY <1>0, <2>2, <2>3, <2>4
  <2>6. ASSUME NEW m \in 1 .. Len(received'), NEW n \in 1 .. Len(received'), m < n
        PROVE  received'[m] < received'[n]
    <3>1. m \in 1 .. len
      BY <2>2, <2>3, <2>6
    <3>2. CASE n = len + 1
      BY <1>0, <2>1, <2>2, <2>3, <3>1, <3>2
    <3>3. CASE n \in 1 .. len
      BY <1>0, <2>2, <2>3, <2>6, <3>1, <3>3
    <3>4. QED BY <2>3, <2>4, <3>2, <3>3
  <2>7. QED BY <1>0, <2>1, <2>3, <2>5, <2>6 DEF RealTimeInv, Cell!InOrderOnce
<1>4. QED BY <1>1, <1>2, <1>3 DEF Cell!RealTimeNext, Cell!real_time_producer, Cell!RealTimeLock,
           Cell!ProducerLock, Cell!real_time_consumer, Cell!ConsumerLock, Cell!ConsumerWait,
           Cell!SpuriousWake, cellVars

\* For every number of rounds: a consumer of demo_thread_communication.c, where the
\* flag is never reset, prints the value of its round or of the one before, and that of
\* real_time_communication.c prints no sample twice and none out of order.
THEOREM ReceivedValues == MCSpec => []CellValues
<1> DEFINE I == (program = "handoff" => HandoffInv) /\ (program = "realtime" => RealTimeInv)
<1>1. MCInit => I
  BY HandoffStart, RealTimeStart DEF MCInit
<1>2. I /\ [MCNext]_allVars => I'
  <2> SUFFICES ASSUME I, [MCNext]_allVars PROVE I'
    OBVIOUS
  <2>1. program' = program
    BY DEF MCNext, allVars, MainStep, CounterStep, WorkStep, ProducerStep, ConsumerStep,
       SpuriousStep, OnlyWork, OnlyCounter, OnlyCell, OnlyPipe
  <2>2. program = "handoff" => [Cell!Next]_<<cellVars, mutex>>
    BY DEF MCNext, allVars, MainStep, CounterStep, WorkStep, ProducerStep, ConsumerStep,
       SpuriousStep, Cell!Next
  <2>3. program = "realtime" => [Cell!RealTimeNext]_<<cellVars, mutex>>
    BY DEF MCNext, allVars, MainStep, CounterStep, WorkStep, ProducerStep, ConsumerStep,
       SpuriousStep, Cell!RealTimeNext
  <2>4. QED BY <2>1, <2>2, <2>3, HandoffStep, RealTimeStep
<1>3. I => CellValues
  BY DEF CellValues, HandoffInv, RealTimeInv
<1>4. QED BY <1>1, <1>2, <1>3, PTL DEF MCSpec

-----------------------------------------------------------------------------
(* The counters of demo_race_condition.c and of d7, d8 and d9 *)

Ids == 1 .. THREADS

\* A thread's step in mode m.  Race and Each are two instances of one module;
\* their threads' steps are these, each in the mode its main is in.
TurnLock(t) ==
    /\ pc[t] = "lock" /\ mutex = 0
    /\ mutex' = t
    /\ pc' = [pc EXCEPT ![t] = "load"]
    /\ UNCHANGED <<shared_counter, reg, i>>
TurnLoad(t) ==
    /\ pc[t] = "load"
    /\ reg' = [reg EXCEPT ![t] = shared_counter]
    /\ pc' = [pc EXCEPT ![t] = "add"]
    /\ UNCHANGED <<shared_counter, mutex, i>>
TurnAdd(m, t) ==
    /\ pc[t] = "add"
    /\ \E n \in IF m = "each" THEN {1} ELSE 1 .. TURNS - i[t] :
          /\ reg' = [reg EXCEPT ![t] = @ + n]
          /\ i' = [i EXCEPT ![t] = @ + n]
    /\ pc' = [pc EXCEPT ![t] = "store"]
    /\ UNCHANGED <<shared_counter, mutex>>
TurnStore(m, t) ==
    /\ pc[t] = "store"
    /\ shared_counter' = reg[t]
    /\ \E label \in {"unlock", "load", "done"} :
          /\ pc' = [pc EXCEPT ![t] = label]
          /\ label = "load" => i[t] < TURNS
          /\ label = "done" => ~(i[t] < TURNS) /\ m \notin {"each", "loop"}
          /\ label = "unlock" => m = "each" \/ (~(i[t] < TURNS) /\ m = "loop")
    /\ UNCHANGED <<mutex, reg, i>>
TurnUnlock(t) ==
    /\ pc[t] = "unlock"
    /\ mutex' = 0
    /\ pc' = [pc EXCEPT ![t] = IF i[t] < TURNS THEN "lock" ELSE "done"]
    /\ UNCHANGED <<shared_counter, reg, i>>
Turn(m, t) == TurnLock(t) \/ TurnLoad(t) \/ TurnAdd(m, t) \/ TurnStore(m, t) \/ TurnUnlock(t)

\* The turns taken by the threads up to each of them.
IsSum(s) ==
    /\ s \in [0 .. THREADS -> Nat] /\ s[0] = 0
    /\ \A k \in Ids : s[k] = s[k - 1] + i[k]

\* Without a lock: nobody has seen more than all the turns taken; whoever is past
\* his first turn has seen his own store or a later one, so that what he stores next
\* is 2 or more; and the last store of all is one of a thread's last turn.
Unlocked(s) ==
    /\ shared_counter <= s[THREADS]
    /\ \A t \in Ids :
          /\ pc[t] \notin {"lock", "unlock"}
          /\ pc[t] \in {"add", "store"} => reg[t] <= s[THREADS]
          /\ pc[t] = "load" /\ i[t] > 0 => shared_counter >= 1
          /\ pc[t] = "add" /\ i[t] > 0 => reg[t] >= 1
          /\ pc[t] = "store" => i[t] >= 1 /\ reg[t] >= 1 /\ (i[t] >= 2 => reg[t] >= 2)
    /\ (\A t \in Ids : pc[t] = "done")
          => shared_counter >= 1 /\ (TURNS >= 2 => shared_counter >= 2)

\* With a lock: the counter is the number of turns taken, except that the holder
\* may have counted further in his register.
Locked(m, s) ==
    /\ \A t \in Ids :
          /\ pc[t] \in {"load", "add", "store", "unlock"} => mutex = t
          /\ pc[t] = "add" => reg[t] = shared_counter
          /\ pc[t] = "store" => reg[t] = s[THREADS]
          /\ pc[t] = "unlock" /\ m = "loop" => i[t] = TURNS
    /\ (\A t \in Ids : pc[t] # "store") => shared_counter = s[THREADS]

CounterLabels == {"unborn", "lock", "load", "add", "store", "unlock", "done"}

ThreadInv(m, s) ==
    /\ shared_counter \in Nat
    /\ pc \in [Ids -> CounterLabels]
    /\ reg \in [Ids -> Nat]
    /\ i \in [Ids -> 0 .. TURNS]
    /\ IsSum(s)
    /\ \A t \in Ids :
          /\ pc[t] = "unborn" => i[t] = 0
          /\ pc[t] \in {"lock", "load", "add"} => i[t] < TURNS
          /\ pc[t] = "done" => i[t] = TURNS
    /\ m = "none" => Unlocked(s)
    /\ m \in {"loop", "each"} => Locked(m, s)

\* A turn taken by t is one more in the sums from t on.
LEMMA SumGrows ==
    ASSUME NEW s, IsSum(s), i \in [Ids -> 0 .. TURNS], NEW t \in Ids, NEW n \in Nat,
           i' = [i EXCEPT ![t] = @ + n]
    PROVE  \E r : IsSum(r)' /\ r[THREADS] = s[THREADS] + n
<1> DEFINE r == [k \in 0 .. THREADS |-> IF k < t THEN s[k] ELSE s[k] + n]
<1>1. /\ s \in [0 .. THREADS -> Nat] /\ s[0] = 0
      /\ \A k \in Ids : s[k] = s[k - 1] + i[k]
      /\ THREADS \in Nat \ {0} /\ TURNS \in Nat
  BY ThreadsAssumption DEF IsSum
<1>2. r \in [0 .. THREADS -> Nat] /\ r[0] = 0 /\ r[THREADS] = s[THREADS] + n
  <2>1. 0 \in 0 .. THREADS /\ THREADS \in 0 .. THREADS /\ 0 < t /\ ~(THREADS < t)
    BY <1>1 DEF Ids
  <2>2. \A k \in 0 .. THREADS : s[k] \in Nat /\ s[k] + n \in Nat
    BY <1>1
  <2>3. \A k \in 0 .. THREADS : (IF k < t THEN s[k] ELSE s[k] + n) \in Nat
    BY <2>2
  <2>4. r \in [0 .. THREADS -> Nat]
    BY <2>3
  <2>5. QED BY <1>1, <2>1, <2>4
<1>3. ASSUME NEW k \in Ids PROVE r[k] = r[k - 1] + i'[k]
  <2>1. k \in 0 .. THREADS /\ k - 1 \in 0 .. THREADS /\ s[k] = s[k - 1] + i[k]
        /\ i[k] \in Nat /\ s[k] \in Nat /\ s[k - 1] \in Nat
    BY <1>1, <1>3 DEF Ids
  <2>2. i'[k] = IF k = t THEN i[k] + n ELSE i[k]
    BY <1>3
  <2>3. CASE k < t
    BY <2>1, <2>2, <2>3 DEF Ids
  <2>4. CASE k = t
    BY <2>1, <2>2, <2>4 DEF Ids
  <2>5. CASE k > t
    BY <2>1, <2>2, <2>5 DEF Ids
  <2>6. QED BY <2>3, <2>4, <2>5 DEF Ids
<1>4. IsSum(r)'
  BY <1>2, <1>3 DEF IsSum
<1>5. QED BY <1>2, <1>4

\* When everybody took all his turns, all turns were taken.
LEMMA SumComplete ==
    ASSUME NEW s, IsSum(s), \A t \in Ids : i[t] = TURNS
    PROVE  s[THREADS] = THREADS * TURNS
<1>1. /\ s \in [0 .. THREADS -> Nat] /\ s[0] = 0
      /\ \A k \in Ids : s[k] = s[k - 1] + TURNS
      /\ THREADS \in Nat \ {0} /\ TURNS \in Nat
  BY ThreadsAssumption DEF IsSum
<1>2. PICK B : B = {k \in 0 .. THREADS : s[k] # k * TURNS}
  OBVIOUS
<1>3. B = {}
  <2> SUFFICES ASSUME B # {} PROVE FALSE
    OBVIOUS
  <2>1. B \subseteq Nat
    BY <1>1, <1>2
  <2>2. PICK k \in B : \A y \in B : k <= y
    BY <2>1, LeastNatural
  <2>3. k \in 0 .. THREADS /\ s[k] # k * TURNS
    BY <1>2, <2>2
  <2>4. 0 * TURNS = 0
    BY <1>1
  <2>5. k # 0
    BY <1>1, <2>3, <2>4
  <2>6. k \in Ids /\ k - 1 \in 0 .. THREADS /\ ~(k <= k - 1)
    BY <1>1, <2>3, <2>5 DEF Ids
  <2>7. s[k - 1] = (k - 1) * TURNS
    BY <1>2, <2>2, <2>6
  <2>8. (k - 1) * TURNS + TURNS = k * TURNS
    BY <1>1, <2>3
  <2>9. QED BY <1>1, <2>3, <2>6, <2>7, <2>8
<1>4. THREADS \in 0 .. THREADS
  BY <1>1
<1>5. QED BY <1>2, <1>3, <1>4

LEMMA TurnLockInv ==
    ASSUME NEW m \in {"none", "loop", "each"}, NEW s, ThreadInv(m, s),
           NEW t \in Ids, TurnLock(t)
    PROVE  ThreadInv(m, s)'
<1>1. /\ pc[t] = "lock" /\ mutex = 0 /\ mutex' = t
      /\ pc' \in [Ids -> CounterLabels] /\ pc'[t] = "load"
      /\ \A u \in Ids : u # t => pc'[u] = pc[u]
      /\ UNCHANGED <<shared_counter, reg, i>>
  BY DEF TurnLock, ThreadInv, CounterLabels
<1>2. m # "none"
  BY <1>1 DEF ThreadInv, Unlocked
<1>3. \A u \in Ids : u # t => pc'[u] \notin {"load", "add", "store", "unlock"}
  BY <1>1, <1>2 DEF ThreadInv, Locked, Ids
<1>4. \A u \in Ids : pc[u] # "store"
  BY <1>1, <1>3
<1>5. shared_counter = s[THREADS]
  BY <1>2, <1>4 DEF ThreadInv, Locked
<1>6. Locked(m, s)'
  BY <1>1, <1>3, <1>5 DEF Locked
<1>7. QED BY <1>1, <1>2, <1>6 DEF ThreadInv, IsSum

LEMMA TurnLoadInv ==
    ASSUME NEW m \in {"none", "loop", "each"}, NEW s, ThreadInv(m, s),
           NEW t \in Ids, TurnLoad(t)
    PROVE  ThreadInv(m, s)'
<1>1. /\ pc[t] = "load"
      /\ pc' \in [Ids -> CounterLabels] /\ pc'[t] = "add"
      /\ \A u \in Ids : u # t => pc'[u] = pc[u]
      /\ reg' \in [Ids -> Nat] /\ reg'[t] = shared_counter
      /\ \A u \in Ids : u # t => reg'[u] = reg[u]
      /\ UNCHANGED <<shared_counter, mutex, i>>
  BY DEF TurnLoad, ThreadInv, CounterLabels
<1>2. CASE m = "none"
  <2>1. Unlocked(s)
    BY <1>2 DEF ThreadInv
  <2>2. Unlocked(s)'
    BY <1>1, <2>1 DEF Unlocked, ThreadInv
  <2>3. QED BY <1>1, <1>2, <2>2 DEF ThreadInv, IsSum
<1>3. CASE m # "none"
  <2>1. Locked(m, s)
    BY <1>3 DEF ThreadInv
  <2>2. \A u \in Ids : pc[u] # "store" /\ pc'[u] # "store"
    BY <1>1, <2>1 DEF Locked
  <2>3. Locked(m, s)'
    BY <1>1, <2>1, <2>2 DEF Locked
  <2>4. QED BY <1>1, <1>3, <2>3 DEF ThreadInv, IsSum
<1>4. QED BY <1>2, <1>3

LEMMA TurnAddInv ==
    ASSUME NEW m \in {"none", "loop", "each"}, NEW s, ThreadInv(m, s),
           NEW t \in Ids, TurnAdd(m, t)
    PROVE  \E r : ThreadInv(m, r)'
<1>0. /\ shared_counter \in Nat /\ reg \in [Ids -> Nat] /\ i \in [Ids -> 0 .. TURNS]
      /\ i[t] < TURNS /\ TURNS \in Nat /\ THREADS \in Nat \ {0}
      /\ s \in [0 .. THREADS -> Nat] /\ s[THREADS] \in Nat
  BY ThreadsAssumption DEF ThreadInv, IsSum, TurnAdd
<1>1. PICK n \in IF m = "each" THEN {1} ELSE 1 .. TURNS - i[t] :
         /\ reg' = [reg EXCEPT ![t] = @ + n]
         /\ i' = [i EXCEPT ![t] = @ + n]
  BY DEF TurnAdd
<1>2. n \in Nat \ {0} /\ i[t] + n <= TURNS
  BY <1>0
<1>3. /\ pc[t] = "add"
      /\ pc' \in [Ids -> CounterLabels] /\ pc'[t] = "store"
      /\ \A u \in Ids : u # t => pc'[u] = pc[u]
      /\ UNCHANGED <<shared_counter, mutex>>
  BY DEF TurnAdd, ThreadInv, CounterLabels
<1>4. /\ reg' \in [Ids -> Nat] /\ reg'[t] = reg[t] + n
      /\ \A u \in Ids : u # t => reg'[u] = reg[u]
      /\ i' \in [Ids -> 0 .. TURNS] /\ i'[t] = i[t] + n
      /\ \A u \in Ids : u # t => i'[u] = i[u]
  BY <1>0, <1>1, <1>2
<1>5. PICK r : IsSum(r)' /\ r[THREADS] = s[THREADS] + n
  BY <1>0, <1>1, <1>2, SumGrows DEF ThreadInv
<1>6. \A u \in Ids : /\ pc'[u] = "unborn" => i'[u] = 0
                     /\ pc'[u] \in {"lock", "load", "add"} => i'[u] < TURNS
                     /\ pc'[u] = "done" => i'[u] = TURNS
  BY <1>3, <1>4 DEF ThreadInv
<1>7. CASE m = "none"
  <2>1. Unlocked(s)
    BY <1>7 DEF ThreadInv
  <2>2. reg[t] <= s[THREADS] /\ (i[t] > 0 => reg[t] >= 1)
    BY <1>3, <2>1 DEF Unlocked
  <2>3. /\ reg'[t] <= r[THREADS] /\ i'[t] >= 1 /\ reg'[t] >= 1
        /\ i'[t] >= 2 => reg'[t] >= 2
    BY <1>0, <1>2, <1>4, <1>5, <2>2
  <2>4. shared_counter' <= r[THREADS]
    BY <1>0, <1>2, <1>3, <1>5, <2>1 DEF Unlocked
  <2>5. ASSUME NEW u \in Ids
        PROVE  /\ pc'[u] \notin {"lock", "unlock"}
               /\ pc'[u] \in {"add", "store"} => reg'[u] <= r[THREADS]
               /\ pc'[u] = "load" /\ i'[u] > 0 => shared_counter' >= 1
               /\ pc'[u] = "add" /\ i'[u] > 0 => reg'[u] >= 1
               /\ pc'[u] = "store" => i'[u] >= 1 /\ reg'[u] >= 1 /\ (i'[u] >= 2 => reg'[u] >= 2)
    <3>1. CASE u = t
      BY <1>3, <2>3, <3>1
    <3>2. CASE u # t
      <4>1. reg[u] \in Nat /\ (pc[u] \in {"add", "store"} => reg[u] <= s[THREADS])
        BY <1>0, <2>1 DEF Unlocked
      <4>2. pc[u] \in {"add", "store"} => reg[u] <= r[THREADS]
        BY <1>0, <1>2, <1>5, <4>1
      <4>3. /\ pc[u] \notin {"lock", "unlock"}
            /\ pc[u] = "load" /\ i[u] > 0 => shared_counter >= 1
            /\ pc[u] = "add" /\ i[u] > 0 => reg[u] >= 1
            /\ pc[u] = "store" => i[u] >= 1 /\ reg[u] >= 1 /\ (i[u] >= 2 => reg[u] >= 2)
        BY <2>1 DEF Unlocked
      <4>4. pc'[u] = pc[u] /\ reg'[u] = reg[u] /\ i'[u] = i[u] /\ shared_counter' = shared_counter
        BY <1>3, <1>4, <3>2
      <4>5. QED BY <4>2, <4>3, <4>4
    <3>3. QED BY <3>1, <3>2
  <2>6. Unlocked(r)'
    BY <1>3, <2>4, <2>5 DEF Unlocked
  <2>7. QED BY <1>3, <1>4, <1>5, <1>6, <1>0, <1>7, <2>6 DEF ThreadInv
<1>8. CASE m # "none"
  <2>1. Locked(m, s)
    BY <1>8 DEF ThreadInv
  <2>2. /\ mutex = t /\ reg[t] = shared_counter
        /\ \A u \in Ids : u # t => pc[u] \notin {"load", "add", "store", "unlock"}
    BY <1>3, <2>1 DEF Locked
  <2>3. \A u \in Ids : pc[u] # "store"
    BY <1>3, <2>2
  <2>4. shared_counter = s[THREADS]
    BY <2>1, <2>3 DEF Locked
  <2>5. Locked(m, r)'
    BY <1>3, <1>4, <1>5, <2>2, <2>4 DEF Locked
  <2>6. QED BY <1>3, <1>4, <1>5, <1>6, <1>0, <1>8, <2>5 DEF ThreadInv
<1>9. QED BY <1>7, <1>8

LEMMA TurnStoreInv ==
    ASSUME NEW m \in {"none", "loop", "each"}, NEW s, ThreadInv(m, s),
           NEW t \in Ids, TurnStore(m, t)
    PROVE  ThreadInv(m, s)'
<1>0. /\ reg \in [Ids -> Nat] /\ i \in [Ids -> 0 .. TURNS] /\ TURNS \in Nat
      /\ s[THREADS] \in Nat
  BY ThreadsAssumption DEF ThreadInv, IsSum
<1>1. PICK label \in {"unlock", "load", "done"} :
         /\ pc' = [pc EXCEPT ![t] = label]
         /\ label = "load" => i[t] < TURNS
         /\ label = "done" => ~(i[t] < TURNS) /\ m \notin {"each", "loop"}
         /\ label = "unlock" => m = "each" \/ (~(i[t] < TURNS) /\ m = "loop")
  BY DEF TurnStore
<1>2. /\ pc[t] = "store" /\ shared_counter' = reg[t] /\ shared_counter' \in Nat
      /\ pc' \in [Ids -> CounterLabels] /\ pc'[t] = label
      /\ \A u \in Ids : u # t => pc'[u] = pc[u]
      /\ UNCHANGED <<mutex, reg, i>>
  BY <1>0, <1>1 DEF TurnStore, ThreadInv, CounterLabels
<1>3. \A u \in Ids : /\ pc'[u] = "unborn" => i'[u] = 0
                     /\ pc'[u] \in {"lock", "load", "add"} => i'[u] < TURNS
                     /\ pc'[u] = "done" => i'[u] = TURNS
  BY <1>0, <1>1, <1>2 DEF ThreadInv
<1>4. CASE m = "none"
  <2>1. Unlocked(s)
    BY <1>4 DEF ThreadInv
  <2>2. /\ reg[t] <= s[THREADS] /\ i[t] >= 1 /\ reg[t] >= 1 /\ (i[t] >= 2 => reg[t] >= 2)
        /\ label # "unlock"
    BY <1>1, <1>2, <1>4, <2>1 DEF Unlocked
  <2>3. (\A u \in Ids : pc'[u] = "done") => i[t] = TURNS
    BY <1>2, <1>3
  <2>4. Unlocked(s)'
    BY <1>1, <1>2, <2>1, <2>2, <2>3 DEF Unlocked
  <2>5. QED BY <1>0, <1>2, <1>3, <1>4, <2>4 DEF ThreadInv, IsSum
<1>5. CASE m # "none"
  <2>1. Locked(m, s)
    BY <1>5 DEF ThreadInv
  <2>2. /\ mutex = t /\ reg[t] = s[THREADS]
        /\ \A u \in Ids : u # t => pc[u] \notin {"load", "add", "store", "unlock"}
    BY <1>2, <2>1 DEF Locked
  <2>3. label \in {"load", "unlock"} /\ (label = "unlock" /\ m = "loop" => i[t] = TURNS)
    BY <1>0, <1>1, <1>5
  <2>4. Locked(m, s)'
    BY <1>2, <2>2, <2>3 DEF Locked
  <2>5. QED BY <1>0, <1>2, <1>3, <1>5, <2>4 DEF ThreadInv, IsSum
<1>6. QED BY <1>4, <1>5

LEMMA TurnUnlockInv ==
    ASSUME NEW m \in {"none", "loop", "each"}, NEW s, ThreadInv(m, s),
           NEW t \in Ids, TurnUnlock(t)
    PROVE  ThreadInv(m, s)'
<1>1. PICK label \in {"lock", "done"} :
         /\ pc' = [pc EXCEPT ![t] = label]
         /\ label = IF i[t] < TURNS THEN "lock" ELSE "done"
  BY DEF TurnUnlock
<1>2. /\ pc[t] = "unlock"
      /\ pc' \in [Ids -> CounterLabels] /\ pc'[t] = label
      /\ \A u \in Ids : u # t => pc'[u] = pc[u]
      /\ UNCHANGED <<shared_counter, reg, i>>
  BY <1>1 DEF TurnUnlock, ThreadInv, CounterLabels
<1>3. m # "none"
  BY <1>2 DEF ThreadInv, Unlocked
<1>4. Locked(m, s)
  BY <1>3 DEF ThreadInv
<1>5. \A u \in Ids : u # t => pc[u] \notin {"load", "add", "store", "unlock"}
  BY <1>2, <1>4 DEF Locked
<1>6. \A u \in Ids : pc'[u] \notin {"load", "add", "store", "unlock"} /\ pc[u] # "store"
  BY <1>1, <1>2, <1>5
<1>7. Locked(m, s)'
  BY <1>2, <1>4, <1>6 DEF Locked
<1>8. i[t] \in 0 .. TURNS /\ TURNS \in Nat
  BY ThreadsAssumption DEF ThreadInv
<1>9. \A u \in Ids : /\ pc'[u] = "unborn" => i'[u] = 0
                     /\ pc'[u] \in {"lock", "load", "add"} => i'[u] < TURNS
                     /\ pc'[u] = "done" => i'[u] = TURNS
  BY <1>1, <1>2, <1>8 DEF ThreadInv
<1>10. QED BY <1>2, <1>3, <1>7, <1>9 DEF ThreadInv, IsSum

LEMMA TurnInv ==
    ASSUME NEW m \in {"none", "loop", "each"}, NEW s, ThreadInv(m, s),
           NEW t \in Ids, Turn(m, t)
    PROVE  \E r : ThreadInv(m, r)'
<1>1. CASE TurnLock(t)
  BY <1>1, TurnLockInv
<1>2. CASE TurnLoad(t)
  BY <1>2, TurnLoadInv
<1>3. CASE TurnAdd(m, t)
  BY <1>3, TurnAddInv
<1>4. CASE TurnStore(m, t)
  BY <1>4, TurnStoreInv
<1>5. CASE TurnUnlock(t)
  BY <1>5, TurnUnlockInv
<1>6. QED BY <1>1, <1>2, <1>3, <1>4, <1>5 DEF Turn

\* A turn is one of a thread that was created and not joined, and it stays so.
LEMMA TurnAlive ==
    ASSUME NEW m, NEW s, ThreadInv(m, s), NEW t \in Ids, Turn(m, t)
    PROVE  /\ pc[t] \notin {"unborn", "done"} /\ pc'[t] # "unborn"
           /\ \A u \in Ids : u # t => pc'[u] = pc[u]
<1>1. pc \in [Ids -> CounterLabels]
  BY DEF ThreadInv
<1>2. QED BY <1>1 DEF Turn, TurnLock, TurnLoad, TurnAdd, TurnStore, TurnUnlock, CounterLabels

\* main, demonstrating the modes of D one after another.
MainCreate(D) ==
    /\ demo <= Len(D) /\ main < THREADS
    /\ main' = main + 1
    /\ pc' = [pc EXCEPT ![main + 1] = IF D[demo] = "none" THEN "load" ELSE "lock"]
    /\ UNCHANGED <<shared_counter, mutex, reg, i, demo, final>>
MainJoin(D) ==
    /\ demo <= Len(D) /\ main \in THREADS .. 2 * THREADS - 1
    /\ pc[main - THREADS + 1] = "done"
    /\ main' = main + 1
    /\ UNCHANGED <<shared_counter, mutex, pc, reg, i, demo, final>>
MainNext(D) ==
    /\ demo <= Len(D) /\ main = 2 * THREADS
    /\ final' = Append(final, shared_counter)
    /\ demo' = demo + 1 /\ main' = 0 /\ shared_counter' = 0
    /\ pc' = [t \in Ids |-> "unborn"]
    /\ i' = [t \in Ids |-> 0]
    /\ UNCHANGED <<mutex, reg>>
ThreadTurn(D) ==
    \E t \in Ids : Turn(D[demo], t) /\ UNCHANGED <<demo, main, final>>
CounterNext(D) == MainCreate(D) \/ MainJoin(D) \/ MainNext(D) \/ ThreadTurn(D)

\* What mode m may print.
Printed(m, v) ==
    IF m = "none" THEN v <= THREADS * TURNS /\ v >= 1 /\ (TURNS >= 2 => v >= 2)
                  ELSE v = THREADS * TURNS

MainInv(D) ==
    /\ demo \in 1 .. Len(D) + 1 /\ main \in 0 .. 2 * THREADS
    /\ demo > Len(D) => main = 0
    /\ pc \in [Ids -> CounterLabels]
    /\ \A t \in Ids : /\ pc[t] = "unborn" <=> main < t
                      /\ t <= main - THREADS => pc[t] = "done"
    /\ final \in Seq(Nat) /\ Len(final) = demo - 1
    /\ \A d \in 1 .. demo - 1 : Printed(D[d], final[d])

CounterInv(D) ==
    MainInv(D) /\ (demo <= Len(D) => \E s : ThreadInv(D[demo], s))

Demonstration(D) == D = <<"none", "loop">> \/ D = <<"each">>

LEMMA DemonstrationModes ==
    ASSUME NEW D, Demonstration(D)
    PROVE  /\ Len(D) \in Nat \ {0}
           /\ \A d \in 1 .. Len(D) : D[d] \in {"none", "loop", "each"}
BY DEF Demonstration

Fresh ==
    /\ shared_counter = 0 /\ reg \in [Ids -> Nat]
    /\ pc = [t \in Ids |-> "unborn"] /\ i = [t \in Ids |-> 0]
AnyMode == \A m \in {"none", "loop", "each"} : \E s : ThreadInv(m, s)

\* Where all threads are unborn, every mode may start.
LEMMA FreshThreads == Fresh => AnyMode
<1> SUFFICES ASSUME Fresh, NEW m \in {"none", "loop", "each"} PROVE \E s : ThreadInv(m, s)
  BY DEF AnyMode
<1> USE DEF Fresh
<1> DEFINE s == [k \in 0 .. THREADS |-> 0]
<1>1. THREADS \in Nat \ {0} /\ TURNS \in Nat \ {0}
  BY ThreadsAssumption
<1>2. \A t \in Ids : pc[t] = "unborn" /\ i[t] = 0 /\ t \in 0 .. THREADS /\ t - 1 \in 0 .. THREADS
  BY <1>1 DEF Ids
<1>3. pc \in [Ids -> CounterLabels] /\ i \in [Ids -> 0 .. TURNS]
  BY <1>1 DEF CounterLabels
<1>4. s \in [0 .. THREADS -> Nat] /\ s[0] = 0 /\ s[THREADS] = 0 /\ \A t \in Ids : s[t] = s[t - 1] + i[t]
  BY <1>1, <1>2
<1>5. 1 \in Ids
  BY <1>1 DEF Ids
<1> HIDE DEF s
<1>6. IsSum(s)
  BY <1>4 DEF IsSum
<1>7. Unlocked(s)
  BY <1>2, <1>4, <1>5 DEF Unlocked
<1>8. Locked(m, s)
  BY <1>2, <1>4 DEF Locked
<1>9. ThreadInv(m, s)
  BY <1>2, <1>3, <1>6, <1>7, <1>8 DEF ThreadInv
<1>10. QED BY <1>9

LEMMA CounterStart ==
    ASSUME NEW D, Demonstration(D), Fresh, demo = 1, main = 0, final = <<>>
    PROVE  CounterInv(D)
<1>1. Len(D) \in Nat \ {0} /\ D[1] \in {"none", "loop", "each"}
  BY DemonstrationModes
<1>2. THREADS \in Nat \ {0}
  BY ThreadsAssumption
<1>3. MainInv(D)
  BY <1>1, <1>2 DEF MainInv, Fresh, Ids, CounterLabels
<1>4. \E s : ThreadInv(D[1], s)
  BY <1>1, FreshThreads DEF AnyMode
<1>5. QED BY <1>3, <1>4 DEF CounterInv

LEMMA MainCreateInv ==
    ASSUME NEW D, Demonstration(D), CounterInv(D), MainCreate(D)
    PROVE  CounterInv(D)'
<1>0. THREADS \in Nat \ {0} /\ TURNS \in Nat \ {0}
  BY ThreadsAssumption
<1>1. PICK m : m = D[demo]
  OBVIOUS
<1>2. demo \in 1 .. Len(D) /\ Len(D) \in Nat /\ m \in {"none", "loop", "each"}
  BY <1>1, DemonstrationModes DEF MainCreate, CounterInv, MainInv
<1>3. PICK s : ThreadInv(m, s)
  BY <1>1, <1>2 DEF CounterInv
<1>4. PICK t : t = main + 1
  OBVIOUS
<1>5. PICK label : label = IF m = "none" THEN "load" ELSE "lock"
  OBVIOUS
<1>6. /\ main \in 0 .. THREADS - 1 /\ t \in Ids /\ main' = t
      /\ pc[t] = "unborn" /\ pc' = [pc EXCEPT ![t] = label]
      /\ UNCHANGED <<shared_counter, mutex, reg, i, demo, final>>
  BY <1>0, <1>1, <1>4, <1>5 DEF MainCreate, CounterInv, MainInv, Ids
<1>7. /\ pc' \in [Ids -> CounterLabels] /\ pc'[t] = label
      /\ \A u \in Ids : u # t => pc'[u] = pc[u]
      /\ label \in {"load", "lock"}
  BY <1>5, <1>6 DEF CounterInv, MainInv, CounterLabels
<1>8. MainInv(D)'
  <2>1. \A u \in Ids : /\ pc'[u] = "unborn" <=> main' < u
                       /\ u <= main' - THREADS => pc'[u] = "done"
    <3> TAKE u \in Ids
    <3>1. CASE u = t
      BY <1>0, <1>6, <1>7, <3>1 DEF Ids
    <3>2. CASE u # t
      <4>1. pc[u] = "unborn" <=> main < u
        BY DEF CounterInv, MainInv
      <4>2. main < u <=> t < u
        BY <1>0, <1>4, <1>6, <3>2 DEF Ids
      <4>3. ~(u <= t - THREADS)
        BY <1>0, <1>6 DEF Ids
      <4>4. QED BY <1>6, <1>7, <3>2, <4>1, <4>2, <4>3
    <3>3. QED BY <3>1, <3>2
  <2>2. main' \in 0 .. 2 * THREADS
    BY <1>0, <1>6 DEF Ids
  <2>3. QED BY <1>2, <1>6, <1>7, <2>1, <2>2 DEF CounterInv, MainInv
<1>9. ThreadInv(m, s)'
  <2>1. i[t] = 0
    BY <1>3, <1>6 DEF ThreadInv
  <2>2. CASE m = "none"
    <3>1. Unlocked(s)
      BY <1>3, <2>2 DEF ThreadInv
    <3>2. Unlocked(s)'
      BY <1>5, <1>6, <1>7, <2>1, <2>2, <3>1 DEF Unlocked
    <3>3. QED BY <1>0, <1>3, <1>6, <1>7, <2>1, <2>2, <3>2 DEF ThreadInv, IsSum
  <2>3. CASE m # "none"
    <3>1. Locked(m, s)
      BY <1>2, <1>3, <2>3 DEF ThreadInv
    <3>2. Locked(m, s)'
      BY <1>5, <1>6, <1>7, <2>1, <2>3, <3>1 DEF Locked
    <3>3. QED BY <1>0, <1>3, <1>6, <1>7, <2>1, <2>3, <3>2 DEF ThreadInv, IsSum
  <2>4. QED BY <2>2, <2>3
<1>10. QED BY <1>1, <1>6, <1>8, <1>9 DEF CounterInv

LEMMA MainJoinInv ==
    ASSUME NEW D, Demonstration(D), CounterInv(D), MainJoin(D)
    PROVE  CounterInv(D)'
<1>0. THREADS \in Nat \ {0}
  BY ThreadsAssumption
<1>1. PICK t : t = main - THREADS + 1
  OBVIOUS
<1>2. /\ main \in THREADS .. 2 * THREADS - 1 /\ main' = main + 1 /\ t \in Ids
      /\ pc[t] = "done" /\ demo <= Len(D)
      /\ UNCHANGED <<shared_counter, mutex, pc, reg, i, demo, final>>
  BY <1>0, <1>1 DEF MainJoin, Ids
<1>3. \A u \in Ids : /\ pc'[u] = "unborn" <=> main' < u
                     /\ u <= main' - THREADS => pc'[u] = "done"
  <2> TAKE u \in Ids
  <2>1. ~(main < u) /\ ~(main' < u)
    BY <1>0, <1>2 DEF Ids
  <2>2. u <= main' - THREADS => u = t \/ u <= main - THREADS
    BY <1>0, <1>1, <1>2 DEF Ids
  <2>3. QED BY <1>2, <2>1, <2>2 DEF CounterInv, MainInv
<1>4. main' \in 0 .. 2 * THREADS
  BY <1>0, <1>2
<1>5. MainInv(D)'
  BY <1>2, <1>3, <1>4 DEF CounterInv, MainInv
<1>6. PICK m : m = D[demo]
  OBVIOUS
<1>7. PICK s : ThreadInv(m, s)
  BY <1>2, <1>6 DEF CounterInv
<1>8. ThreadInv(m, s)'
  BY <1>2, <1>7 DEF ThreadInv, IsSum, Unlocked, Locked
<1>9. QED BY <1>2, <1>5, <1>6, <1>8 DEF CounterInv

\* Once all threads are joined, what main prints is what the mode may print.
LEMMA PrintedAtEnd ==
    ASSUME NEW m \in {"none", "loop", "each"}, NEW s, ThreadInv(m, s),
           \A t \in Ids : pc[t] = "done"
    PROVE  Printed(m, shared_counter)
<1>1. \A t \in Ids : i[t] = TURNS
  BY DEF ThreadInv
<1>2. s[THREADS] = THREADS * TURNS
  BY <1>1, SumComplete DEF ThreadInv
<1>3. CASE m = "none"
  BY <1>2, <1>3 DEF ThreadInv, Unlocked, Printed
<1>4. CASE m # "none"
  BY <1>2, <1>4 DEF ThreadInv, Locked, Printed
<1>5. QED BY <1>3, <1>4

LEMMA MainNextInv ==
    ASSUME NEW D, Demonstration(D), CounterInv(D), MainNext(D)
    PROVE  CounterInv(D)'
<1>0. THREADS \in Nat \ {0}
  BY ThreadsAssumption
<1>1. PICK d : d = demo
  OBVIOUS
<1>2. /\ d \in 1 .. Len(D) /\ Len(D) \in Nat /\ main = 2 * THREADS
      /\ \A e \in 1 .. Len(D) : D[e] \in {"none", "loop", "each"}
  BY <1>1, DemonstrationModes DEF MainNext, CounterInv, MainInv
<1>3. PICK s : ThreadInv(D[d], s)
  BY <1>1, <1>2 DEF CounterInv
<1>4. \A t \in Ids : pc[t] = "done"
  BY <1>0, <1>2 DEF CounterInv, MainInv, Ids
<1>5. Printed(D[d], shared_counter) /\ shared_counter \in Nat
  BY <1>2, <1>3, <1>4, PrintedAtEnd DEF ThreadInv
<1>6. /\ final \in Seq(Nat) /\ Len(final) = d - 1
      /\ \A e \in 1 .. d - 1 : Printed(D[e], final[e])
      /\ final' = Append(final, shared_counter) /\ demo' = d + 1 /\ main' = 0
  BY <1>1 DEF CounterInv, MainInv, MainNext
<1>7. /\ final' \in Seq(Nat) /\ Len(final') = d /\ final'[d] = shared_counter
      /\ \A e \in 1 .. d - 1 : final'[e] = final[e]
  BY <1>2, <1>5, <1>6
<1>8. \A e \in 1 .. d : Printed(D[e], final'[e])
  <2> TAKE e \in 1 .. d
  <2>1. e = d \/ e \in 1 .. d - 1
    BY <1>2
  <2>2. QED BY <1>5, <1>6, <1>7, <2>1
<1>9. Fresh'
  BY <1>3 DEF MainNext, Fresh, ThreadInv
<1>10. AnyMode'
  <2>1. Fresh' => AnyMode'
    BY FreshThreads, PTL
  <2>2. QED BY <1>9, <2>1
<1>11. MainInv(D)'
  <2>1. /\ pc' \in [Ids -> CounterLabels]
        /\ \A t \in Ids : pc'[t] = "unborn" /\ main' < t /\ ~(t <= main' - THREADS)
    BY <1>0, <1>6, <1>9 DEF Fresh, CounterLabels, Ids
  <2>2. demo' \in 1 .. Len(D) + 1 /\ main' \in 0 .. 2 * THREADS /\ demo' - 1 = d
    BY <1>0, <1>2, <1>6
  <2>3. QED BY <1>6, <1>7, <1>8, <2>1, <2>2 DEF MainInv
<1>12. (demo <= Len(D) => \E r : ThreadInv(D[demo], r))'
  <2> SUFFICES ASSUME demo' <= Len(D) PROVE (\E r : ThreadInv(D[demo], r))'
    OBVIOUS
  <2>1. PICK m : m = D[demo']
    OBVIOUS
  <2>2. m \in {"none", "loop", "each"}
    BY <1>2, <1>6, <2>1
  <2>3. \E r : ThreadInv(m, r)'
    BY <1>10, <2>2 DEF AnyMode
  <2>4. QED BY <2>1, <2>3
<1>13. QED BY <1>11, <1>12 DEF CounterInv

LEMMA ThreadTurnInv ==
    ASSUME NEW D, Demonstration(D), CounterInv(D), ThreadTurn(D)
    PROVE  CounterInv(D)'
<1>0. THREADS \in Nat \ {0}
  BY ThreadsAssumption
<1>1. PICK t \in Ids : Turn(D[demo], t) /\ UNCHANGED <<demo, main, final>>
  BY DEF ThreadTurn
<1>2. PICK m : m = D[demo]
  OBVIOUS
<1>3. Turn(m, t)
  BY <1>1, <1>2
<1>4. pc[t] # "unborn"
  BY <1>3 DEF Turn, TurnLock, TurnLoad, TurnAdd, TurnStore, TurnUnlock
<1>5. demo <= Len(D)
  BY <1>0, <1>4, DemonstrationModes DEF CounterInv, MainInv, Ids
<1>6. m \in {"none", "loop", "each"}
  BY <1>2, <1>5, DemonstrationModes DEF CounterInv, MainInv
<1>7. PICK s : ThreadInv(m, s)
  BY <1>2, <1>5 DEF CounterInv
<1>8. /\ pc[t] # "done" /\ pc'[t] # "unborn"
      /\ \A u \in Ids : u # t => pc'[u] = pc[u]
  BY <1>3, <1>7, TurnAlive
<1>9. PICK r : ThreadInv(m, r)'
  BY <1>3, <1>6, <1>7, TurnInv
<1>10. pc' \in [Ids -> CounterLabels]
  BY <1>9 DEF ThreadInv
<1>11. \A u \in Ids : /\ pc'[u] = "unborn" <=> main < u
                      /\ u <= main - THREADS => pc'[u] = "done"
  BY <1>4, <1>8 DEF CounterInv, MainInv
<1>12. MainInv(D)'
  BY <1>1, <1>10, <1>11 DEF CounterInv, MainInv
<1>13. QED BY <1>1, <1>2, <1>9, <1>12 DEF CounterInv

LEMMA CounterStepInv ==
    ASSUME NEW D, Demonstration(D), CounterInv(D),
           CounterNext(D) \/ UNCHANGED <<counterVars, mutex, i>>
    PROVE  CounterInv(D)'
<1>1. CASE UNCHANGED <<counterVars, mutex, i>>
  BY <1>1 DEF counterVars, CounterInv, MainInv, ThreadInv, IsSum, Unlocked, Locked
<1>2. QED BY <1>1, MainCreateInv, MainJoinInv, MainNextInv, ThreadTurnInv DEF CounterNext

\* The two programs' steps are these, for the modes they demonstrate.
LEMMA RaceSteps ==
    (program = "race" /\ [MCNext]_allVars)
       => CounterNext(<<"none", "loop">>) \/ UNCHANGED <<counterVars, mutex, i>>
<1> SUFFICES ASSUME program = "race", [MCNext]_allVars
             PROVE  CounterNext(<<"none", "loop">>) \/ UNCHANGED <<counterVars, mutex, i>>
  OBVIOUS
<1>1. CASE UNCHANGED allVars
  BY <1>1 DEF allVars
<1>2. CASE MainStep
  BY <1>2 DEF MainStep, Race!CreateThread, Race!JoinThread, Race!NextDemo, Race!Running,
     Race!Mode, Race!Goto, Race!Threads, CounterNext, MainCreate, MainJoin, MainNext, Ids
<1>3. CASE \E t \in 1 .. THREADS : CounterStep(t)
  <2>1. PICK t \in Ids : Race!increment(t)
    BY <1>3 DEF CounterStep, Ids
  <2>2. CASE Race!Lock(t)
    BY <2>1, <2>2 DEF Race!Lock, Race!Goto, CounterNext, ThreadTurn, Turn, TurnLock
  <2>3. CASE Race!Load(t)
    BY <2>1, <2>3 DEF Race!Load, Race!Goto, CounterNext, ThreadTurn, Turn, TurnLoad
  <2>4. CASE Race!Increment(t)
    BY <2>1, <2>4 DEF Race!Increment, Race!Mode, Race!Goto, CounterNext, ThreadTurn, Turn, TurnAdd
  <2>5. CASE Race!Store(t)
    <3>1. PICK m : m = <<"none", "loop">>[demo]
      OBVIOUS
    <3>2. PICK label \in {"unlock", "load", "done"} :
             /\ label = IF m = "each" THEN "unlock"
                        ELSE IF i[t] < TURNS THEN "load"
                        ELSE IF m = "loop" THEN "unlock" ELSE "done"
             /\ pc' = [pc EXCEPT ![t] = label]
      BY <2>5, <3>1 DEF Race!Store, Race!Mode, Race!Goto
    <3>3. TurnStore(m, t) /\ UNCHANGED <<demo, main, final>>
      BY <2>5, <3>2 DEF Race!Store, TurnStore
    <3>4. QED BY <2>1, <3>1, <3>3 DEF CounterNext, ThreadTurn, Turn
  <2>6. CASE Race!Unlock(t)
    BY <2>1, <2>6 DEF Race!Unlock, Race!Goto, CounterNext, ThreadTurn, Turn, TurnUnlock
  <2>7. QED BY <2>1, <2>2, <2>3, <2>4, <2>5, <2>6 DEF Race!increment
<1>4. QED BY <1>1, <1>2, <1>3 DEF MCNext, ProducerStep, ConsumerStep, SpuriousStep, WorkStep

LEMMA EachSteps ==
    (program = "each" /\ [MCNext]_allVars)
       => CounterNext(<<"each">>) \/ UNCHANGED <<counterVars, mutex, i>>
<1> SUFFICES ASSUME program = "each", [MCNext]_allVars
             PROVE  CounterNext(<<"each">>) \/ UNCHANGED <<counterVars, mutex, i>>
  OBVIOUS
<1>1. CASE UNCHANGED allVars
  BY <1>1 DEF allVars
<1>2. CASE MainStep
  BY <1>2 DEF MainStep, Each!CreateThread, Each!JoinThread, Each!NextDemo, Each!Running,
     Each!Mode, Each!Goto, Each!Threads, CounterNext, MainCreate, MainJoin, MainNext, Ids
<1>3. CASE \E t \in 1 .. THREADS : CounterStep(t)
  <2>1. PICK t \in Ids : Each!increment(t)
    BY <1>3 DEF CounterStep, Ids
  <2>2. CASE Each!Lock(t)
    BY <2>1, <2>2 DEF Each!Lock, Each!Goto, CounterNext, ThreadTurn, Turn, TurnLock
  <2>3. CASE Each!Load(t)
    BY <2>1, <2>3 DEF Each!Load, Each!Goto, CounterNext, ThreadTurn, Turn, TurnLoad
  <2>4. CASE Each!Increment(t)
    BY <2>1, <2>4 DEF Each!Increment, Each!Mode, Each!Goto, CounterNext, ThreadTurn, Turn, TurnAdd
  <2>5. CASE Each!Store(t)
    <3>1. PICK m : m = <<"each">>[demo]
      OBVIOUS
    <3>2. PICK label \in {"unlock", "load", "done"} :
             /\ label = IF m = "each" THEN "unlock"
                        ELSE IF i[t] < TURNS THEN "load"
                        ELSE IF m = "loop" THEN "unlock" ELSE "done"
             /\ pc' = [pc EXCEPT ![t] = label]
      BY <2>5, <3>1 DEF Each!Store, Each!Mode, Each!Goto
    <3>3. TurnStore(m, t) /\ UNCHANGED <<demo, main, final>>
      BY <2>5, <3>2 DEF Each!Store, TurnStore
    <3>4. QED BY <2>1, <3>1, <3>3 DEF CounterNext, ThreadTurn, Turn
  <2>6. CASE Each!Unlock(t)
    BY <2>1, <2>6 DEF Each!Unlock, Each!Goto, CounterNext, ThreadTurn, Turn, TurnUnlock
  <2>7. QED BY <2>1, <2>2, <2>3, <2>4, <2>5, <2>6 DEF Each!increment
<1>4. QED BY <1>1, <1>2, <1>3 DEF MCNext, ProducerStep, ConsumerStep, SpuriousStep, WorkStep

\* For every number of threads and turns: with a lock around the loop or around each
\* increment, demo_race_condition.c and the counters of d7, d8 and d9 print the number
\* of all increments; without one, never more, and never less than 2 (or than 1 when
\* each thread increments once).
THEOREM PrintedValues == MCSpec => []CounterValues
<1> DEFINE I == /\ program = "race" => CounterInv(<<"none", "loop">>)
                /\ program = "each" => CounterInv(<<"each">>)
<1>1. MCInit => I
  <2> SUFFICES ASSUME MCInit PROVE I
    OBVIOUS
  <2>1. ASSUME program = "race" PROVE CounterInv(<<"none", "loop">>)
    <3>1. Fresh /\ demo = 1 /\ main = 0 /\ final = <<>>
      BY <2>1 DEF MCInit, Race!Init, Race!Threads, Fresh, Ids
    <3>2. QED BY <3>1, CounterStart DEF Demonstration
  <2>2. ASSUME program = "each" PROVE CounterInv(<<"each">>)
    <3>1. Fresh /\ demo = 1 /\ main = 0 /\ final = <<>>
      BY <2>2 DEF MCInit, Each!Init, Each!Threads, Fresh, Ids
    <3>2. QED BY <3>1, CounterStart DEF Demonstration
  <2>3. QED BY <2>1, <2>2
<1>2. I /\ [MCNext]_allVars => I'
  <2> SUFFICES ASSUME I, [MCNext]_allVars PROVE I'
    OBVIOUS
  <2>1. program' = program
    BY DEF MCNext, allVars, MainStep, CounterStep, WorkStep, ProducerStep, ConsumerStep,
       SpuriousStep, OnlyWork, OnlyCounter, OnlyCell, OnlyPipe
  <2>2. program = "race" => CounterInv(<<"none", "loop">>)'
    BY RaceSteps, CounterStepInv DEF Demonstration
  <2>3. program = "each" => CounterInv(<<"each">>)'
    BY EachSteps, CounterStepInv DEF Demonstration
  <2>4. QED BY <2>1, <2>2, <2>3
<1>3. I => CounterValues
  <2> SUFFICES ASSUME I PROVE CounterValues
    OBVIOUS
  <2>0. THREADS \in Nat \ {0} /\ TURNS \in Nat \ {0} /\ THREADS * TURNS \in Int
    BY ThreadsAssumption
  <2>1. ASSUME program = "race" PROVE Race!FinalValues
    BY <2>0, <2>1 DEF CounterInv, MainInv, Printed, Race!FinalValues, Race!Least
  <2>2. ASSUME program = "each" PROVE Each!FinalValues
    BY <2>0, <2>2 DEF CounterInv, MainInv, Printed, Each!FinalValues, Each!Least
  <2>3. QED BY <2>1, <2>2 DEF CounterValues
<1>4. QED BY <1>1, <1>2, <1>3, PTL DEF MCSpec
=============================================================================
