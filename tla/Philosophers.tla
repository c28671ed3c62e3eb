--------------------------- MODULE Philosophers ---------------------------
(***************************************************************************)
(* d13 demo_deadlock.c: NUM_PHILOSOPHERS threads in a ring, one mutex per   *)
(* fork.  Philosopher x uses the forks LEFT(x) = x - 1 and RIGHT(x) = x + 1, *)
(* even philosophers the left one first, odd ones the right one first.      *)
(* The theorems at the end are about every ring of an odd number of them.    *)
(***************************************************************************)
EXTENDS Integers, WellFoundedInduction, TLAPS

CONSTANT NUM_PHILOSOPHERS

\* The program has 5.  With an even number the order of philosopher_activity
\* does close a circle (every even philosopher holding its left fork), and with
\* 1 the two forks are the same mutex.
ASSUME RingAssumption ==
    /\ NUM_PHILOSOPHERS \in Nat
    /\ NUM_PHILOSOPHERS >= 3
    /\ NUM_PHILOSOPHERS % 2 = 1

VARIABLES
    forks,     \* the holder of each mutex, Free when it is unlocked
    pc,        \* what each philosopher does next
    created    \* threads main has created so far

vars == <<forks, pc, created>>

Philosophers == 0 .. NUM_PHILOSOPHERS - 1
Forks == 0 .. NUM_PHILOSOPHERS - 1
Free == -1

TypeOK ==
    /\ forks \in [Forks -> Philosophers \cup {Free}]
    /\ pc \in [Philosophers -> {"unborn", "think", "first", "second", "eat", "release"}]
    /\ created \in 0 .. NUM_PHILOSOPHERS

-----------------------------------------------------------------------------

LEFT(x) == (x + NUM_PHILOSOPHERS - 1) % NUM_PHILOSOPHERS
RIGHT(x) == (x + 1) % NUM_PHILOSOPHERS

\* Fault: everybody reaches for the left fork first.
ForkOrder_AllLeft(p) == <<LEFT(p), RIGHT(p)>>

ForkOrder(p) == IF p % 2 = 0 THEN <<LEFT(p), RIGHT(p)>> ELSE <<RIGHT(p), LEFT(p)>>

first_fork(p) == ForkOrder(p)[1]
second_fork(p) == ForkOrder(p)[2]

Init ==
    /\ forks = [f \in Forks |-> Free]
    /\ pc = [p \in Philosophers |-> "unborn"]
    /\ created = 0

\* main starts the next philosopher; its joins never return.
CreateThread ==
    /\ created < NUM_PHILOSOPHERS
    /\ created' = created + 1
    /\ pc' = [pc EXCEPT ![created] = "think"]
    /\ UNCHANGED forks

\* sleep(rand() % 3) ends.
Think(p) ==
    /\ pc[p] = "think"
    /\ pc' = [pc EXCEPT ![p] = "first"]
    /\ UNCHANGED <<forks, created>>

TakeFirst(p) ==
    /\ pc[p] = "first"
    /\ forks[first_fork(p)] = Free
    /\ forks' = [forks EXCEPT ![first_fork(p)] = p]
    /\ pc' = [pc EXCEPT ![p] = "second"]
    /\ UNCHANGED created

\* Fault: the second fork is taken without locking its mutex.
TakeSecond_NoLock(p) ==
    /\ pc[p] = "second"
    /\ forks' = [forks EXCEPT ![second_fork(p)] = p]
    /\ pc' = [pc EXCEPT ![p] = "eat"]
    /\ UNCHANGED created

TakeSecond(p) ==
    /\ pc[p] = "second"
    /\ forks[second_fork(p)] = Free
    /\ forks' = [forks EXCEPT ![second_fork(p)] = p]
    /\ pc' = [pc EXCEPT ![p] = "eat"]
    /\ UNCHANGED created

\* Fault: the first fork is never put back.
EatAndRelease_KeepFork(p) ==
    /\ pc[p] = "eat"
    /\ pc' = [pc EXCEPT ![p] = "release"]
    /\ UNCHANGED <<forks, created>>

\* The meal is over: the first fork is unlocked ...
EatAndRelease(p) ==
    /\ pc[p] = "eat"
    /\ forks' = [forks EXCEPT ![first_fork(p)] = Free]
    /\ pc' = [pc EXCEPT ![p] = "release"]
    /\ UNCHANGED created

\* ... and then the second; the loop starts again.
ReleaseSecond(p) ==
    /\ pc[p] = "release"
    /\ forks' = [forks EXCEPT ![second_fork(p)] = Free]
    /\ pc' = [pc EXCEPT ![p] = "think"]
    /\ UNCHANGED created

philosopher_activity(p) ==
    Think(p) \/ TakeFirst(p) \/ TakeSecond(p) \/ EatAndRelease(p) \/ ReleaseSecond(p)

Next == CreateThread \/ \E p \in Philosophers : philosopher_activity(p)

\* Every thread that can run is scheduled in the end; which waiter a mutex
\* wakes is left open, so one philosopher may starve.
Fairness ==
    /\ WF_vars(CreateThread)
    /\ \A p \in Philosophers : WF_vars(philosopher_activity(p))

Spec == Init /\ [][Next]_vars
FairSpec == Spec /\ Fairness

-----------------------------------------------------------------------------
(* Properties *)

\* The forks a philosopher has locked and not yet unlocked, from where it is.
Holds(p) ==
    CASE pc[p] = "second" -> {first_fork(p)}
      [] pc[p] = "eat" -> {first_fork(p), second_fork(p)}
      [] pc[p] = "release" -> {second_fork(p)}
      [] OTHER -> {}

\* The mutexes agree with the threads: a fork is marked as p's exactly while p
\* is between its lock and its unlock.
MutexesAgree == \A p \in Philosophers, f \in Forks : forks[f] = p <=> f \in Holds(p)

\* Two philosophers never have the same fork in hand, at any point between
\* their lock and unlock calls.
NoSharedFork == \A p, q \in Philosophers : p # q => Holds(p) \cap Holds(q) = {}

\* p is blocked in pthread_mutex_lock on a fork that q holds.
Wanted(p) == IF pc[p] = "first" THEN first_fork(p) ELSE second_fork(p)
WaitsFor(p, q) ==
    /\ pc[p] \in {"first", "second"}
    /\ forks[Wanted(p)] = q

\* "Implement resource ordering to prevent deadlock": no group of philosophers
\* is closed under waiting, each one blocked on a fork held within the group.
NoCircularWait ==
    \A S \in (SUBSET Philosophers) \ {{}} : \E p \in S : \A q \in S : ~WaitsFor(p, q)

\* Somebody always eats again.
SomeoneEats == []<>(\E p \in Philosophers : pc[p] = "eat")

-----------------------------------------------------------------------------
(* Proofs: the alternating order of philosopher_activity prevents circular    *)
(* waiting around every ring of an odd number of philosophers, not only the   *)
(* five of demo_deadlock.c.                                                   *)

N == NUM_PHILOSOPHERS

\* A fork's place in the hidden order that the parity rule follows: from
\* N - 1 up through the odd forks, or down through the even ones, to 0.
Rank(f) == IF f % 2 = 1 THEN f ELSE N - 1 - f

\* Every non-empty set of naturals has a least member.
LEMMA LeastNatural ==
    ASSUME NEW T, T \subseteq Nat, T # {}
    PROVE  \E x \in T : \A y \in T : x <= y
<1>1. PICK x \in T : \A y \in T : ~(<<y, x>> \in OpToRel(<, Nat))
  BY WFMin, NatLessThanWellFounded
<1>2. \A y \in T : ~(y < x)
  BY <1>1 DEF OpToRel
<1>3. \A y \in T : x <= y
  BY <1>2
<1>4. QED BY <1>3

\* LEFT and RIGHT without the modulus.
LEMMA Neighbours ==
    ASSUME NEW p \in Philosophers
    PROVE  /\ LEFT(p) = IF p = 0 THEN N - 1 ELSE p - 1
           /\ RIGHT(p) = IF p = N - 1 THEN 0 ELSE p + 1
<1> USE RingAssumption DEF N, Philosophers
<1>1. \A a \in 0 .. N - 1 : a % N = a
  OBVIOUS
<1>2. \A a \in 0 .. N - 1 : (a + N) % N = a
  OBVIOUS
<1>3. CASE p = 0
  BY <1>1, <1>3 DEF LEFT, RIGHT
<1>4. CASE p = N - 1
  <2>1. (p + N - 1) = (p - 1) + N /\ p - 1 \in 0 .. N - 1
    BY <1>4
  <2>2. p + 1 = 0 + N
    BY <1>4
  <2>3. QED BY <1>2, <1>4, <2>1, <2>2 DEF LEFT, RIGHT
<1>5. CASE p # 0 /\ p # N - 1
  <2>1. (p + N - 1) = (p - 1) + N /\ p - 1 \in 0 .. N - 1 /\ p + 1 \in 0 .. N - 1
    BY <1>5
  <2>2. QED BY <1>1, <1>2, <1>5, <2>1 DEF LEFT, RIGHT
<1>6. QED BY <1>3, <1>4, <1>5

\* Each philosopher uses two different forks and takes the lower-ranked first.
LEMMA OrderRises ==
    ASSUME NEW p \in Philosophers
    PROVE  /\ first_fork(p) \in Forks /\ second_fork(p) \in Forks
           /\ first_fork(p) # second_fork(p)
           /\ Rank(first_fork(p)) < Rank(second_fork(p))
<1> USE RingAssumption DEF N, Philosophers, Forks, Rank
<1>1. CASE p % 2 = 0
  <2>1. first_fork(p) = LEFT(p) /\ second_fork(p) = RIGHT(p)
    BY <1>1 DEF first_fork, second_fork, ForkOrder
  <2>2. QED BY <1>1, <2>1, Neighbours
<1>2. CASE p % 2 = 1
  <2>1. first_fork(p) = RIGHT(p) /\ second_fork(p) = LEFT(p)
    BY <1>2 DEF first_fork, second_fork, ForkOrder
  <2>2. QED BY <1>2, <2>1, Neighbours
<1>3. QED BY <1>1, <1>2

\* The inductive invariant: circular waiting is excluded not by a property of
\* one thread but because the mutexes always agree with where the threads are.
Unborn == \A p \in Philosophers : p >= created => pc[p] = "unborn"
IInv == TypeOK /\ Unborn /\ MutexesAgree

\* main starts with all forks free and no philosopher born.
LEMMA InitInv == Init => IInv
BY RingAssumption
   DEF Init, IInv, TypeOK, Unborn, MutexesAgree, Holds, Philosophers, Forks, Free

\* No step takes a variable out of its type.
LEMMA TypeStep == IInv /\ [Next]_vars => TypeOK' /\ Unborn'
<1> SUFFICES ASSUME IInv, [Next]_vars PROVE TypeOK' /\ Unborn'
  OBVIOUS
<1> USE RingAssumption DEF IInv, TypeOK, Unborn
<1>1. CASE CreateThread
  BY <1>1 DEF CreateThread, Philosophers
<1>2. CASE UNCHANGED vars
  BY <1>2 DEF vars
<1>3. ASSUME NEW p \in Philosophers, philosopher_activity(p)
      PROVE  TypeOK' /\ Unborn'
  <2>1. first_fork(p) \in Forks /\ second_fork(p) \in Forks
    BY OrderRises
  <2>2. p < created
    BY <1>3 DEF philosopher_activity, Think, TakeFirst, TakeSecond, EatAndRelease,
                ReleaseSecond, Philosophers
  <2>3. CASE Think(p)
    BY <2>2, <2>3 DEF Think
  <2>4. CASE TakeFirst(p)
    BY <2>1, <2>2, <2>4 DEF TakeFirst
  <2>5. CASE TakeSecond(p)
    BY <2>1, <2>2, <2>5 DEF TakeSecond
  <2>6. CASE EatAndRelease(p)
    BY <2>1, <2>2, <2>6 DEF EatAndRelease
  <2>7. CASE ReleaseSecond(p)
    BY <2>1, <2>2, <2>7 DEF ReleaseSecond
  <2>8. QED BY <1>3, <2>3, <2>4, <2>5, <2>6, <2>7 DEF philosopher_activity
<1>4. QED BY <1>1, <1>2, <1>3 DEF Next

\* Locking and unlocking keep the mutexes in agreement with the threads.
LEMMA AgreeStep == IInv /\ [Next]_vars => MutexesAgree'
<1> SUFFICES ASSUME IInv, [Next]_vars PROVE MutexesAgree'
  OBVIOUS
<1> USE RingAssumption DEF IInv
<1>1. CASE CreateThread
  <2>1. created \in Philosophers /\ pc[created] = "unborn"
    BY <1>1 DEF CreateThread, TypeOK, Unborn, Philosophers
  <2>2. \A p \in Philosophers : Holds(p)' = Holds(p)
    BY <1>1, <2>1 DEF CreateThread, Holds, TypeOK
  <2>3. QED BY <1>1, <2>2 DEF CreateThread, MutexesAgree
<1>2. CASE UNCHANGED vars
  BY <1>2 DEF vars, MutexesAgree, Holds
<1>3. ASSUME NEW p \in Philosophers, philosopher_activity(p)
      PROVE  MutexesAgree'
  <2>1. /\ first_fork(p) \in Forks /\ second_fork(p) \in Forks
        /\ first_fork(p) # second_fork(p)
    BY OrderRises
  <2>2. p # Free
    BY DEF Philosophers, Free
  <2>3. ASSUME NEW q \in Philosophers, q # p
        PROVE  Holds(q)' = Holds(q)
    BY <1>3, <2>3 DEF philosopher_activity, Think, TakeFirst, TakeSecond, EatAndRelease,
                      ReleaseSecond, Holds, TypeOK
  <2>4. CASE Think(p)
    <3>1. Holds(p)' = Holds(p)
      BY <2>4 DEF Think, Holds, TypeOK
    <3>2. QED BY <2>3, <2>4, <3>1 DEF Think, MutexesAgree
  <2>5. CASE TakeFirst(p)
    <3>1. Holds(p) = {} /\ Holds(p)' = {first_fork(p)}
      BY <2>5 DEF TakeFirst, Holds, TypeOK
    <3>2. \A f \in Forks : forks'[f] = IF f = first_fork(p) THEN p ELSE forks[f]
      BY <2>1, <2>5 DEF TakeFirst, TypeOK
    <3>3. forks[first_fork(p)] = Free
      BY <2>5 DEF TakeFirst
    <3>4. QED BY <2>1, <2>2, <2>3, <3>1, <3>2, <3>3 DEF MutexesAgree, Philosophers, Free
  <2>6. CASE TakeSecond(p)
    <3>1. Holds(p) = {first_fork(p)} /\ Holds(p)' = {first_fork(p), second_fork(p)}
      BY <2>6 DEF TakeSecond, Holds, TypeOK
    <3>2. \A f \in Forks : forks'[f] = IF f = second_fork(p) THEN p ELSE forks[f]
      BY <2>1, <2>6 DEF TakeSecond, TypeOK
    <3>3. forks[second_fork(p)] = Free
      BY <2>6 DEF TakeSecond
    <3>4. QED BY <2>1, <2>2, <2>3, <3>1, <3>2, <3>3 DEF MutexesAgree, Philosophers, Free
  <2>7. CASE EatAndRelease(p)
    <3>1. Holds(p) = {first_fork(p), second_fork(p)} /\ Holds(p)' = {second_fork(p)}
      BY <2>7 DEF EatAndRelease, Holds, TypeOK
    <3>2. \A f \in Forks : forks'[f] = IF f = first_fork(p) THEN Free ELSE forks[f]
      BY <2>1, <2>7 DEF EatAndRelease, TypeOK
    <3>3. forks[first_fork(p)] = p
      BY <2>1, <3>1 DEF MutexesAgree
    <3>4. QED BY <2>1, <2>2, <2>3, <3>1, <3>2, <3>3 DEF MutexesAgree, Philosophers, Free
  <2>8. CASE ReleaseSecond(p)
    <3>1. Holds(p) = {second_fork(p)} /\ Holds(p)' = {}
      BY <2>8 DEF ReleaseSecond, Holds, TypeOK
    <3>2. \A f \in Forks : forks'[f] = IF f = second_fork(p) THEN Free ELSE forks[f]
      BY <2>1, <2>8 DEF ReleaseSecond, TypeOK
    <3>3. forks[second_fork(p)] = p
      BY <2>1, <3>1 DEF MutexesAgree
    <3>4. QED BY <2>1, <2>2, <2>3, <3>1, <3>2, <3>3 DEF MutexesAgree, Philosophers, Free
  <2>9. QED BY <1>3, <2>4, <2>5, <2>6, <2>7, <2>8 DEF philosopher_activity
<1>4. QED BY <1>1, <1>2, <1>3 DEF Next

\* The inductive invariant: the mutexes agree with the hands of the threads.
THEOREM Invariance == Spec => []IInv
<1>1. IInv /\ [Next]_vars => IInv'
  BY TypeStep, AgreeStep DEF IInv
<1>2. QED BY InitInv, <1>1, PTL DEF Spec

\* In a group closed under waiting, whoever waits for the highest-ranked fork
\* waits for a philosopher who already holds a fork of that rank and so waits
\* for a higher one: there is no such group.
LEMMA Acyclic == TypeOK /\ MutexesAgree => NoCircularWait
<1> SUFFICES ASSUME TypeOK, MutexesAgree,
                    NEW S \in (SUBSET Philosophers) \ {{}},
                    \A p \in S : \E q \in S : WaitsFor(p, q)
             PROVE  FALSE
  BY DEF NoCircularWait
<1> USE RingAssumption
<1> DEFINE Height(p) == N - Rank(Wanted(p))
<1> DEFINE T == {Height(p) : p \in S}
<1>1. \A p \in S : Wanted(p) \in Forks
  BY OrderRises DEF Wanted
<1>2. \A p \in S : Rank(Wanted(p)) \in 0 .. N - 1
  BY <1>1 DEF Rank, Forks, N
<1>3. T \subseteq Nat /\ T # {}
  <2>1. \A p \in S : Height(p) \in Nat
    BY <1>2 DEF N
  <2>2. PICK p \in S : TRUE
    OBVIOUS
  <2> HIDE DEF Height
  <2>3. Height(p) \in T
    OBVIOUS
  <2>4. QED BY <2>1, <2>3
<1>4. PICK m \in T : \A y \in T : m <= y
  <2> HIDE DEF T
  <2> QED BY <1>3, LeastNatural
<1>5. PICK p \in S : m = Height(p)
  BY DEF T
<1>6. PICK q \in S : WaitsFor(p, q)
  OBVIOUS
<1>7. Wanted(p) \in Holds(q)
  BY <1>1, <1>6 DEF WaitsFor, MutexesAgree
<1>8. pc[q] \in {"first", "second"}
  BY DEF WaitsFor
<1>9. pc[q] = "second" /\ Wanted(p) = first_fork(q) /\ Wanted(q) = second_fork(q)
  BY <1>7, <1>8 DEF Holds, Wanted
<1>10. Rank(Wanted(p)) < Rank(Wanted(q))
  BY <1>9, OrderRises
<1>11. Height(q) < m
  <2>1. Rank(Wanted(p)) \in Int /\ Rank(Wanted(q)) \in Int
    BY <1>2
  <2>2. QED BY <1>5, <1>10, <2>1 DEF N
<1>12. Height(q) \in T
  OBVIOUS
<1>13. m <= Height(q)
  BY <1>4, <1>12
<1>14. Height(q) \in Nat /\ m \in Nat
  BY <1>3, <1>12
<1>15. QED
  <2> HIDE DEF Height, T
  <2> QED BY <1>11, <1>13, <1>14

\* The order in which philosopher_activity locks its forks excludes circular
\* waiting around every odd ring.
THEOREM DeadlockPrevented == Spec => []NoCircularWait
<1>1. IInv => NoCircularWait
  BY Acyclic DEF IInv
<1>2. QED BY Invariance, <1>1, PTL

\* A fork is in one hand at a time around every odd ring.
THEOREM ForksExclusive == Spec => []NoSharedFork
<1>1. IInv => NoSharedFork
  <2> SUFFICES ASSUME IInv, NEW p \in Philosophers, NEW q \in Philosophers, p # q,
                      NEW f \in Holds(p), f \in Holds(q)
               PROVE  FALSE
    BY DEF NoSharedFork
  <2>1. f \in Forks
    BY OrderRises DEF Holds
  <2>2. QED BY <2>1 DEF IInv, MutexesAgree
<1>2. QED BY Invariance, <1>1, PTL

\* The type invariant of the run philosophers, for every odd ring.
THEOREM TypeCorrect == Spec => []TypeOK
<1>1. IInv => TypeOK
  BY DEF IInv
<1>2. QED BY Invariance, <1>1, PTL
=============================================================================
