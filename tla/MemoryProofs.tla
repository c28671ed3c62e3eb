---------------------------- MODULE MemoryProofs ----------------------------
(***************************************************************************)
(* The memory programs of d15 to d24, for all sizes.  The first-fit        *)
(* allocator: its list tiles the memory and used_size is exact.  The       *)
(* partitions, the pool and the allocators of d18: what is handed out is   *)
(* apart and what is free is counted.  Demand paging and the address map:  *)
(* two pages never share a frame.  The translation buffer and the caches: a *)
(* lookup answers as the level behind.  Segments get the first place.  Page *)
(* replacement: what FIFO and LRU keep, and that nothing has fewer faults  *)
(* than optimal replacement.  The heap of d23: its two lists tile it.      *)
(***************************************************************************)
EXTENDS MCMemory, Sequences, FiniteSetTheorems, WellFoundedInduction, TLAPS

\* Every non-empty set of naturals has a least member.
LEMMA LeastNatural ==
    ASSUME NEW T, T \subseteq Nat, T # {}
    PROVE  \E x \in T : \A y \in T : x <= y
<1>1. PICK x \in T : \A y \in T : ~(<<y, x>> \in OpToRel(<, Nat))
  BY WFMin, NatLessThanWellFounded
<1>2. \A y \in T : ~(y < x)
  BY <1>1 DEF OpToRel
<1>3. \A y \in T : x <= y
  BY <1>2
<1>4. QED BY <1>3

-----------------------------------------------------------------------------
(* First_Fit_alloc.c: the list of blocks *)

Pointers == Addresses \cup {NULL}
Headers == [size : Nat, is_allocatad : BOOLEAN, next : Pointers, prev : Pointers]
Heaps == [Addresses -> Headers]

\* Where a block ends.
Behind(h, b) == b + HEADER + h[b].size

\* The blocks B of the heap h lie end to end over the whole memory and are linked
\* both ways in that order.
Valid(h, B) ==
    /\ B \subseteq Addresses /\ 0 \in B
    /\ \A b \in B : h[b].next = NULL => Behind(h, b) = MEMORY_SIZE
    /\ \A b \in B : h[b].next # NULL =>
          /\ h[b].next \in B /\ h[b].next = Behind(h, b) /\ h[h[b].next].prev = b
    /\ h[0].prev = NULL
    /\ \A b \in B : b # 0 => h[b].prev \in B /\ h[h[b].prev].next = b
    /\ \A b, c \in B : b < c => Behind(h, b) <= c

\* Of two neighbours one is allocated, except perhaps where the left one is in S.
Tight(h, B, S) ==
    \A b \in B \ S : h[b].next # NULL => h[b].is_allocatad \/ h[h[b].next].is_allocatad

\* The first N steps along the list.
IsWalk(t, h, N) ==
    t = [k \in 0 .. N |->
            IF k = 0 THEN 0 ELSE IF t[k - 1] = NULL THEN NULL ELSE h[t[k - 1]].next]

LEMMA WalkExists ==
    ASSUME NEW h, NEW N \in Nat
    PROVE  \E t : IsWalk(t, h, N)
<1> DEFINE Step(t, k) == IF k = 0 THEN 0 ELSE IF t[k - 1] = NULL THEN NULL ELSE h[t[k - 1]].next
           Part(t, n) == t = [k \in 0 .. n |-> Step(t, k)]
           T == {n \in 0 .. N : ~ \E t : Part(t, n)}
<1>1. CASE T = {}
  <2>1. PICK t : Part(t, N)
    BY <1>1
  <2>2. QED BY <2>1 DEF IsWalk
<1>2. CASE T # {}
  <2>1. PICK n \in T : \A m \in T : n <= m
    <3>1. T \subseteq Nat
      OBVIOUS
    <3> HIDE DEF T
    <3>2. QED BY <1>2, <3>1, LeastNatural
  <2>2. CASE n = 0
    <3>1. Part([k \in 0 .. 0 |-> 0], 0)
      OBVIOUS
    <3>2. QED BY <2>1, <2>2, <3>1
  <2>3. CASE n # 0
    <3>1. n - 1 \in 0 .. N /\ n \in Nat /\ ~(n <= n - 1)
      BY <2>1, <2>3
    <3>2. PICK t : Part(t, n - 1)
      BY <2>1, <3>1
    <3> DEFINE u == [k \in 0 .. n |-> IF k = n THEN Step(t, n) ELSE t[k]]
    <3>3. \A k \in 0 .. n - 1 : u[k] = t[k]
      BY <3>1
    <3>4. ASSUME NEW k \in 0 .. n PROVE u[k] = Step(u, k)
      <4>1. CASE k = n
        <5>1. u[n - 1] = t[n - 1] /\ u[n] = Step(t, n)
          BY <2>3, <3>1, <3>3
        <5> HIDE DEF u
        <5>2. QED BY <2>3, <4>1, <5>1
      <4>2. CASE k # n
        <5>1. k \in 0 .. n - 1 /\ (k # 0 => k - 1 \in 0 .. n - 1)
          BY <3>1, <4>2
        <5>2. t[k] = Step(t, k)
          BY <3>2, <5>1
        <5> HIDE DEF u
        <5>3. QED BY <3>3, <5>1, <5>2
      <4>3. QED BY <4>1, <4>2
    <3>5. u = [k \in 0 .. n |-> u[k]]
      OBVIOUS
    <3>6. Part(u, n)
      <4> HIDE DEF u
      <4> QED BY <3>4, <3>5
    <3>7. QED BY <2>1, <3>6
  <2>4. QED BY <2>2, <2>3
<1>3. QED BY <1>1, <1>2

\* The walk meets the blocks, all of them, within MEMORY_SIZE steps.
LEMMA WalkMeetsBlocks ==
    ASSUME NEW h \in Heaps, NEW B, Valid(h, B), NEW t, IsWalk(t, h, MEMORY_SIZE)
    PROVE  {t[k] : k \in 0 .. MEMORY_SIZE} \ {NULL} = B
<1>0. MEMORY_SIZE \in Nat /\ HEADER \in Nat /\ HEADER > 0 /\ NULL \notin Addresses
      /\ B \subseteq Addresses /\ 0 \in B
  BY FirstFitAssumption DEF Addresses, NULL, Valid
<1>1. \A k \in 0 .. MEMORY_SIZE :
        t[k] = IF k = 0 THEN 0 ELSE IF t[k - 1] = NULL THEN NULL ELSE h[t[k - 1]].next
  BY DEF IsWalk
<1>2. \A k \in 0 .. MEMORY_SIZE : t[k] \in B \cup {NULL}
  <2> DEFINE T == {k \in 0 .. MEMORY_SIZE : t[k] \notin B \cup {NULL}}
  <2> SUFFICES ASSUME T # {} PROVE FALSE
    OBVIOUS
  <2>1. PICK k \in T : \A m \in T : k <= m
    <3>1. T \subseteq Nat
      BY <1>0
    <3> HIDE DEF T
    <3>2. QED BY <3>1, LeastNatural
  <2>2. CASE k = 0
    BY <1>0, <1>1, <2>1, <2>2
  <2>3. CASE k # 0
    <3>1. k - 1 \in 0 .. MEMORY_SIZE /\ ~(k <= k - 1)
      BY <1>0, <2>1, <2>3
    <3>2. t[k - 1] \in B \cup {NULL}
      BY <2>1, <3>1
    <3>3. t[k] = IF t[k - 1] = NULL THEN NULL ELSE h[t[k - 1]].next
      BY <1>1, <2>1, <2>3
    <3>4. t[k] \in B \cup {NULL}
      BY <3>2, <3>3 DEF Valid
    <3>5. QED BY <2>1, <3>4
  <2>4. QED BY <2>2, <2>3
<1>3. \A b \in B : \E k \in 0 .. b : t[k] = b
  <2> DEFINE T == {b \in B : ~ \E k \in 0 .. b : t[k] = b}
  <2> SUFFICES ASSUME T # {} PROVE FALSE
    OBVIOUS
  <2>1. PICK b \in T : \A c \in T : b <= c
    <3>0. B \subseteq Nat
      BY <1>0 DEF Addresses
    <3>1. T \subseteq Nat
      BY <3>0
    <3> HIDE DEF T
    <3>2. QED BY <3>1, LeastNatural
  <2>2. b \in B /\ b \in 0 .. MEMORY_SIZE - 1 /\ ~ \E k \in 0 .. b : t[k] = b
    BY <1>0, <2>1 DEF Addresses
  <2>3. CASE b = 0
    BY <1>0, <1>1, <2>2, <2>3
  <2>4. CASE b # 0
    <3>1. PICK c \in B : h[c].next = b
      BY <2>2, <2>4 DEF Valid
    <3>2. b # NULL /\ c \in Nat /\ h[c].size \in Nat
      BY <1>0, <2>2, <3>1 DEF Heaps, Headers, Addresses
    <3>3. b = Behind(h, c)
      BY <3>1, <3>2 DEF Valid
    <3>4. c < b
      BY <1>0, <3>2, <3>3 DEF Behind
    <3>5. PICK k \in 0 .. c : t[k] = c
      BY <2>1, <2>2, <3>1, <3>2, <3>4
    <3>6. k + 1 \in 0 .. b /\ k + 1 \in 0 .. MEMORY_SIZE /\ k + 1 # 0 /\ k + 1 - 1 = k
      BY <1>0, <2>2, <3>2, <3>4, <3>5
    <3>7. c # NULL
      BY <1>0, <3>1
    <3>8. t[k + 1] = b
      BY <1>1, <3>1, <3>5, <3>6, <3>7
    <3>9. QED BY <2>2, <3>6, <3>8
  <2>5. QED BY <2>3, <2>4
<1>4. \A b \in B : \A k \in 0 .. b : k \in 0 .. MEMORY_SIZE
  BY <1>0 DEF Addresses
<1>5. QED BY <1>0, <1>2, <1>3, <1>4

BlocksOf(h) ==
    LET step[k \in 0 .. MEMORY_SIZE] ==
            IF k = 0 THEN 0 ELSE IF step[k - 1] = NULL THEN NULL ELSE h[step[k - 1]].next
    IN  {step[k] : k \in 0 .. MEMORY_SIZE} \ {NULL}

LEMMA BlocksAreValid ==
    ASSUME NEW h \in Heaps, NEW B, Valid(h, B)
    PROVE  BlocksOf(h) = B
<1> DEFINE t == CHOOSE x : IsWalk(x, h, MEMORY_SIZE)
<1>0. MEMORY_SIZE \in Nat
  BY FirstFitAssumption
<1>1. IsWalk(t, h, MEMORY_SIZE)
  BY <1>0, WalkExists
<1>2. BlocksOf(h) = {t[k] : k \in 0 .. MEMORY_SIZE} \ {NULL}
  BY DEF BlocksOf, IsWalk
<1> HIDE DEF t
<1>3. QED BY <1>1, <1>2, WalkMeetsBlocks

-----------------------------------------------------------------------------
(* What splitting and merging do to the list *)

\* Handing out a whole block, or taking one back, leaves the list alone.
Flagged(g, h, B, b, f) ==
    /\ h \in Heaps /\ Valid(h, B) /\ b \in B /\ f \in BOOLEAN
    /\ g = [h EXCEPT ![b].is_allocatad = f]

LEMMA FlagValid ==
    ASSUME NEW g, NEW h, NEW B, NEW b, NEW f, Flagged(g, h, B, b, f)
    PROVE  /\ g \in Heaps /\ Valid(g, B)
           /\ \A x \in Addresses :
                 /\ g[x].size = h[x].size /\ g[x].next = h[x].next /\ g[x].prev = h[x].prev
                 /\ x # b => g[x].is_allocatad = h[x].is_allocatad
           /\ g[b].is_allocatad = f
<1>0. h \in Heaps /\ Valid(h, B) /\ b \in B /\ f \in BOOLEAN
      /\ g = [h EXCEPT ![b].is_allocatad = f]
  BY DEF Flagged
<1> USE <1>0
<1>1. b \in Addresses
  BY DEF Valid
<1>2. h[b] \in Headers
  BY <1>1 DEF Heaps
<1>3. g[b] = [h[b] EXCEPT !.is_allocatad = f] /\ \A x \in Addresses : x # b => g[x] = h[x]
  BY <1>1 DEF Heaps
<1>4. g[b] \in Headers
  BY <1>2, <1>3 DEF Headers
<1>5. g \in Heaps
  BY <1>1, <1>3, <1>4 DEF Heaps
<1>6. \A x \in Addresses :
          /\ g[x].size = h[x].size /\ g[x].next = h[x].next /\ g[x].prev = h[x].prev
          /\ x # b => g[x].is_allocatad = h[x].is_allocatad
  BY <1>2, <1>3 DEF Headers
<1>7. g[b].is_allocatad = f
  BY <1>2, <1>3 DEF Headers
<1>8. B \subseteq Addresses /\ 0 \in B
  BY DEF Valid
<1>9. \A x \in B : Behind(g, x) = Behind(h, x)
  BY <1>6, <1>8 DEF Behind
<1>10. Valid(g, B)
  <2>1. \A x \in B : /\ g[x].size = h[x].size /\ g[x].next = h[x].next
                      /\ g[x].prev = h[x].prev
    BY <1>6, <1>8
  <2>2. \A x \in B : h[x].next # NULL =>
            /\ h[x].next \in B /\ h[x].next = Behind(h, x) /\ h[h[x].next].prev = x
    BY DEF Valid
  <2>3. \A x \in B : g[x].next # NULL =>
            /\ g[x].next \in B /\ g[x].next = Behind(g, x) /\ g[g[x].next].prev = x
    <3> SUFFICES ASSUME NEW x \in B, g[x].next # NULL
                 PROVE  g[x].next \in B /\ g[x].next = Behind(g, x) /\ g[g[x].next].prev = x
      OBVIOUS
    <3>1. g[x].next = h[x].next /\ Behind(g, x) = Behind(h, x)
      BY <1>9, <2>1
    <3>2. h[x].next \in B /\ h[x].next = Behind(h, x) /\ h[h[x].next].prev = x
      BY <2>2, <3>1
    <3>3. g[h[x].next].prev = x
      BY <2>1, <3>2
    <3>4. QED BY <3>1, <3>2, <3>3
  <2>4. \A x \in B : x # 0 => h[x].prev \in B /\ h[h[x].prev].next = x
    BY DEF Valid
  <2>5. \A x \in B : x # 0 => g[x].prev \in B /\ g[g[x].prev].next = x
    BY <2>1, <2>4
  <2>6. g[0].prev = NULL /\ \A x \in B : g[x].next = NULL => Behind(g, x) = MEMORY_SIZE
    BY <1>8, <1>9, <2>1 DEF Valid
  <2>7. \A x, y \in B : x < y => Behind(g, x) <= y
    BY <1>9 DEF Valid
  <2>8. QED BY <1>8, <2>3, <2>5, <2>6, <2>7 DEF Valid
<1>11. QED BY <1>5, <1>6, <1>7, <1>10

\* What Split does, for any heap.
SplitOf(h, b, w) ==
    LET rest == b + HEADER + w
        after == h[b].next
        split == [h EXCEPT
            ![rest] = [size |-> h[b].size - w - HEADER, is_allocatad |-> FALSE,
                       next |-> after, prev |-> b],
            ![b].next = rest, ![b].size = w, ![b].is_allocatad = TRUE]
    IN  IF after = NULL THEN split ELSE [split EXCEPT ![after].prev = rest]

\* The rest of a block that is split becomes a block of its own.
Splits(g, h, B, b, w, rest) ==
    /\ h \in Heaps /\ Valid(h, B) /\ b \in B /\ w \in Nat /\ h[b].size >= w + HEADER
    /\ rest = b + HEADER + w /\ g = SplitOf(h, b, w)

SplitDone(g, h, B, b, w, rest) ==
    /\ g \in Heaps /\ Valid(g, B \cup {rest})
    /\ rest \notin B /\ rest \in Addresses
    /\ g[b].size = w /\ g[b].is_allocatad /\ g[b].next = rest
    /\ ~g[rest].is_allocatad /\ g[rest].next = h[b].next
    /\ \A x \in B \ {b} : /\ g[x].size = h[x].size /\ g[x].next = h[x].next
                          /\ g[x].is_allocatad = h[x].is_allocatad

LEMMA SplitValid ==
    ASSUME NEW g, NEW h, NEW B, NEW b, NEW w, NEW rest, Splits(g, h, B, b, w, rest)
    PROVE  SplitDone(g, h, B, b, w, rest)
<1> DEFINE after == h[b].next
<1>a. /\ h \in Heaps /\ Valid(h, B) /\ b \in B /\ w \in Nat /\ h[b].size >= w + HEADER
      /\ rest = b + HEADER + w /\ g = SplitOf(h, b, w)
  BY DEF Splits
<1> USE <1>a
<1>0. MEMORY_SIZE \in Nat /\ HEADER \in Nat /\ HEADER > 0 /\ NULL \notin Addresses
      /\ B \subseteq Addresses /\ 0 \in B /\ NULL = -1 /\ B \subseteq Nat
  BY FirstFitAssumption DEF Addresses, NULL, Valid
<1>1. b \in Addresses /\ b \in Nat /\ h[b] \in Headers /\ h[b].size \in Nat /\ after \in Pointers
  BY <1>0 DEF Heaps, Headers
<1>2. Behind(h, b) \in Nat /\ Behind(h, b) <= MEMORY_SIZE
  BY <1>0, <1>1 DEF Valid, Behind, Addresses
<1>3. rest \in Nat /\ rest \in Addresses /\ b < rest /\ rest < Behind(h, b)
  BY <1>0, <1>1, <1>2 DEF Behind, Addresses
<1>4. rest \notin B
  BY <1>1, <1>3, <1>0, <1>2 DEF Valid
<1>5. after # NULL => after \in B /\ after \in Addresses /\ after = Behind(h, b)
                       /\ after # rest /\ after # b /\ h[after] \in Headers /\ h[after].prev = b
  <2> SUFFICES ASSUME after # NULL
               PROVE  after \in B /\ after \in Addresses /\ after = Behind(h, b)
                       /\ after # rest /\ after # b /\ h[after] \in Headers /\ h[after].prev = b
    OBVIOUS
  <2>1. after \in B /\ after = Behind(h, b) /\ h[after].prev = b
    BY DEF Valid
  <2>2. after \in Addresses /\ after # rest /\ after # b
    BY <1>0, <1>1, <1>2, <1>3, <2>1
  <2>3. h[after] \in Headers
    BY <2>2 DEF Heaps
  <2>4. QED BY <2>1, <2>2, <2>3
<1>6. /\ g[rest] = [size |-> h[b].size - w - HEADER, is_allocatad |-> FALSE,
                     next |-> after, prev |-> b]
      /\ g[b] = [size |-> w, is_allocatad |-> TRUE, next |-> rest, prev |-> h[b].prev]
      /\ after # NULL => g[after] = [h[after] EXCEPT !.prev = rest]
      /\ \A x \in Addresses \ {rest, b, after} : g[x] = h[x]
      /\ g = [x \in Addresses |-> g[x]]
  <2> DEFINE s1 == [h EXCEPT ![rest] = [size |-> h[b].size - w - HEADER, is_allocatad |-> FALSE,
                                        next |-> after, prev |-> b]]
             s2 == [s1 EXCEPT ![b].next = rest]
             s3 == [s2 EXCEPT ![b].size = w]
             s4 == [s3 EXCEPT ![b].is_allocatad = TRUE]
  <2>1. g = IF after = NULL THEN s4 ELSE [s4 EXCEPT ![after].prev = rest]
    BY <1>1, <1>3 DEF SplitOf
  <2>a. h = [x \in Addresses |-> h[x]]
    BY DEF Heaps
  <2> HIDE DEF after
  <2>2. /\ s1 = [x \in Addresses |-> s1[x]] /\ s1[b] = h[b]
        /\ s1[rest] = [size |-> h[b].size - w - HEADER, is_allocatad |-> FALSE,
                       next |-> after, prev |-> b]
        /\ \A x \in Addresses \ {rest} : s1[x] = h[x]
    <3>1. PICK r : r = [size |-> h[b].size - w - HEADER, is_allocatad |-> FALSE,
                        next |-> after, prev |-> b]
      OBVIOUS
    <3>2. s1 = [h EXCEPT ![rest] = r]
      BY <3>1
    <3>3. s1[rest] = r /\ \A x \in Addresses \ {rest} : s1[x] = h[x]
      BY <1>3, <2>a, <3>2
    <3>4. s1 = [x \in Addresses |-> s1[x]]
      BY <2>a, <3>2
    <3>5. s1[b] = h[b]
      BY <1>1, <1>3, <3>3
    <3> HIDE DEF s1
    <3>6. QED BY <3>1, <3>3, <3>4, <3>5
  <2> HIDE DEF s1
  <2>3. /\ s4 = [x \in Addresses |-> s4[x]]
        /\ s4[b] = [size |-> w, is_allocatad |-> TRUE, next |-> rest, prev |-> h[b].prev]
        /\ \A x \in Addresses \ {b} : s4[x] = s1[x]
    BY <1>1, <2>2 DEF Headers
  <2> HIDE DEF s4
  <2>4. s4[rest] = s1[rest] /\ (after # NULL => s4[after] = h[after])
    BY <1>3, <1>5, <2>2, <2>3
  <2>5. CASE after = NULL
    <3>1. g = s4
      BY <2>1, <2>5
    <3>2. \A x \in Addresses \ {rest, b, after} : s4[x] = h[x]
      BY <2>2, <2>3
    <3>3. QED BY <2>2, <2>3, <2>4, <2>5, <3>1, <3>2
  <2>6. CASE after # NULL
    <3>1. g = [s4 EXCEPT ![after].prev = rest]
      BY <2>1, <2>6
    <3>2. g[after] = [h[after] EXCEPT !.prev = rest]
      BY <1>5, <2>3, <2>4, <2>6, <3>1
    <3>3. /\ g[rest] = s4[rest] /\ g[b] = s4[b]
          /\ \A x \in Addresses \ {rest, b, after} : g[x] = h[x]
      BY <1>1, <1>3, <1>5, <2>2, <2>3, <2>6, <3>1
    <3>4. g = [x \in Addresses |-> g[x]]
      BY <2>3, <3>1
    <3>5. QED BY <2>2, <2>3, <2>4, <3>2, <3>3, <3>4
  <2>7. QED BY <2>5, <2>6
<1>7. h[b].size - w - HEADER \in Nat /\ rest \in Pointers /\ b \in Pointers /\ h[b].prev \in Pointers
  BY <1>0, <1>1, <1>3 DEF Headers, Pointers
<1>8. g \in Heaps
  <2>1. g[rest] \in Headers /\ g[b] \in Headers
    BY <1>1, <1>6, <1>7 DEF Headers
  <2>2. after # NULL => g[after] \in Headers
    BY <1>5, <1>6, <1>7 DEF Headers
  <2>3. \A x \in Addresses : g[x] \in Headers
    BY <1>0, <1>1, <1>5, <1>6, <2>1, <2>2 DEF Heaps
  <2>4. QED BY <1>6, <2>3 DEF Heaps
<1>9. /\ g[b].size = w /\ g[b].is_allocatad = TRUE /\ g[b].next = rest /\ g[b].prev = h[b].prev
      /\ g[rest].size = h[b].size - w - HEADER /\ g[rest].is_allocatad = FALSE
      /\ g[rest].next = after /\ g[rest].prev = b
  BY <1>6
<1>10. \A x \in B \ {b} : /\ g[x].size = h[x].size /\ g[x].next = h[x].next
                          /\ g[x].is_allocatad = h[x].is_allocatad
                          /\ g[x].prev = IF x = after THEN rest ELSE h[x].prev
  <2> TAKE x \in B \ {b}
  <2>1. CASE x = after
    BY <1>0, <1>5, <1>6, <2>1 DEF Headers
  <2>2. CASE x # after
    <3>1. x \in Addresses \ {rest, b, after}
      BY <1>0, <1>4, <2>2
    <3>2. QED BY <1>6, <2>2, <3>1
  <2>3. QED BY <2>1, <2>2
<1>11. /\ Behind(g, b) = rest /\ Behind(g, rest) = Behind(h, b)
       /\ \A x \in B \ {b} : Behind(g, x) = Behind(h, x)
  BY <1>0, <1>1, <1>3, <1>9, <1>10 DEF Behind
<1>12. Valid(g, B \cup {rest})
  <2> DEFINE C == B \cup {rest}
  <2>1. C \subseteq Addresses /\ 0 \in C
    BY <1>0, <1>3
  <2>2. \A x \in C : g[x].next = NULL => Behind(g, x) = MEMORY_SIZE
    BY <1>0, <1>3, <1>9, <1>10, <1>11 DEF Valid
  <2>3. ASSUME NEW x \in C, g[x].next # NULL
        PROVE  g[x].next \in C /\ g[x].next = Behind(g, x) /\ g[g[x].next].prev = x
    <3>1. CASE x = b
      BY <1>9, <1>11, <3>1
    <3>2. CASE x = rest
      <4>1. after \in B \ {b} /\ after = Behind(h, b)
        BY <1>5, <1>9, <2>3, <3>2
      <4>2. g[after].prev = rest
        BY <1>10, <4>1
      <4>3. QED BY <1>9, <1>11, <3>2, <4>1, <4>2
    <3>3. CASE x \in B \ {b}
      <4>1. g[x].next = h[x].next /\ Behind(g, x) = Behind(h, x)
        BY <1>10, <1>11, <3>3
      <4>2. h[x].next \in B /\ h[x].next = Behind(h, x) /\ h[h[x].next].prev = x
        BY <2>3, <3>3, <4>1 DEF Valid
      <4>3. h[x].next # after
        BY <1>5, <2>3, <3>3, <4>1, <4>2
      <4>4. g[h[x].next].prev = h[h[x].next].prev
        BY <1>9, <1>10, <4>2, <4>3
      <4>5. QED BY <4>1, <4>2, <4>4
    <3>4. QED BY <3>1, <3>2, <3>3
  <2>4. g[0].prev = NULL
    <3>1. h[0].prev = NULL
      BY DEF Valid
    <3>2. CASE b = 0
      BY <1>9, <3>1, <3>2
    <3>3. CASE b # 0
      <4>1. after # 0
        BY <1>0, <1>1, <1>3, <1>5
      <4>2. QED BY <1>0, <1>10, <3>1, <3>3, <4>1
    <3>4. QED BY <3>2, <3>3
  <2>5. ASSUME NEW x \in C, x # 0 PROVE g[x].prev \in C /\ g[g[x].prev].next = x
    <3>1. CASE x = rest
      BY <1>9, <3>1
    <3>2. CASE x = b
      <4>1. h[b].prev \in B /\ h[h[b].prev].next = b
        BY <2>5, <3>2 DEF Valid
      <4>2. h[b].prev # b
        BY <1>0, <1>1, <1>5, <4>1
      <4>3. QED BY <1>9, <1>10, <3>2, <4>1, <4>2
    <3>3. CASE x = after
      BY <1>0, <1>3, <1>5, <1>9, <1>10, <2>5, <3>3
    <3>4. CASE x \in B \ {b, after}
      <4>1. h[x].prev \in B /\ h[h[x].prev].next = x
        BY <2>5, <3>4 DEF Valid
      <4>2. h[x].prev # b
        BY <3>4, <4>1
      <4>3. QED BY <1>10, <3>4, <4>1, <4>2
    <3>5. QED BY <3>1, <3>2, <3>3, <3>4
  <2>6. ASSUME NEW x \in C, NEW y \in C, x < y PROVE Behind(g, x) <= y
    <3>1. \A p, q \in B : p < q => Behind(h, p) <= q
      BY DEF Valid
    <3>2. \A p \in B : p \in Nat /\ Behind(h, p) \in Nat
      BY <1>0 DEF Heaps, Headers, Behind
    <3>3. CASE x = b
      BY <1>0, <1>1, <1>3, <1>11, <2>6, <3>1, <3>2, <3>3
    <3>4. CASE x = rest
      <4>1. y \in B /\ b < y
        <5>1. rest < y
          BY <2>6, <3>4
        <5>2. y \in B \cup {rest} /\ rest \in Nat /\ b \in Nat /\ b < rest
          BY <1>1, <1>3, <2>6
        <5>3. y \in B
          BY <5>1, <5>2
        <5>4. y \in Nat
          BY <3>2, <5>3
        <5>5. QED BY <5>1, <5>2, <5>3, <5>4
      <4>2. QED BY <1>11, <3>1, <3>4, <4>1
    <3>5. CASE x \in B \ {b}
      <4>1. CASE y = rest
        <5>1. x < b
          BY <1>1, <1>3, <2>6, <3>1, <3>2, <3>5, <4>1
        <5>2. QED BY <1>1, <1>3, <1>11, <3>1, <3>2, <3>5, <4>1, <5>1
      <4>2. CASE y # rest
        BY <1>11, <2>6, <3>1, <3>5, <4>2
      <4>3. QED BY <4>1, <4>2
    <3>6. QED BY <3>3, <3>4, <3>5
  <2> HIDE DEF C
  <2>7. Valid(g, C)
    BY <2>1, <2>2, <2>3, <2>4, <2>5, <2>6 DEF Valid
  <2>8. QED BY <2>7 DEF C
<1>13. QED BY <1>3, <1>4, <1>8, <1>9, <1>10, <1>12 DEF SplitDone

\* What both merges do: b takes in the block a behind it.
Absorb(h, b, a) ==
    LET merged == [h EXCEPT ![b].size = @ + h[a].size + HEADER, ![b].next = h[a].next]
    IN  IF h[a].next = NULL THEN merged ELSE [merged EXCEPT ![h[a].next].prev = b]

LEMMA AbsorbValid ==
    ASSUME NEW h \in Heaps, NEW B, Valid(h, B), NEW b \in B, NEW a, a = h[b].next, a # NULL,
           NEW g, g = Absorb(h, b, a)
    PROVE  /\ g \in Heaps /\ Valid(g, B \ {a})
           /\ a \in B \ {b, 0} /\ g[b].next = h[a].next
           /\ \A x \in B \ {a} : g[x].is_allocatad = h[x].is_allocatad
           /\ \A x \in B \ {a, b} : g[x].size = h[x].size /\ g[x].next = h[x].next
           /\ \A x \in B \ {a} : g[x].prev = IF x = h[a].next THEN b ELSE h[x].prev
<1>0. MEMORY_SIZE \in Nat /\ HEADER \in Nat /\ HEADER > 0 /\ NULL \notin Addresses
      /\ B \subseteq Addresses /\ 0 \in B /\ NULL = -1 /\ B \subseteq Nat
  BY FirstFitAssumption DEF Addresses, NULL, Valid
<1>1. /\ a \in B /\ a = Behind(h, b) /\ h[a].prev = b
      /\ a \in Addresses /\ b \in Addresses /\ a \in Nat /\ b \in Nat
      /\ h[a] \in Headers /\ h[b] \in Headers /\ h[a].size \in Nat /\ h[b].size \in Nat
  <2>1. a \in B /\ a = Behind(h, b) /\ h[a].prev = b
    BY DEF Valid
  <2>2. QED BY <1>0, <2>1 DEF Heaps, Headers
<1>2. b < a /\ a # 0
  BY <1>0, <1>1 DEF Behind
<1>3. PICK c : c = h[a].next
  OBVIOUS
<1>4. c # NULL => /\ c \in B /\ c = Behind(h, a) /\ h[c].prev = a /\ c \in Addresses
                   /\ h[c] \in Headers /\ a < c /\ c \in Nat
  <2> SUFFICES ASSUME c # NULL
               PROVE  /\ c \in B /\ c = Behind(h, a) /\ h[c].prev = a /\ c \in Addresses
                      /\ h[c] \in Headers /\ a < c /\ c \in Nat
    OBVIOUS
  <2>1. c \in B /\ c = Behind(h, a) /\ h[c].prev = a
    BY <1>1, <1>3 DEF Valid
  <2>2. c \in Addresses /\ c \in Nat /\ h[c] \in Headers
    BY <1>0, <2>1 DEF Heaps
  <2>3. a < c
    BY <1>0, <1>1, <2>1 DEF Behind
  <2>4. QED BY <2>1, <2>2, <2>3
<1>5. PICK n \in Nat : n = h[b].size + h[a].size + HEADER
  BY <1>0, <1>1
<1>6. /\ g[b] = [h[b] EXCEPT !.size = n, !.next = c]
      /\ c # NULL => g[c] = [h[c] EXCEPT !.prev = b]
      /\ \A x \in Addresses \ {b, c} : g[x] = h[x]
      /\ g = [x \in Addresses |-> g[x]]
  <2> DEFINE s1 == [h EXCEPT ![b].size = @ + h[a].size + HEADER]
             s2 == [s1 EXCEPT ![b].next = c]
  <2>a. h = [x \in Addresses |-> h[x]]
    BY DEF Heaps
  <2>1. g = IF c = NULL THEN s2 ELSE [s2 EXCEPT ![c].prev = b]
    BY <1>1, <1>3 DEF Absorb
  <2>2. /\ s1 = [x \in Addresses |-> s1[x]] /\ s1[b] = [h[b] EXCEPT !.size = n]
        /\ \A x \in Addresses \ {b} : s1[x] = h[x]
    BY <1>1, <1>5, <2>a DEF Headers
  <2> HIDE DEF s1
  <2>3. /\ s2 = [x \in Addresses |-> s2[x]] /\ s2[b] = [h[b] EXCEPT !.size = n, !.next = c]
        /\ \A x \in Addresses \ {b} : s2[x] = h[x]
    BY <1>1, <2>2 DEF Headers
  <2> HIDE DEF s2
  <2>4. CASE c = NULL
    BY <2>1, <2>3, <2>4
  <2>5. CASE c # NULL
    <3>1. g = [s2 EXCEPT ![c].prev = b]
      BY <2>1, <2>5
    <3>2. c \in Addresses /\ c # b
      BY <1>1, <1>2, <1>4, <2>5
    <3>3. g[c] = [h[c] EXCEPT !.prev = b]
      BY <2>3, <3>1, <3>2
    <3>4. g[b] = s2[b] /\ \A x \in Addresses \ {b, c} : g[x] = h[x]
      BY <1>1, <2>3, <3>1, <3>2
    <3>5. g = [x \in Addresses |-> g[x]]
      BY <2>3, <3>1
    <3>6. QED BY <2>3, <3>3, <3>4, <3>5
  <2>6. QED BY <2>4, <2>5
<1>7. g \in Heaps
  <2>1. c \in Pointers /\ b \in Pointers
    BY <1>0, <1>1, <1>3, <1>4 DEF Pointers
  <2>2. g[b] \in Headers
    BY <1>1, <1>6, <2>1 DEF Headers
  <2>3. c # NULL => g[c] \in Headers
    BY <1>4, <1>6, <2>1 DEF Headers
  <2>4. \A x \in Addresses : g[x] \in Headers
    BY <1>0, <1>6, <2>2, <2>3 DEF Heaps
  <2>5. QED BY <1>6, <2>4 DEF Heaps
<1>8. g[b].size = n /\ g[b].next = c /\ g[b].prev = h[b].prev
      /\ g[b].is_allocatad = h[b].is_allocatad
  BY <1>1, <1>6 DEF Headers
<1>9. \A x \in B \ {b} : /\ g[x].size = h[x].size /\ g[x].next = h[x].next
                         /\ g[x].is_allocatad = h[x].is_allocatad
                         /\ g[x].prev = IF x = c THEN b ELSE h[x].prev
  <2> TAKE x \in B \ {b}
  <2>1. CASE x = c
    BY <1>0, <1>4, <1>6, <2>1 DEF Headers
  <2>2. CASE x # c
    <3>1. x \in Addresses \ {b, c}
      BY <1>0, <2>2
    <3>2. QED BY <1>6, <2>2, <3>1
  <2>3. QED BY <2>1, <2>2
<1>10. /\ Behind(g, b) = Behind(h, a)
       /\ \A x \in B \ {b} : Behind(g, x) = Behind(h, x)
  BY <1>0, <1>1, <1>5, <1>8, <1>9 DEF Behind
<1>11. b # c
  BY <1>0, <1>1, <1>2, <1>4
<1>12. Valid(g, B \ {a})
  <2> DEFINE C == B \ {a}
  <2>0. b # a
    BY <1>1, <1>2
  <2>1. C \subseteq Addresses /\ 0 \in C /\ b \in C
    BY <1>0, <1>2, <2>0
  <2>2. \A x \in C : g[x].next = NULL => Behind(g, x) = MEMORY_SIZE
    <3>1. \A x \in B : h[x].next = NULL => Behind(h, x) = MEMORY_SIZE
      BY DEF Valid
    <3>2. g[b].next = NULL => Behind(g, b) = MEMORY_SIZE
      <4>1. a \in B /\ g[b].next = h[a].next /\ Behind(g, b) = Behind(h, a)
        BY <1>1, <1>3, <1>8, <1>10
      <4>2. QED BY <3>1, <4>1
    <3>3. ASSUME NEW x \in C, x # b
          PROVE  g[x].next = NULL => Behind(g, x) = MEMORY_SIZE
      <4>1. x \in B /\ g[x].next = h[x].next /\ Behind(g, x) = Behind(h, x)
        BY <1>9, <1>10, <3>3
      <4>2. QED BY <3>1, <4>1
    <3>4. QED BY <3>2, <3>3
  <2>3. ASSUME NEW x \in C, g[x].next # NULL
        PROVE  g[x].next \in C /\ g[x].next = Behind(g, x) /\ g[g[x].next].prev = x
    <3>1. CASE x = b
      <4>1. c \in B \ {b} /\ c # a /\ c = Behind(h, a)
        BY <1>4, <1>1, <1>8, <1>11, <2>3, <3>1
      <4>2. g[c].prev = b
        BY <1>9, <4>1
      <4>3. QED BY <1>8, <1>10, <3>1, <4>1, <4>2
    <3>2. CASE x # b
      <4>1. g[x].next = h[x].next /\ Behind(g, x) = Behind(h, x)
        BY <1>9, <1>10, <3>2
      <4>2. h[x].next \in B /\ h[x].next = Behind(h, x) /\ h[h[x].next].prev = x
        BY <2>3, <4>1 DEF Valid
      <4>3. h[x].next # a /\ h[x].next # c
        BY <1>0, <1>1, <1>4, <3>2, <4>2
      <4>4. g[h[x].next].prev = x
        BY <1>8, <1>9, <4>2, <4>3
      <4>5. QED BY <4>1, <4>2, <4>3, <4>4
    <3>3. QED BY <3>1, <3>2
  <2>4. g[0].prev = NULL
    <3>1. h[0].prev = NULL
      BY DEF Valid
    <3>2. CASE b = 0
      BY <1>8, <3>1, <3>2
    <3>3. CASE b # 0
      <4>1. c # 0
        BY <1>0, <1>1, <1>4
      <4>2. QED BY <1>0, <1>9, <3>1, <3>3, <4>1
    <3>4. QED BY <3>2, <3>3
  <2>5. ASSUME NEW x \in C, x # 0 PROVE g[x].prev \in C /\ g[g[x].prev].next = x
    <3>1. CASE x = b
      <4>1. h[b].prev \in B /\ h[h[b].prev].next = b
        BY <2>5, <3>1 DEF Valid
      <4>2. h[b].prev # b /\ h[b].prev # a
        BY <1>2, <1>1, <1>3, <1>11, <4>1
      <4>3. QED BY <1>8, <1>9, <3>1, <4>1, <4>2
    <3>2. CASE x = c
      BY <1>8, <1>9, <1>11, <2>1, <3>2
    <3>3. CASE x \in B \ {a, b, c}
      <4>1. h[x].prev \in B /\ h[h[x].prev].next = x
        BY <2>5, <3>3 DEF Valid
      <4>2. h[x].prev # b /\ h[x].prev # a
        BY <1>3, <3>3, <4>1
      <4>3. QED BY <1>9, <3>3, <4>1, <4>2
    <3>4. QED BY <3>1, <3>2, <3>3
  <2>6. ASSUME NEW x \in C, NEW y \in C, x < y PROVE Behind(g, x) <= y
    <3>1. \A p, q \in B : p < q => Behind(h, p) <= q
      BY DEF Valid
    <3>2. CASE x = b
      <4>1. a <= y
        BY <1>1, <2>6, <3>1, <3>2
      <4>2. a < y
        BY <1>0, <1>1, <4>1
      <4>3. QED BY <1>1, <1>10, <3>1, <3>2, <4>2
    <3>3. CASE x # b
      BY <1>10, <2>6, <3>1, <3>3
    <3>4. QED BY <3>2, <3>3
  <2> HIDE DEF C
  <2>7. Valid(g, C)
    BY <2>1, <2>2, <2>3, <2>4, <2>5, <2>6 DEF Valid
  <2>8. QED BY <2>7 DEF C
<1>13. QED BY <1>1, <1>2, <1>3, <1>7, <1>8, <1>9, <1>11, <1>12

\* The blocks handed out.
Out(h, B) == {x \in B : h[x].is_allocatad}

\* When both blocks are free, b can take a in without a trace in what is handed out;
\* afterwards b has no free neighbour behind it.
Absorbs(g, h, B, b, a, S) ==
    /\ h \in Heaps /\ Valid(h, B) /\ b \in B /\ a = h[b].next /\ a # NULL
    /\ ~h[a].is_allocatad /\ ~h[b].is_allocatad /\ g = Absorb(h, b, a)
    /\ a \notin S /\ Tight(h, B, S \cup {b})

LEMMA AbsorbFree ==
    ASSUME NEW g, NEW h, NEW B, NEW b, NEW a, NEW S, Absorbs(g, h, B, b, a, S)
    PROVE  /\ g \in Heaps /\ Valid(g, B \ {a}) /\ Tight(g, B \ {a}, S)
           /\ Out(g, B \ {a}) = Out(h, B)
           /\ \A x \in Out(h, B) : g[x].size = h[x].size
           /\ b \in B \ {a} /\ ~g[b].is_allocatad /\ g[b].prev = h[b].prev
<1>0. /\ h \in Heaps /\ Valid(h, B) /\ b \in B /\ a = h[b].next /\ a # NULL
      /\ ~h[a].is_allocatad /\ ~h[b].is_allocatad /\ g = Absorb(h, b, a)
      /\ a \notin S /\ Tight(h, B, S \cup {b})
  BY DEF Absorbs
<1> USE <1>0
<1>1. /\ g \in Heaps /\ Valid(g, B \ {a})
      /\ a \in B \ {b, 0} /\ g[b].next = h[a].next
      /\ \A x \in B \ {a} : g[x].is_allocatad = h[x].is_allocatad
      /\ \A x \in B \ {a, b} : g[x].size = h[x].size /\ g[x].next = h[x].next
      /\ \A x \in B \ {a} : g[x].prev = IF x = h[a].next THEN b ELSE h[x].prev
  BY AbsorbValid
<1>2. ASSUME NEW x \in B, h[x].next # NULL
      PROVE  /\ h[x].next \in B /\ h[h[x].next].prev = x /\ x < h[x].next
             /\ x \in Nat /\ h[x].next \in Nat
  <2>1. h[x].next \in B /\ h[x].next = Behind(h, x) /\ h[h[x].next].prev = x
    BY <1>2 DEF Valid
  <2>2. x \in Nat /\ h[x].next \in Nat /\ h[x].size \in Nat
    <3>1. B \subseteq Addresses
      BY DEF Valid
    <3>2. x \in Addresses /\ h[x].next \in Addresses
      BY <2>1, <3>1
    <3>3. x \in Nat /\ h[x].next \in Nat
      BY <3>2, FirstFitAssumption DEF Addresses
    <3>4. h[x] \in Headers
      BY <3>2 DEF Heaps
    <3>5. QED BY <3>3, <3>4 DEF Headers
  <2>3. QED BY <2>1, <2>2, FirstFitAssumption DEF Behind
<1>3. b < a /\ b \in Nat /\ a \in Nat
  BY <1>2
<1>4. h[a].next # NULL => a < h[a].next /\ h[a].next \in B \ {a, b} /\ h[a].next \in Nat
  BY <1>1, <1>2, <1>3
<1>5. NULL \notin Nat
  BY DEF NULL
<1>6. Tight(g, B \ {a}, S)
  <2> SUFFICES ASSUME NEW x \in (B \ {a}) \ S, g[x].next # NULL
               PROVE  g[x].is_allocatad \/ g[g[x].next].is_allocatad
    BY DEF Tight
  <2>1. CASE x = b
    <3>1. h[a].next # NULL /\ a \in B \ (S \cup {b})
      BY <1>1, <2>1
    <3>2. h[a].is_allocatad \/ h[h[a].next].is_allocatad
      BY <3>1 DEF Tight
    <3>3. QED BY <1>1, <1>4, <2>1, <3>1, <3>2
  <2>2. CASE x # b
    <3>1. g[x].next = h[x].next /\ g[x].is_allocatad = h[x].is_allocatad
      BY <1>1, <2>2
    <3>2. h[x].next \in B /\ h[h[x].next].prev = x
      BY <1>2, <3>1
    <3>3. h[x].next # a
      BY <1>2, <2>2, <3>2
    <3>4. h[x].is_allocatad \/ h[h[x].next].is_allocatad
      BY <2>2, <3>1 DEF Tight
    <3>5. QED BY <1>1, <3>1, <3>2, <3>3, <3>4
  <2>3. QED BY <2>1, <2>2
<1>7. Out(g, B \ {a}) = Out(h, B)
  BY <1>1 DEF Out
<1>8. \A x \in Out(h, B) : g[x].size = h[x].size
  BY <1>1 DEF Out
<1>9. b # h[a].next
  BY <1>3, <1>4, <1>5
<1>10. b \in B \ {a} /\ ~g[b].is_allocatad /\ g[b].prev = h[b].prev
  BY <1>1, <1>9
<1>11. QED BY <1>1, <1>6, <1>7, <1>8, <1>10

\* memoryFree takes back one block; the merges leave no two free neighbours.
Released(g, h, B, b) ==
    /\ h \in Heaps /\ Valid(h, B) /\ Tight(h, B, {}) /\ b \in B
    /\ g = MergePrev(MergeNext([h EXCEPT ![b].is_allocatad = FALSE], b), b)

LEMMA FreeValid ==
    ASSUME NEW g, NEW h, NEW B, NEW b, Released(g, h, B, b)
    PROVE  \E C : /\ g \in Heaps /\ Valid(g, C) /\ Tight(g, C, {})
                  /\ Out(g, C) = Out(h, B) \ {b}
                  /\ \A x \in Out(g, C) : g[x].size = h[x].size
<1>a. h \in Heaps /\ Valid(h, B) /\ Tight(h, B, {}) /\ b \in B
  BY DEF Released
<1> USE <1>a
<1>1. PICK f : f = [h EXCEPT ![b].is_allocatad = FALSE]
  OBVIOUS
<1>2. /\ f \in Heaps /\ Valid(f, B)
      /\ \A x \in Addresses :
            /\ f[x].size = h[x].size /\ f[x].next = h[x].next /\ f[x].prev = h[x].prev
            /\ x # b => f[x].is_allocatad = h[x].is_allocatad
      /\ f[b].is_allocatad = FALSE
  <2>1. PICK v \in BOOLEAN : v = FALSE
    OBVIOUS
  <2>2. Flagged(f, h, B, b, v)
    BY <1>1, <2>1 DEF Flagged
  <2>3. /\ f \in Heaps /\ Valid(f, B)
        /\ \A x \in Addresses :
              /\ f[x].size = h[x].size /\ f[x].next = h[x].next /\ f[x].prev = h[x].prev
              /\ x # b => f[x].is_allocatad = h[x].is_allocatad
        /\ f[b].is_allocatad = v
    BY <2>2, FlagValid
  <2>4. QED BY <2>1, <2>3
<1>3. B \subseteq Addresses /\ b \in Addresses /\ NULL \notin Addresses
  BY DEF Valid, Addresses, NULL
<1>4. PICK p : p = f[b].prev
  OBVIOUS
<1>5. ASSUME NEW x \in B, f[x].next # NULL
      PROVE  f[x].next \in B /\ f[f[x].next].prev = x /\ x < f[x].next /\ x \in Nat
             /\ f[x].next \in Nat
  <2>1. f[x].next \in B /\ f[x].next = Behind(f, x) /\ f[f[x].next].prev = x
    BY <1>2, <1>5 DEF Valid
  <2>2. x \in Nat /\ f[x].next \in Nat /\ f[x].size \in Nat
    <3>1. x \in Addresses /\ f[x].next \in Addresses /\ Addresses \subseteq Nat
      <4>1. Addresses \subseteq Nat
        BY FirstFitAssumption DEF Addresses
      <4>2. QED BY <1>3, <2>1, <4>1
    <3>2. f[x] \in Headers
      BY <1>2, <3>1 DEF Heaps
    <3>3. f[x].size \in Nat
      BY <3>2 DEF Headers
    <3>4. QED BY <3>1, <3>3
  <2>3. QED BY <2>1, <2>2, FirstFitAssumption DEF Behind
<1>6. Tight(f, B, {p} \cup {b})
  <2> SUFFICES ASSUME NEW x \in B \ ({p} \cup {b}), f[x].next # NULL
               PROVE  f[x].is_allocatad \/ f[f[x].next].is_allocatad
    BY DEF Tight
  <2>1. f[x].next # b /\ f[x].next \in B
    BY <1>4, <1>5
  <2>2. h[x].is_allocatad \/ h[h[x].next].is_allocatad
    BY <1>2, <1>3 DEF Tight
  <2>3. QED BY <1>2, <1>3, <2>1, <2>2
<1>7. Out(f, B) = Out(h, B) \ {b} /\ \A x \in B : f[x].size = h[x].size
  BY <1>2, <1>3 DEF Out
<1>8. PICK m : m = MergeNext(f, b)
  OBVIOUS
<1>9. PICK D : /\ m \in Heaps /\ Valid(m, D) /\ Tight(m, D, {p}) /\ Out(m, D) = Out(f, B)
               /\ \A x \in Out(f, B) : m[x].size = f[x].size
               /\ b \in D /\ ~m[b].is_allocatad /\ m[b].prev = p
  <2>1. CASE f[b].next = NULL \/ f[f[b].next].is_allocatad
    <3>1. m = f
      BY <1>8, <2>1 DEF MergeNext
    <3>2. Tight(f, B, {p})
      BY <1>6, <2>1 DEF Tight
    <3>3. QED BY <1>2, <1>4, <3>1, <3>2
  <2>2. CASE ~(f[b].next = NULL \/ f[f[b].next].is_allocatad)
    <3>1. PICK a : a = f[b].next
      OBVIOUS
    <3>2. m = Absorb(f, b, a) /\ a # NULL /\ ~f[a].is_allocatad
      BY <1>8, <2>2, <3>1 DEF MergeNext, Absorb
    <3>3. a \in B /\ b < a /\ b \in Nat /\ a \in Nat
      BY <1>5, <3>1, <3>2
    <3>4. a # p
      <4> SUFFICES ASSUME a = p PROVE FALSE
        OBVIOUS
      <4>1. b # 0
        <5> SUFFICES ASSUME b = 0 PROVE FALSE
          OBVIOUS
        <5>1. p = NULL
          BY <1>2, <1>4 DEF Valid
        <5>2. QED BY <3>2, <5>1
      <4>2. f[a].next = b
        BY <1>2, <1>4, <4>1 DEF Valid
      <4>3. b # NULL
        BY <1>3
      <4>4. a < b
        BY <1>5, <3>3, <4>2, <4>3
      <4>5. QED BY <3>3, <4>4
    <3>5. ~f[b].is_allocatad /\ f \in Heaps /\ Valid(f, B)
      BY <1>2
    <3>a. PICK S : S = {p}
      OBVIOUS
    <3>b. a \notin S /\ Tight(f, B, S \cup {b})
      BY <1>6, <3>4, <3>a
    <3>c. Absorbs(m, f, B, b, a, S)
      BY <3>1, <3>2, <3>5, <3>b DEF Absorbs
    <3>6. /\ m \in Heaps /\ Valid(m, B \ {a}) /\ Tight(m, B \ {a}, S)
          /\ Out(m, B \ {a}) = Out(f, B)
          /\ \A x \in Out(f, B) : m[x].size = f[x].size
          /\ b \in B \ {a} /\ ~m[b].is_allocatad /\ m[b].prev = f[b].prev
      BY <3>c, AbsorbFree
    <3>7. QED BY <1>4, <3>a, <3>6
  <2>3. QED BY <2>1, <2>2
<1>10. g = MergePrev(m, b)
  BY <1>1, <1>8 DEF Released
<1>11. CASE p = NULL \/ m[p].is_allocatad
  <2>1. g = m
    BY <1>9, <1>10, <1>11 DEF MergePrev
  <2>2. NULL \notin D
    BY <1>3, <1>9 DEF Valid
  <2>3. Tight(m, D, {})
    BY <1>9, <1>11, <2>2 DEF Tight
  <2>4. \A x \in Out(m, D) : m[x].size = h[x].size
    BY <1>7, <1>9 DEF Out
  <2>5. QED BY <1>7, <1>9, <2>1, <2>3, <2>4
<1>12. CASE ~(p = NULL \/ m[p].is_allocatad)
  <2>1. b # 0
    BY <1>9, <1>12 DEF Valid
  <2>2. p \in D /\ m[p].next = b
    BY <1>9, <2>1 DEF Valid
  <2>3. g = Absorb(m, p, b)
    BY <1>9, <1>10, <1>12 DEF MergePrev, Absorb
  <2>4. PICK S : S = {} /\ Tight(m, D, S \cup {p}) /\ b \notin S
    <3>1. PICK S : S = {}
      OBVIOUS
    <3>2. S \cup {p} = {p} /\ b \notin S
      BY <3>1
    <3>3. QED BY <1>9, <3>1, <3>2
  <2>a. b # NULL /\ ~m[p].is_allocatad /\ ~m[b].is_allocatad /\ m \in Heaps /\ Valid(m, D)
    BY <1>3, <1>9, <1>12
  <2>5. /\ g \in Heaps /\ Valid(g, D \ {b}) /\ Tight(g, D \ {b}, {})
        /\ Out(g, D \ {b}) = Out(m, D)
        /\ \A x \in Out(m, D) : g[x].size = m[x].size
    <3>1. PICK q : q = g
      OBVIOUS
    <3>2. Absorbs(q, m, D, p, b, S)
      BY <2>a, <2>2, <2>3, <2>4, <3>1 DEF Absorbs
    <3>3. /\ q \in Heaps /\ Valid(q, D \ {b}) /\ Tight(q, D \ {b}, S)
          /\ Out(q, D \ {b}) = Out(m, D)
          /\ \A x \in Out(m, D) : q[x].size = m[x].size
          /\ p \in D \ {b} /\ ~q[p].is_allocatad /\ q[p].prev = m[p].prev
      BY <3>2, AbsorbFree
    <3>4. QED BY <2>4, <3>1, <3>3
  <2>6. \A x \in Out(g, D \ {b}) : g[x].size = h[x].size
    BY <1>7, <1>9, <2>5 DEF Out
  <2>7. QED BY <1>7, <1>9, <2>5, <2>6
<1>13. QED BY <1>11, <1>12

-----------------------------------------------------------------------------
(* The sum of the sizes handed out *)

\* t[k] is the sum of the first k values of f.
IsSum(t, f) == t = [k \in 0 .. MEMORY_SIZE |-> IF k = 0 THEN 0 ELSE t[k - 1] + f[k - 1]]
SumOf(f) == (CHOOSE t : IsSum(t, f))[MEMORY_SIZE]
Weight(h, U) == [a \in Addresses |-> IF a \in U THEN h[a].size + HEADER ELSE 0]

LEMMA SumExists ==
    ASSUME NEW f
    PROVE  \E t : IsSum(t, f)
<1> DEFINE Step(t, k) == IF k = 0 THEN 0 ELSE t[k - 1] + f[k - 1]
           Part(t, n) == t = [k \in 0 .. n |-> Step(t, k)]
           T == {n \in 0 .. MEMORY_SIZE : ~ \E t : Part(t, n)}
<1>0. MEMORY_SIZE \in Nat
  BY FirstFitAssumption
<1>1. CASE T = {}
  <2>1. PICK t : Part(t, MEMORY_SIZE)
    BY <1>0, <1>1
  <2>2. QED BY <2>1 DEF IsSum
<1>2. CASE T # {}
  <2>1. PICK n \in T : \A m \in T : n <= m
    <3>1. T \subseteq Nat
      BY <1>0
    <3> HIDE DEF T
    <3>2. QED BY <1>2, <3>1, LeastNatural
  <2>2. CASE n = 0
    <3>1. Part([k \in 0 .. 0 |-> 0], 0)
      OBVIOUS
    <3>2. QED BY <2>1, <2>2, <3>1
  <2>3. CASE n # 0
    <3>1. n - 1 \in 0 .. MEMORY_SIZE /\ n \in Nat /\ ~(n <= n - 1)
      BY <1>0, <2>1, <2>3
    <3>2. PICK t : Part(t, n - 1)
      BY <2>1, <3>1
    <3> DEFINE u == [k \in 0 .. n |-> IF k = n THEN Step(t, n) ELSE t[k]]
    <3>3. \A k \in 0 .. n - 1 : u[k] = t[k]
      BY <3>1
    <3>4. ASSUME NEW k \in 0 .. n PROVE u[k] = Step(u, k)
      <4>1. CASE k = n
        <5>1. u[n - 1] = t[n - 1] /\ u[n] = Step(t, n)
          BY <2>3, <3>1, <3>3
        <5> HIDE DEF u
        <5>2. QED BY <2>3, <4>1, <5>1
      <4>2. CASE k # n
        <5>1. k \in 0 .. n - 1 /\ (k # 0 => k - 1 \in 0 .. n - 1)
          BY <3>1, <4>2
        <5>2. t[k] = Step(t, k)
          BY <3>2, <5>1
        <5> HIDE DEF u
        <5>3. QED BY <3>3, <5>1, <5>2
      <4>3. QED BY <4>1, <4>2
    <3>5. u = [k \in 0 .. n |-> u[k]]
      OBVIOUS
    <3>6. Part(u, n)
      <4> HIDE DEF u
      <4> QED BY <3>4, <3>5
    <3>7. QED BY <2>1, <3>6
  <2>4. QED BY <2>2, <2>3
<1>3. QED BY <1>1, <1>2

\* Changing one of the values by d changes the sum by d.
LEMMA SumMoves ==
    ASSUME NEW f \in [Addresses -> Int], NEW g \in [Addresses -> Int], NEW q \in Addresses,
           NEW d \in Int, g[q] = f[q] + d, \A p \in Addresses : p # q => g[p] = f[p]
    PROVE  SumOf(f) \in Int /\ SumOf(g) = SumOf(f) + d
<1> DEFINE t == CHOOSE x : IsSum(x, f)
           u == CHOOSE x : IsSum(x, g)
<1>1. IsSum(t, f) /\ IsSum(u, g)
  BY SumExists
<1>2. SumOf(f) = t[MEMORY_SIZE] /\ SumOf(g) = u[MEMORY_SIZE]
  BY DEF SumOf
<1> HIDE DEF t, u
<1>3. \A k \in 0 .. MEMORY_SIZE : /\ t[k] = IF k = 0 THEN 0 ELSE t[k - 1] + f[k - 1]
                                  /\ u[k] = IF k = 0 THEN 0 ELSE u[k - 1] + g[k - 1]
  BY <1>1 DEF IsSum
<1> DEFINE Good(k) == t[k] \in Int /\ u[k] = t[k] + IF q < k THEN d ELSE 0
           T == {k \in 0 .. MEMORY_SIZE : ~Good(k)}
<1>4. MEMORY_SIZE \in Nat /\ MEMORY_SIZE \in 0 .. MEMORY_SIZE /\ q \in 0 .. MEMORY_SIZE - 1
  BY FirstFitAssumption DEF Addresses
<1>5. ASSUME T # {} PROVE FALSE
  <2>1. PICK k \in T : \A m \in T : k <= m
    <3>1. T \subseteq Nat
      BY <1>4
    <3> HIDE DEF T
    <3>2. QED BY <1>5, <3>1, LeastNatural
  <2>2. k \in 0 .. MEMORY_SIZE /\ ~Good(k)
    BY <2>1
  <2>3. CASE k = 0
    BY <1>3, <1>4, <2>2, <2>3
  <2>4. CASE k # 0
    <3>1. k - 1 \in 0 .. MEMORY_SIZE /\ ~(k <= k - 1) /\ k - 1 \in Addresses
      BY <1>4, <2>2, <2>4 DEF Addresses
    <3>2. Good(k - 1)
      BY <2>1, <3>1
    <3>3. t[k] = t[k - 1] + f[k - 1] /\ u[k] = u[k - 1] + g[k - 1]
      BY <1>3, <2>2, <2>4
    <3>4. f[k - 1] \in Int /\ g[k - 1] = f[k - 1] + IF k - 1 = q THEN d ELSE 0
      BY <3>1
    <3>5. Good(k)
      BY <1>4, <2>2, <3>2, <3>3, <3>4
    <3>6. QED BY <2>2, <3>5
  <2>5. QED BY <2>3, <2>4
<1>6. Good(MEMORY_SIZE)
  BY <1>4, <1>5
<1>7. QED BY <1>2, <1>4, <1>6

\* Nothing handed out adds up to nothing.
LEMMA SumOfNothing ==
    ASSUME NEW h
    PROVE  SumOf(Weight(h, {})) = 0
<1> DEFINE t == CHOOSE x : IsSum(x, Weight(h, {}))
           T == {k \in 0 .. MEMORY_SIZE : t[k] # 0}
<1>1. IsSum(t, Weight(h, {})) /\ SumOf(Weight(h, {})) = t[MEMORY_SIZE]
  BY SumExists DEF SumOf
<1> HIDE DEF t
<1>2. MEMORY_SIZE \in Nat /\ MEMORY_SIZE \in 0 .. MEMORY_SIZE
  BY FirstFitAssumption
<1>3. \A k \in 0 .. MEMORY_SIZE : t[k] = IF k = 0 THEN 0 ELSE t[k - 1] + 0
  <2>1. \A a \in Addresses : Weight(h, {})[a] = 0
    BY DEF Weight
  <2>2. \A k \in 0 .. MEMORY_SIZE : k # 0 => k - 1 \in Addresses
    BY <1>2 DEF Addresses
  <2>3. QED BY <1>1, <2>1, <2>2 DEF IsSum
<1>4. ASSUME T # {} PROVE FALSE
  <2>1. PICK k \in T : \A m \in T : k <= m
    <3>1. T \subseteq Nat
      BY <1>2
    <3> HIDE DEF T
    <3>2. QED BY <1>4, <3>1, LeastNatural
  <2>2. CASE k = 0
    BY <1>2, <1>3, <2>1, <2>2
  <2>3. CASE k # 0
    <3>1. k - 1 \in 0 .. MEMORY_SIZE /\ ~(k <= k - 1)
      BY <1>2, <2>1, <2>3
    <3>2. t[k - 1] = 0
      BY <2>1, <3>1
    <3>3. QED BY <1>3, <2>1, <2>3, <3>2
  <2>4. QED BY <2>2, <2>3
<1>5. QED BY <1>1, <1>2, <1>4

\* Handing out b adds its size and a header to the sum.
LEMMA WeightMoves ==
    ASSUME NEW h \in Heaps, NEW g \in Heaps, NEW U, U \subseteq Addresses,
           NEW b \in Addresses, b \notin U, \A x \in U : g[x].size = h[x].size
    PROVE  /\ SumOf(Weight(h, U)) \in Int
           /\ SumOf(Weight(g, U \cup {b})) = SumOf(Weight(h, U)) + g[b].size + HEADER
<1>0. HEADER \in Nat /\ \A x \in Addresses : g[x].size \in Nat /\ h[x].size \in Nat
  BY FirstFitAssumption DEF Heaps, Headers
<1>1. PICK p \in [Addresses -> Int] : p = Weight(h, U)
  <2>1. PICK V : V = U
    OBVIOUS
  <2>2. \A x \in Addresses : (IF x \in V THEN h[x].size + HEADER ELSE 0) \in Int
    BY <1>0
  <2>3. QED BY <2>1, <2>2 DEF Weight
<1>2. PICK q \in [Addresses -> Int] : q = Weight(g, U \cup {b})
  <2>1. PICK V : V = U \cup {b}
    OBVIOUS
  <2>2. \A x \in Addresses : (IF x \in V THEN g[x].size + HEADER ELSE 0) \in Int
    BY <1>0
  <2>3. QED BY <2>1, <2>2 DEF Weight
<1>3. PICK d \in Int : d = g[b].size + HEADER
  BY <1>0
<1>4. q[b] = p[b] + d
  BY <1>0, <1>1, <1>2, <1>3 DEF Weight
<1>5. \A x \in Addresses : x # b => q[x] = p[x]
  BY <1>1, <1>2 DEF Weight
<1>6. SumOf(p) \in Int /\ SumOf(q) = SumOf(p) + d
  BY <1>4, <1>5, SumMoves
<1>7. QED BY <1>0, <1>1, <1>2, <1>3, <1>6

UsedSumOf(h, U) ==
    LET used == U
        sum[k \in 0 .. MEMORY_SIZE] ==
            IF k = 0 THEN 0
            ELSE sum[k - 1] + IF k - 1 \in used THEN h[k - 1].size + HEADER ELSE 0
    IN  sum[MEMORY_SIZE]

LEMMA UsedIsSum ==
    ASSUME NEW h, NEW U
    PROVE  UsedSumOf(h, U) = SumOf(Weight(h, U))
<1> DEFINE Sum1(t) == t = [k \in 0 .. MEMORY_SIZE |->
                             IF k = 0 THEN 0
                             ELSE t[k - 1] + IF k - 1 \in U THEN h[k - 1].size + HEADER ELSE 0]
<1>1. \A k \in 0 .. MEMORY_SIZE :
         k # 0 => Weight(h, U)[k - 1] = IF k - 1 \in U THEN h[k - 1].size + HEADER ELSE 0
  <2>1. \A k \in 0 .. MEMORY_SIZE : k # 0 => k - 1 \in Addresses
    BY FirstFitAssumption DEF Addresses
  <2>2. QED BY <2>1 DEF Weight
<1>2. ASSUME NEW t PROVE IsSum(t, Weight(h, U)) <=> Sum1(t)
  BY <1>1 DEF IsSum
<1>3. (CHOOSE t : IsSum(t, Weight(h, U))) = (CHOOSE t : Sum1(t))
  BY <1>2
<1>4. QED BY <1>3 DEF UsedSumOf, SumOf

-----------------------------------------------------------------------------
(* The invariant of the allocator *)

Sound(h, B, c, w, H, u) ==
    /\ h \in Heaps /\ Valid(h, B) /\ Tight(h, B, {})
    /\ c \in B \cup {NULL, NoCall} /\ w \in Nat
    /\ H = {b + HEADER : b \in Out(h, B)}
    /\ u = SumOf(Weight(h, Out(h, B)))

HeapInv == free_list = 0 /\ \E B : Sound(headers, B, curr, want, held, used_size)

\* memoryAlloc hands out the block it found, whole or split.
Takes(g, h, c, w) ==
    /\ c \in Addresses /\ ~h[c].is_allocatad /\ h[c].size >= w
    /\ g = IF h[c].size >= w + HEADER + MIN_BLOCK_SIZE THEN SplitOf(h, c, w)
           ELSE [h EXCEPT ![c].is_allocatad = TRUE]

LEMMA TakeSound ==
    ASSUME NEW g, NEW h, NEW B, NEW c, NEW w, NEW H, NEW u,
           Sound(h, B, c, w, H, u), Takes(g, h, c, w)
    PROVE  \E C : Sound(g, C, NoCall, 0, H \cup {c + HEADER}, u + g[c].size + HEADER)
<1>1. /\ h \in Heaps /\ Valid(h, B) /\ Tight(h, B, {}) /\ w \in Nat
      /\ H = {b + HEADER : b \in Out(h, B)} /\ u = SumOf(Weight(h, Out(h, B)))
  BY DEF Sound
<1>2. c \in B /\ c \in Addresses /\ B \subseteq Addresses /\ h[c].size \in Nat
  <2>1. c \in Addresses /\ NULL \notin Addresses /\ NoCall \notin Addresses
    BY DEF Takes, Addresses, NULL, NoCall
  <2>2. c \in B
    BY <2>1 DEF Sound
  <2>3. QED BY <1>1, <2>1, <2>2 DEF Valid, Heaps, Headers
<1>3. ~h[c].is_allocatad /\ h[c].size >= w
  BY DEF Takes
<1>4. PICK C : /\ g \in Heaps /\ Valid(g, C) /\ Tight(g, C, {}) /\ Out(g, C) = Out(h, B) \cup {c}
               /\ \A x \in Out(h, B) : g[x].size = h[x].size
  <2>1. CASE h[c].size >= w + HEADER + MIN_BLOCK_SIZE
    <3>1. PICK rest : rest = c + HEADER + w
      OBVIOUS
    <3>2. g = SplitOf(h, c, w) /\ h[c].size >= w + HEADER
      BY <1>1, <1>2, <2>1, FirstFitAssumption DEF Takes
    <3>3. /\ g \in Heaps /\ Valid(g, B \cup {rest})
          /\ rest \notin B /\ rest \in Addresses
          /\ g[c].size = w /\ g[c].is_allocatad /\ g[c].next = rest
          /\ ~g[rest].is_allocatad /\ g[rest].next = h[c].next
          /\ \A x \in B \ {c} : /\ g[x].size = h[x].size /\ g[x].next = h[x].next
                                /\ g[x].is_allocatad = h[x].is_allocatad
      <4>1. Splits(g, h, B, c, w, rest)
        BY <1>1, <1>2, <3>1, <3>2 DEF Splits
      <4>2. SplitDone(g, h, B, c, w, rest)
        BY <4>1, SplitValid
      <4>3. QED BY <4>2 DEF SplitDone
    <3>4. Tight(g, B \cup {rest}, {})
      <4> SUFFICES ASSUME NEW x \in B \cup {rest}, g[x].next # NULL
                   PROVE  g[x].is_allocatad \/ g[g[x].next].is_allocatad
        BY DEF Tight
      <4>1. \A y \in B : h[y].next # NULL =>
                h[y].next \in B /\ (h[y].is_allocatad \/ h[h[y].next].is_allocatad)
        BY <1>1 DEF Tight, Valid
      <4>2. CASE x = c
        BY <3>3, <4>2
      <4>3. CASE x = rest
        <5>1. h[c].next \in B /\ h[h[c].next].is_allocatad /\ h[c].next # c
          BY <1>2, <1>3, <3>3, <4>1, <4>3
        <5>2. QED BY <3>3, <4>3, <5>1
      <4>4. CASE x \in B \ {c}
        BY <3>3, <4>1, <4>4
      <4>5. QED BY <4>2, <4>3, <4>4
    <3>5. Out(g, B \cup {rest}) = Out(h, B) \cup {c}
      BY <1>2, <3>3 DEF Out
    <3>6. \A x \in Out(h, B) : g[x].size = h[x].size
      BY <1>3, <3>3 DEF Out
    <3>7. QED BY <3>3, <3>4, <3>5, <3>6
  <2>2. CASE ~(h[c].size >= w + HEADER + MIN_BLOCK_SIZE)
    <3>1. PICK v \in BOOLEAN : v = TRUE
      OBVIOUS
    <3>2. Flagged(g, h, B, c, v)
      BY <1>1, <1>2, <2>2, <3>1 DEF Flagged, Takes
    <3>3. /\ g \in Heaps /\ Valid(g, B)
          /\ \A x \in Addresses :
                /\ g[x].size = h[x].size /\ g[x].next = h[x].next /\ g[x].prev = h[x].prev
                /\ x # c => g[x].is_allocatad = h[x].is_allocatad
          /\ g[c].is_allocatad = v
      BY <3>2, FlagValid
    <3>4. Tight(g, B, {})
      <4> SUFFICES ASSUME NEW x \in B, g[x].next # NULL
                   PROVE  g[x].is_allocatad \/ g[g[x].next].is_allocatad
        BY DEF Tight
      <4>1. h[x].next \in B /\ (h[x].is_allocatad \/ h[h[x].next].is_allocatad)
        BY <1>1, <1>2, <3>3 DEF Tight, Valid
      <4>2. QED BY <1>2, <3>1, <3>3, <4>1
    <3>5. Out(g, B) = Out(h, B) \cup {c}
      BY <1>2, <3>1, <3>3 DEF Out
    <3>6. \A x \in Out(h, B) : g[x].size = h[x].size
      BY <1>2, <3>3 DEF Out
    <3>7. QED BY <3>3, <3>4, <3>5, <3>6
  <2>3. QED BY <2>1, <2>2
<1>5. PICK U : U = Out(h, B)
  OBVIOUS
<1>6. U \subseteq Addresses /\ c \notin U
  BY <1>2, <1>3, <1>5 DEF Out
<1>7. SumOf(Weight(g, U \cup {c})) = SumOf(Weight(h, U)) + g[c].size + HEADER
  BY <1>1, <1>2, <1>4, <1>5, <1>6, WeightMoves
<1>8. H \cup {c + HEADER} = {b + HEADER : b \in U \cup {c}}
  BY <1>1, <1>5
<1>9. QED BY <1>1, <1>4, <1>5, <1>7, <1>8 DEF Sound

\* memoryFree takes back what the client holds.
Frees(g, h, H, ptr) ==
    /\ ptr \in H
    /\ g = MergePrev(MergeNext([h EXCEPT ![ptr - HEADER].is_allocatad = FALSE], ptr - HEADER),
                     ptr - HEADER)

LEMMA FreeSound ==
    ASSUME NEW g, NEW h, NEW B, NEW w, NEW H, NEW u, NEW ptr,
           Sound(h, B, NoCall, w, H, u), Frees(g, h, H, ptr)
    PROVE  \E C : Sound(g, C, NoCall, w, H \ {ptr}, u - (h[ptr - HEADER].size + HEADER))
<1>0. HEADER \in Nat
  BY FirstFitAssumption
<1>1. /\ h \in Heaps /\ Valid(h, B) /\ Tight(h, B, {}) /\ w \in Nat
      /\ H = {b + HEADER : b \in Out(h, B)} /\ u = SumOf(Weight(h, Out(h, B)))
  BY DEF Sound
<1>2. PICK b \in Out(h, B) : ptr = b + HEADER
  BY <1>1 DEF Frees
<1>3. b \in B /\ b \in Nat /\ b \in Addresses /\ B \subseteq Addresses /\ h[b].size \in Nat
      /\ Out(h, B) \subseteq Nat
  <2>1. B \subseteq Addresses /\ b \in B /\ Out(h, B) \subseteq B
    BY <1>1 DEF Valid, Out
  <2>2. Addresses \subseteq Nat /\ b \in Addresses
    BY <2>1 DEF Addresses
  <2>3. h[b] \in Headers
    BY <1>1, <2>2 DEF Heaps
  <2>4. h[b].size \in Nat
    BY <2>3 DEF Headers
  <2>5. QED BY <2>1, <2>2, <2>4
<1>4. ptr - HEADER = b
  BY <1>0, <1>2, <1>3
<1>5. PICK q : q = g
  OBVIOUS
<1>6. q = MergePrev(MergeNext([h EXCEPT ![b].is_allocatad = FALSE], b), b)
  BY <1>4, <1>5 DEF Frees
<1>7. PICK C : /\ q \in Heaps /\ Valid(q, C) /\ Tight(q, C, {})
               /\ Out(q, C) = Out(h, B) \ {b}
               /\ \A x \in Out(q, C) : q[x].size = h[x].size
  <2>1. Released(q, h, B, b)
    BY <1>1, <1>3, <1>6 DEF Released
  <2>2. QED BY <2>1, FreeValid
<1>8. PICK U : U = Out(q, C)
  OBVIOUS
<1>9. U \subseteq Addresses /\ b \notin U /\ U \cup {b} = Out(h, B)
      /\ \A x \in U : h[x].size = q[x].size
  BY <1>2, <1>3, <1>7, <1>8 DEF Out
<1>10. /\ SumOf(Weight(q, U)) \in Int
       /\ SumOf(Weight(h, U \cup {b})) = SumOf(Weight(q, U)) + h[b].size + HEADER
  BY <1>1, <1>3, <1>7, <1>9, WeightMoves
<1>11. u - (h[b].size + HEADER) = SumOf(Weight(q, U))
  <2>1. PICK s \in Int : s = SumOf(Weight(q, U))
    BY <1>10
  <2>2. u = s + h[b].size + HEADER
    BY <1>1, <1>9, <1>10, <2>1
  <2>3. QED BY <1>0, <1>3, <2>1, <2>2
<1>12. H \ {ptr} = {x + HEADER : x \in U}
  BY <1>0, <1>1, <1>2, <1>3, <1>7, <1>8
<1>13. Sound(q, C, NoCall, w, H \ {ptr}, u - (h[b].size + HEADER))
  BY <1>1, <1>7, <1>8, <1>11, <1>12 DEF Sound
<1>14. QED BY <1>4, <1>5, <1>13

LEMMA HeapStart == MCInit => HeapInv
<1> SUFFICES ASSUME Init PROVE HeapInv
  BY DEF MCInit
<1>0. MEMORY_SIZE \in Nat /\ HEADER \in Nat /\ HEADER > 0 /\ MEMORY_SIZE >= HEADER
      /\ 0 \in Addresses /\ NULL \notin Nat /\ MEMORY_SIZE - HEADER \in Nat
  BY FirstFitAssumption DEF Addresses, NULL
<1>1. /\ headers = [a \in Addresses |->
                    IF a = 0 THEN [Garbage EXCEPT !.size = MEMORY_SIZE - HEADER] ELSE Garbage]
      /\ free_list = 0 /\ used_size = 0 /\ curr = NoCall /\ want = 0 /\ held = {}
  BY DEF Init, initializeMemoryManager
<1>2. Garbage \in Headers /\ [Garbage EXCEPT !.size = MEMORY_SIZE - HEADER] \in Headers
  BY <1>0 DEF Garbage, Headers, Pointers
<1>3. headers \in Heaps
  BY <1>1, <1>2 DEF Heaps
<1>4. /\ headers[0].size = MEMORY_SIZE - HEADER /\ headers[0].next = NULL
      /\ headers[0].prev = NULL /\ ~headers[0].is_allocatad
  BY <1>0, <1>1 DEF Garbage
<1>5. Behind(headers, 0) = MEMORY_SIZE
  BY <1>0, <1>4 DEF Behind
<1>6. Valid(headers, {0}) /\ Tight(headers, {0}, {}) /\ Out(headers, {0}) = {}
  BY <1>0, <1>4, <1>5 DEF Valid, Tight, Out
<1>7. SumOf(Weight(headers, Out(headers, {0}))) = 0
  BY <1>6, SumOfNothing
<1>8. Sound(headers, {0}, curr, want, held, used_size)
  BY <1>1, <1>3, <1>6, <1>7 DEF Sound
<1>9. QED BY <1>1, <1>8 DEF HeapInv

LEMMA HeapStep == HeapInv /\ [MCNext]_allVars => HeapInv'
<1> SUFFICES ASSUME HeapInv, [Next]_vars PROVE HeapInv'
  BY DEF MCNext, allVars
<1>1. PICK B : Sound(headers, B, curr, want, held, used_size)
  BY DEF HeapInv
<1>2. free_list = 0
  BY DEF HeapInv
<1>3. /\ headers \in Heaps /\ Valid(headers, B) /\ curr \in B \cup {NULL, NoCall} /\ 0 \in B
  BY <1>1 DEF Sound, Valid
<1>4. ASSUME NEW size \in Sizes, AllocCall(size) PROVE HeapInv'
  <2>1. curr' = 0 /\ want' \in Nat /\ UNCHANGED <<headers, free_list, used_size, held>>
    BY <1>2, <1>4, FirstFitAssumption DEF AllocCall
  <2>2. Sound(headers', B, curr', want', held', used_size')
    BY <1>1, <1>3, <2>1 DEF Sound
  <2>3. QED BY <1>2, <2>1, <2>2 DEF HeapInv
<1>5. CASE AllocSkip
  <2>1. /\ curr \in B /\ curr' = headers[curr].next
        /\ UNCHANGED <<headers, free_list, used_size, want, held>>
    BY <1>3, <1>5 DEF AllocSkip, Addresses, NULL, NoCall
  <2>2. curr' \in B \cup {NULL}
    BY <1>3, <2>1 DEF Valid
  <2>3. Sound(headers', B, curr', want', held', used_size')
    BY <1>1, <2>1, <2>2 DEF Sound
  <2>4. QED BY <1>2, <2>1, <2>3 DEF HeapInv
<1>6. CASE AllocTake
  <2>1. PICK g : g = headers'
    OBVIOUS
  <2>2. Takes(g, headers, curr, want)
    BY <1>6, <2>1 DEF AllocTake, Takes, Fits, CanSplit, Split, SplitOf
  <2>3. PICK C : Sound(g, C, NoCall, 0, held \cup {curr + HEADER}, used_size + g[curr].size + HEADER)
    BY <1>1, <2>2, TakeSound
  <2>4. /\ used_size' = used_size + g[curr].size + HEADER /\ held' = held \cup {curr + HEADER}
        /\ curr' = NoCall /\ want' = 0 /\ free_list' = free_list
    BY <1>6, <2>1 DEF AllocTake
  <2>5. Sound(headers', C, curr', want', held', used_size')
    BY <2>1, <2>3, <2>4
  <2>6. QED BY <1>2, <2>4, <2>5 DEF HeapInv
<1>7. CASE AllocFail
  <2>1. curr' = NoCall /\ want' = 0 /\ UNCHANGED <<headers, free_list, used_size, held>>
    BY <1>7 DEF AllocFail
  <2>2. Sound(headers', B, curr', want', held', used_size')
    BY <1>1, <2>1 DEF Sound
  <2>3. QED BY <1>2, <2>1, <2>2 DEF HeapInv
<1>8. ASSUME NEW ptr \in held, memoryFree(ptr) PROVE HeapInv'
  <2>1. PICK g : g = headers'
    OBVIOUS
  <2>2. Frees(g, headers, held, ptr)
    BY <1>8, <2>1 DEF memoryFree, Frees
  <2>3. curr = NoCall /\ used_size' = used_size - (headers[ptr - HEADER].size + HEADER)
        /\ held' = held \ {ptr} /\ UNCHANGED <<free_list, curr, want>>
    BY <1>8 DEF memoryFree
  <2>4. Sound(headers, B, NoCall, want, held, used_size)
    BY <1>1, <2>3
  <2>5. PICK C : Sound(g, C, NoCall, want, held \ {ptr},
                       used_size - (headers[ptr - HEADER].size + HEADER))
    BY <2>2, <2>4, FreeSound
  <2>6. Sound(headers', C, curr', want', held', used_size')
    BY <2>1, <2>3, <2>5
  <2>7. QED BY <1>2, <2>3, <2>6 DEF HeapInv
<1>9. CASE UNCHANGED vars
  <2>1. Sound(headers', B, curr', want', held', used_size') /\ free_list' = 0
    BY <1>1, <1>2, <1>9 DEF vars
  <2>2. QED BY <2>1 DEF HeapInv
<1>10. QED BY <1>4, <1>5, <1>6, <1>7, <1>8, <1>9 DEF Next, memoryAlloc

\* What the invariant says of the list the program follows.
LEMMA HeapInvariant == MCSpec => []HeapInv
BY HeapStart, HeapStep, PTL DEF MCSpec

LEMMA BlocksFound ==
    ASSUME NEW B, Valid(headers, B), headers \in Heaps, free_list = 0
    PROVE  Blocks = B
<1>1. Blocks = BlocksOf(headers)
  BY DEF Blocks, Walk, BlocksOf
<1>2. QED BY <1>1, BlocksAreValid

\* First_Fit_alloc.c, for every memory size, header size and set of requests: after
\* any sequence of memoryAlloc and memoryFree the blocks of the list tile the
\* memory, linked both ways, and no two free blocks are neighbours.
THEOREM ListTilesMemory == MCSpec => []HeapTiled
<1>1. HeapInv => HeapTiled
  <2> SUFFICES ASSUME HeapInv PROVE HeapTiled
    OBVIOUS
  <2>1. PICK B : Sound(headers, B, curr, want, held, used_size)
    BY DEF HeapInv
  <2>2. headers \in Heaps /\ Valid(headers, B) /\ Tight(headers, B, {}) /\ free_list = 0
    BY <2>1 DEF Sound, HeapInv
  <2>3. Blocks = B
    BY <2>2, BlocksFound
  <2>4. QED BY <2>2, <2>3 DEF HeapTiled, Valid, Tight, Behind, End
<1>2. QED BY <1>1, HeapInvariant, PTL

\* The pointers the client holds are exactly the allocated blocks, and used_size
\* is the sum of their sizes, headers included.
THEOREM UsedSizeExact == MCSpec => []HeldExact
<1>1. HeapInv => HeldExact
  <2> SUFFICES ASSUME HeapInv PROVE HeldExact
    OBVIOUS
  <2>1. PICK B : Sound(headers, B, curr, want, held, used_size)
    BY DEF HeapInv
  <2>2. headers \in Heaps /\ Valid(headers, B) /\ free_list = 0
        /\ held = {b + HEADER : b \in Out(headers, B)}
        /\ used_size = SumOf(Weight(headers, Out(headers, B)))
    BY <2>1 DEF Sound, HeapInv
  <2>3. Blocks = B
    BY <2>2, BlocksFound
  <2>4. Used = Out(headers, B)
    BY <2>3 DEF Used, Out
  <2>5. UsedSum = UsedSumOf(headers, Used)
    BY DEF UsedSum, UsedSumOf
  <2>6. QED BY <2>2, <2>4, <2>5, UsedIsSum DEF HeldExact
<1>2. QED BY <1>1, HeapInvariant, PTL

-----------------------------------------------------------------------------
(* Virtual_Memory.c and AddressTranslator.c: pages and frames *)

DemandInv ==
    /\ frame_num \in [Demand!PageNums -> Demand!Frames \cup {Demand!None}]
    /\ frame_status \subseteq Demand!Frames
    /\ Demand!FramesExact

\* A frame that allocateFrame finds is one that no page has.
LEMMA FreeFrame ==
    ASSUME DemandInv, Demand!allocateFrame # Demand!None
    PROVE  Demand!allocateFrame \in Demand!Frames \ frame_status
<1> DEFINE T == Demand!Frames \ frame_status
<1>1. frame_status # Demand!Frames
  BY DEF Demand!allocateFrame
<1>2. T # {} /\ T \subseteq Nat
  <2>1. frame_status \subseteq Demand!Frames
    BY DEF DemandInv
  <2>2. Demand!Frames \subseteq Nat
    BY MemoryAssumption DEF Demand!Frames
  <2>3. QED BY <1>1, <2>1, <2>2
<1> HIDE DEF T
<1>3. \E f \in T : \A g \in T : f <= g
  BY <1>2, LeastNatural
<1>4. Demand!allocateFrame = CHOOSE f \in T : \A g \in T : f <= g
  BY <1>1 DEF Demand!allocateFrame, T
<1>5. Demand!allocateFrame \in T
  BY <1>3, <1>4
<1>6. QED BY <1>5 DEF T

LEMMA DemandStart == Demand!Init => DemandInv
BY DEF Demand!Init, DemandInv, Demand!FramesExact, Demand!PageNums, Demand!Frames, Demand!None

LEMMA DemandStep == DemandInv /\ [Demand!Next]_demandVars => DemandInv'
<1> SUFFICES ASSUME DemandInv, [Demand!Next]_demandVars PROVE DemandInv'
  OBVIOUS
<1>1. CASE UNCHANGED <<frame_num, frame_status>>
  BY <1>1 DEF DemandInv, Demand!FramesExact
<1>2. ASSUME NEW p \in 0 .. NUM_PAGES, Demand!AccessFault(p) PROVE DemandInv'
  <2>1. PICK f : f = Demand!allocateFrame
    OBVIOUS
  <2>2. /\ p < NUM_PAGES /\ frame_num[p] = Demand!None /\ f # Demand!None
        /\ frame_status' = frame_status \cup {f} /\ frame_num' = [frame_num EXCEPT ![p] = f]
    BY <1>2, <2>1 DEF Demand!AccessFault
  <2>3. f \in Demand!Frames \ frame_status
    BY <2>1, <2>2, FreeFrame
  <2>4. p \in Demand!PageNums
    BY <2>2, MemoryAssumption DEF Demand!PageNums
  <2>5. /\ frame_num \in [Demand!PageNums -> Demand!Frames \cup {Demand!None}]
        /\ frame_status \subseteq Demand!Frames
        /\ frame_status = {frame_num[q] : q \in Demand!PageNums} \ {Demand!None}
        /\ \A q, r \in Demand!PageNums :
              frame_num[q] = frame_num[r] => q = r \/ frame_num[q] = Demand!None
    BY DEF DemandInv, Demand!FramesExact
  <2>6. frame_num'[p] = f /\ \A q \in Demand!PageNums : q # p => frame_num'[q] = frame_num[q]
    BY <2>2, <2>4, <2>5
  <2>7. \A q \in Demand!PageNums : frame_num[q] # f
    BY <2>2, <2>3, <2>5
  <2>8. frame_num' \in [Demand!PageNums -> Demand!Frames \cup {Demand!None}]
        /\ frame_status' \subseteq Demand!Frames
    BY <2>2, <2>3, <2>4, <2>5
  <2>9. \A q, r \in Demand!PageNums :
            frame_num'[q] = frame_num'[r] => q = r \/ frame_num'[q] = Demand!None
    BY <2>4, <2>5, <2>6, <2>7
  <2>10. frame_status' = {frame_num'[q] : q \in Demand!PageNums} \ {Demand!None}
    <3>1. ASSUME NEW x \in frame_status'
          PROVE  x # Demand!None /\ \E q \in Demand!PageNums : x = frame_num'[q]
      BY <2>2, <2>4, <2>5, <2>6
    <3>2. ASSUME NEW q \in Demand!PageNums, frame_num'[q] # Demand!None
          PROVE  frame_num'[q] \in frame_status'
      BY <2>2, <2>5, <2>6, <3>2
    <3>3. QED BY <3>1, <3>2
  <2>11. QED BY <2>8, <2>9, <2>10 DEF DemandInv, Demand!FramesExact
<1>3. QED BY <1>1, <1>2 DEF Demand!Next, Demand!accessMemory, Demand!AccessInvalid,
           Demand!AccessValid, Demand!AccessNoFrame, demandVars

MappingInv ==
    /\ address_map \in [Mapping!LogicalPages -> [physical_address : Int, protection : SUBSET Bits]]
    /\ used_physical_memory \in Nat
    /\ Mapping!MappingsDisjoint

LEMMA MappingStart == Mapping!Init => MappingInv
BY MemoryAssumption DEF Mapping!Init, Mapping!initializeAddressTranslator, MappingInv,
   Mapping!MappingsDisjoint, Mapping!Mapped, Mapping!Unmapped, Mapping!LogicalPages

LEMMA MappingStep == MappingInv /\ [Mapping!Next]_mapVars => MappingInv'
<1> SUFFICES ASSUME MappingInv, [Mapping!Next]_mapVars PROVE MappingInv'
  OBVIOUS
<1>1. CASE UNCHANGED <<address_map, used_physical_memory>>
  BY <1>1 DEF MappingInv, Mapping!MappingsDisjoint, Mapping!Mapped
<1>2. ASSUME NEW p \in 0 .. LOGICAL_PAGES, NEW bits \in SUBSET Bits,
             Mapping!CreateMapping(p, bits)
      PROVE  MappingInv'
  <2>1. PICK e : e = [physical_address |-> used_physical_memory, protection |-> bits]
    OBVIOUS
  <2>2. /\ p < LOGICAL_PAGES /\ used_physical_memory + 1 <= PHYSICAL_PAGES
        /\ address_map' = [address_map EXCEPT ![p] = e]
        /\ used_physical_memory' = used_physical_memory + 1
    BY <1>2, <2>1 DEF Mapping!CreateMapping
  <2>3. p \in Mapping!LogicalPages
    BY <2>2, MemoryAssumption DEF Mapping!LogicalPages
  <2>4. /\ address_map \in [Mapping!LogicalPages ->
                              [physical_address : Int, protection : SUBSET Bits]]
        /\ used_physical_memory \in Nat
        /\ \A q \in Mapping!Mapped : address_map[q].physical_address < used_physical_memory
        /\ \A q, r \in Mapping!Mapped :
              address_map[q].physical_address = address_map[r].physical_address => q = r
    BY DEF MappingInv, Mapping!MappingsDisjoint
  <2>5. e \in [physical_address : Int, protection : SUBSET Bits]
        /\ e.physical_address = used_physical_memory
    BY <2>1, <2>4
  <2>6. address_map' \in [Mapping!LogicalPages ->
                            [physical_address : Int, protection : SUBSET Bits]]
    BY <2>2, <2>3, <2>4, <2>5
  <2>7. address_map'[p] = e
        /\ \A q \in Mapping!LogicalPages : q # p => address_map'[q] = address_map[q]
    BY <2>2, <2>3, <2>4
  <2>8. \A q \in Mapping!Mapped' : q # p => q \in Mapping!Mapped /\ address_map'[q] = address_map[q]
    BY <2>7 DEF Mapping!Mapped
  <2>9. \A q \in Mapping!Mapped' :
            /\ address_map'[q].physical_address \in Int
            /\ q # p => address_map'[q].physical_address < used_physical_memory
    BY <2>4, <2>6, <2>8 DEF Mapping!Mapped
  <2>10. \A q \in Mapping!Mapped' : address_map'[q].physical_address < used_physical_memory'
    BY <2>2, <2>4, <2>5, <2>7, <2>9
  <2>11. \A q, r \in Mapping!Mapped' :
            address_map'[q].physical_address = address_map'[r].physical_address => q = r
    BY <2>4, <2>5, <2>7, <2>8, <2>9
  <2>12. QED BY <2>2, <2>4, <2>6, <2>10, <2>11 DEF MappingInv, Mapping!MappingsDisjoint
<1>3. QED BY <1>1, <1>2 DEF Mapping!Next, Mapping!createAddressMapping, Mapping!CreateRefused,
           Mapping!translateAddress, Mapping!TranslateError, Mapping!TranslateOK, Mapping!vars, mapVars

\* Virtual_Memory.c and AddressTranslator.c, for all numbers of pages and frames:
\* no history of faults, or of mappings made anew, lets two pages share a frame.
THEOREM PagesApart == MCSpec => []FramesDisjoint
<1> DEFINE I == (program = "demand" => DemandInv) /\ (program = "map" => MappingInv)
<1>1. MCInit => I
  BY DemandStart, MappingStart DEF MCInit
<1>2. I /\ [MCNext]_allVars => I'
  <2> SUFFICES ASSUME I, [MCNext]_allVars PROVE I'
    OBVIOUS
  <2>1. program' = program
    BY DEF MCNext, allVars
  <2>2. program = "demand" => [Demand!Next]_demandVars
    BY DEF MCNext, allVars
  <2>3. program = "map" => [Mapping!Next]_mapVars
    BY DEF MCNext, allVars
  <2>4. QED BY <2>1, <2>2, <2>3, DemandStep, MappingStep
<1>3. I => FramesDisjoint
  BY DEF FramesDisjoint, DemandInv, MappingInv
<1>4. QED BY <1>1, <1>2, <1>3, PTL DEF MCSpec

-----------------------------------------------------------------------------
(* Translation_mechanism.c and Memory_Hierarchy.c: lookups *)

EntryType == [page_num : Int, frame_num : Int, valid : BOOLEAN, access_time : Nat]

\* What the buffer knows of a page is final: a mapping is never changed.
BufferInv ==
    /\ tlb \in [Buffer!Entries -> EntryType]
    /\ page_table \in [Buffer!TablePages -> Nat \cup {Buffer!Invalid}]
    /\ clock \in Nat
    /\ \A e \in Buffer!Entries : tlb[e].valid =>
          /\ tlb[e].page_num \in Buffer!TablePages
          /\ page_table[tlb[e].page_num] # Buffer!Invalid
    /\ answer.physical # Buffer!Error =>
          page_table[Buffer!page_num(answer.logical)] # Buffer!Invalid
    /\ Buffer!Transparent

LEMMA BufferStart == Buffer!Init => BufferInv
<1> SUFFICES ASSUME Buffer!Init PROVE BufferInv
  OBVIOUS
<1>1. PICK z : z = [page_num |-> 0, frame_num |-> 0, valid |-> FALSE, access_time |-> 0]
  OBVIOUS
<1>2. z \in EntryType /\ ~z.valid
  BY <1>1 DEF EntryType
<1>3. tlb = [e \in Buffer!Entries |-> z] /\ clock = 0
      /\ page_table = [p \in Buffer!TablePages |-> Buffer!Invalid]
      /\ answer.physical = Buffer!Error
  BY <1>1 DEF Buffer!Init, Buffer!initializeAddressTranslator
<1>4. QED BY <1>2, <1>3 DEF BufferInv, Buffer!Transparent

\* The entry that updateTLB replaces is one of the buffer.
LEMMA VictimExists ==
    ASSUME BufferInv
    PROVE  Buffer!lru_idx \in Buffer!Entries
<1> DEFINE Times == {tlb[e].access_time : e \in Buffer!Entries}
<1>0. Buffer!Entries \subseteq Nat /\ 0 \in Buffer!Entries
  BY MemoryAssumption DEF Buffer!Entries
<1>1. \A e \in Buffer!Entries : tlb[e].access_time \in Nat
  BY DEF BufferInv, EntryType
<1>2. PICK least \in Times : \A t \in Times : least <= t
  <2>1. Times \subseteq Nat /\ Times # {}
    BY <1>0, <1>1
  <2> HIDE DEF Times
  <2>2. QED BY <2>1, LeastNatural
<1> DEFINE Oldest == {e \in Buffer!Entries : tlb[e].access_time = least}
<1>3. PICK e \in Oldest : \A d \in Oldest : e <= d
  <2>1. Oldest \subseteq Nat /\ Oldest # {}
    BY <1>0, <1>2
  <2> HIDE DEF Oldest
  <2>2. QED BY <2>1, LeastNatural
<1>4. e \in Buffer!Entries /\ tlb[e].access_time = least
  BY <1>3
<1>5. \A d \in Buffer!Entries : /\ tlb[e].access_time <= tlb[d].access_time
                                /\ d < e => tlb[e].access_time < tlb[d].access_time
  <2> TAKE d \in Buffer!Entries
  <2>1. tlb[d].access_time \in Nat /\ least \in Nat /\ least <= tlb[d].access_time
    BY <1>1, <1>2, <1>4
  <2>2. tlb[d].access_time = least => e <= d
    BY <1>3
  <2>3. d \in Nat /\ e \in Nat
    BY <1>0, <1>4
  <2>4. QED BY <1>4, <2>1, <2>2, <2>3
<1>6. QED BY <1>4, <1>5 DEF Buffer!lru_idx

LEMMA ClockTicks ==
    ASSUME BufferInv, Buffer!Tick
    PROVE  clock' \in Nat
<1>1. PICK m \in Nat : m = 2 ^ CLOCK_BITS /\ m # 0
  BY MemoryAssumption
<1>2. clock' = (clock + 1) % m /\ clock \in Nat
  BY <1>1 DEF Buffer!Tick, BufferInv
<1>3. QED BY <1>1, <1>2

LEMMA BufferStep == BufferInv /\ [Buffer!Next]_tlbVars => BufferInv'
<1> SUFFICES ASSUME BufferInv, [Buffer!Next]_tlbVars PROVE BufferInv'
  OBVIOUS
<1>0. /\ tlb \in [Buffer!Entries -> EntryType]
      /\ page_table \in [Buffer!TablePages -> Nat \cup {Buffer!Invalid}]
      /\ clock \in Nat /\ Buffer!Invalid \notin Nat
      /\ \A e \in Buffer!Entries : tlb[e].valid =>
            /\ tlb[e].page_num \in Buffer!TablePages
            /\ page_table[tlb[e].page_num] # Buffer!Invalid
            /\ tlb[e].frame_num = page_table[tlb[e].page_num]
      /\ \A d, e \in Buffer!Entries :
            tlb[d].valid /\ tlb[e].valid /\ tlb[d].page_num = tlb[e].page_num => d = e
      /\ answer.physical # Buffer!Error =>
            /\ Buffer!page_num(answer.logical) \in Buffer!TablePages
            /\ page_table[Buffer!page_num(answer.logical)] # Buffer!Invalid
            /\ answer.physical =
                  Buffer!Physical(page_table[Buffer!page_num(answer.logical)], answer.logical)
  BY DEF BufferInv, Buffer!Transparent, Buffer!Invalid
<1>1. CASE UNCHANGED tlbVars
  BY <1>0, <1>1 DEF tlbVars, BufferInv, Buffer!Transparent
<1>2. ASSUME NEW p \in Buffer!TablePages, NEW frame \in FrameNums, Buffer!MapPage(p, frame)
      PROVE  BufferInv'
  <2>1. /\ page_table[p] = Buffer!Invalid /\ page_table' = [page_table EXCEPT ![p] = frame]
        /\ UNCHANGED <<tlb, clock, answer>> /\ frame \in Nat
    BY <1>2, MemoryAssumption DEF Buffer!MapPage
  <2>2. \A q \in Buffer!TablePages : page_table[q] # Buffer!Invalid => page_table'[q] = page_table[q]
    BY <1>0, <2>1
  <2>3. page_table' \in [Buffer!TablePages -> Nat \cup {Buffer!Invalid}]
    BY <1>0, <2>1
  <2>4. QED BY <1>0, <2>1, <2>2, <2>3 DEF BufferInv, Buffer!Transparent
<1>3. ASSUME NEW logical \in 0 .. (PAGE_TABLE_SIZE + 1) * 2 ^ OFFSET_BITS - 1,
             Buffer!translateAddress(logical)
      PROVE  BufferInv'
  <2>1. PICK p : p = Buffer!page_num(logical)
    OBVIOUS
  <2>2. p \in Nat
    <3>1. PICK m \in Nat : m = 2 ^ OFFSET_BITS /\ m # 0
      BY MemoryAssumption
    <3>2. logical \in Nat /\ p = logical \div m
      BY <2>1, <3>1, MemoryAssumption DEF Buffer!page_num
    <3>3. QED BY <3>1, <3>2
  <2>3. CASE Buffer!TranslateHit(logical)
    <3> DEFINE hits == Buffer!Hits(p)
    <3>1. PICK e \in hits : /\ tlb' = [tlb EXCEPT ![e].access_time = clock]
                            /\ answer' = [logical |-> logical,
                                          physical |-> Buffer!Physical(tlb[e].frame_num, logical)]
                            /\ page_table' = page_table /\ Buffer!Tick
      <4>1. hits # {} /\ hits \subseteq Nat
        BY <2>1, <2>3, MemoryAssumption DEF Buffer!TranslateHit, Buffer!Hits, Buffer!Entries
      <4> HIDE DEF hits
      <4>2. \E e \in hits : \A d \in hits : e <= d
        BY <4>1, LeastNatural
      <4>3. (CHOOSE e \in hits : \A d \in hits : e <= d) \in hits
        BY <4>2
      <4>4. QED BY <2>1, <2>3, <4>3 DEF Buffer!TranslateHit, Buffer!Return, hits
    <3>2. e \in Buffer!Entries /\ tlb[e].valid /\ tlb[e].page_num = p
      BY <3>1 DEF Buffer!Hits
    <3>3. tlb' \in [Buffer!Entries -> EntryType]
      BY <1>0, <3>1, <3>2 DEF EntryType
    <3>4. \A d \in Buffer!Entries : /\ tlb'[d].valid = tlb[d].valid
                                    /\ tlb'[d].page_num = tlb[d].page_num
                                    /\ tlb'[d].frame_num = tlb[d].frame_num
      BY <1>0, <3>1, <3>2 DEF EntryType
    <3>5. clock' \in Nat
      BY <3>1, ClockTicks
    <3>6. /\ answer'.logical = logical
          /\ answer'.physical = Buffer!Physical(page_table[p], logical)
          /\ p \in Buffer!TablePages /\ page_table[p] # Buffer!Invalid
      BY <1>0, <3>1, <3>2
    <3>7. QED BY <1>0, <2>1, <3>1, <3>3, <3>4, <3>5, <3>6 DEF BufferInv, Buffer!Transparent
  <2>4. CASE Buffer!TranslateError(logical)
    <3>1. answer'.physical = Buffer!Error /\ UNCHANGED <<tlb, clock, page_table>>
      BY <2>4 DEF Buffer!TranslateError, Buffer!Return
    <3>2. QED BY <1>0, <3>1 DEF BufferInv, Buffer!Transparent
  <2>5. CASE Buffer!TranslateMiss(logical)
    <3>1. PICK v : v = Buffer!lru_idx
      OBVIOUS
    <3>2. PICK z : z = [page_num |-> p, frame_num |-> page_table[p], valid |-> TRUE,
                        access_time |-> clock]
      OBVIOUS
    <3>3. /\ Buffer!Hits(p) = {} /\ p < PAGE_TABLE_SIZE /\ page_table[p] # Buffer!Invalid
          /\ tlb' = [tlb EXCEPT ![v] = z] /\ Buffer!Tick
          /\ answer' = [logical |-> logical, physical |-> Buffer!Physical(page_table[p], logical)]
          /\ page_table' = page_table
      BY <2>1, <2>5, <3>1, <3>2 DEF Buffer!TranslateMiss, Buffer!InTable, Buffer!updateTLB,
         Buffer!Return
    <3>4. v \in Buffer!Entries
      BY <3>1, VictimExists
    <3>5. p \in Buffer!TablePages /\ page_table[p] \in Nat
      BY <1>0, <2>2, <3>3, MemoryAssumption DEF Buffer!TablePages
    <3>6. z \in EntryType /\ z.valid /\ z.page_num = p /\ z.frame_num = page_table[p]
      BY <1>0, <2>2, <3>2, <3>5 DEF EntryType
    <3>7. tlb'[v] = z /\ \A d \in Buffer!Entries : d # v => tlb'[d] = tlb[d]
      BY <1>0, <3>3, <3>4
    <3>8. tlb' \in [Buffer!Entries -> EntryType]
      BY <1>0, <3>3, <3>4, <3>6
    <3>9. clock' \in Nat
      BY <3>3, ClockTicks
    <3>10. \A d \in Buffer!Entries : ~(tlb[d].valid /\ tlb[d].page_num = p)
      BY <3>3 DEF Buffer!Hits
    <3>11. \A d, e \in Buffer!Entries :
              tlb'[d].valid /\ tlb'[e].valid /\ tlb'[d].page_num = tlb'[e].page_num => d = e
      BY <1>0, <3>6, <3>7, <3>10
    <3>12. \A e \in Buffer!Entries : tlb'[e].valid =>
              /\ tlb'[e].page_num \in Buffer!TablePages
              /\ page_table[tlb'[e].page_num] # Buffer!Invalid
              /\ tlb'[e].frame_num = page_table[tlb'[e].page_num]
      BY <1>0, <3>3, <3>5, <3>6, <3>7
    <3>13. /\ answer'.logical = logical
           /\ answer'.physical = Buffer!Physical(page_table[p], logical)
      BY <3>3
    <3>14. QED BY <1>0, <2>1, <3>3, <3>5, <3>8, <3>9, <3>11, <3>12, <3>13
               DEF BufferInv, Buffer!Transparent
  <2>6. QED BY <1>3, <2>3, <2>4, <2>5 DEF Buffer!translateAddress
<1>4. QED BY <1>1, <1>2, <1>3 DEF Buffer!Next

Blks == [address : Int, data : Int]

\* A level of n blocks, of which each one in use holds the data of its address.
Level(f, n) == f \in [0 .. n - 1 -> Blks] /\ Hierarchy!Holds(f)

HierarchyInv ==
    /\ Level(l1_cache, CACHE_L1_SIZE)
    /\ Level(l2_cache, CACHE_L2_SIZE)
    /\ Level(main_memory, MAIN_MEMORY_SIZE)

LEMMA EmptyLevel ==
    ASSUME NEW n
    PROVE  Level([x \in 0 .. n - 1 |-> Hierarchy!NotValid], n)
BY DEF Level, Blks, Hierarchy!Holds, Hierarchy!NotValid

\* A block may be put anywhere, also outside the level, if its data is right.
LEMMA FillLevel ==
    ASSUME NEW f, NEW n, Level(f, n), NEW x, NEW c \in Blks, c.data = c.address,
           NEW g, g = [f EXCEPT ![x] = c]
    PROVE  Level(g, n)
<1>1. f \in [0 .. n - 1 -> Blks] /\ Hierarchy!Holds(f)
  BY DEF Level
<1>2. PICK D : D = 0 .. n - 1
  OBVIOUS
<1>3. f \in [D -> Blks] /\ \A y \in D : f[y] # Hierarchy!NotValid => f[y].data = f[y].address
  BY <1>1, <1>2 DEF Hierarchy!Holds
<1>4. g \in [D -> Blks]
  BY <1>3
<1>5. \A y \in D : g[y] = IF y = x THEN c ELSE f[y]
  BY <1>3
<1>6. \A y \in D : g[y] # Hierarchy!NotValid => g[y].data = g[y].address
  BY <1>3, <1>5
<1>7. QED BY <1>2, <1>4, <1>6 DEF Level, Hierarchy!Holds

\* A lookup that finds its address in a level finds that address's data.
LEMMA HitHolds ==
    ASSUME NEW f, NEW n, n \in Nat \ {0}, Level(f, n), NEW a \in Nat, f[a % n].address = a
    PROVE  Hierarchy!Copy(a, f[a % n]) = [address |-> a, data |-> a]
<1>1. PICK x : x = a % n
  OBVIOUS
<1>2. x \in 0 .. n - 1
  BY <1>1
<1>3. f[x] # Hierarchy!NotValid
  <2>1. Hierarchy!NotValid.address = -1
    BY DEF Hierarchy!NotValid
  <2>2. QED BY <1>1, <2>1
<1>4. f[x].data = a
  BY <1>1, <1>2, <1>3 DEF Level, Hierarchy!Holds
<1>5. QED BY <1>1, <1>4 DEF Hierarchy!Copy

LEMMA HierarchyStep == HierarchyInv /\ [Hierarchy!Next]_hierarchyVars => HierarchyInv'
<1> SUFFICES ASSUME HierarchyInv, [Hierarchy!Next]_hierarchyVars PROVE HierarchyInv'
  OBVIOUS
<1>0. /\ CACHE_L1_SIZE \in Nat \ {0} /\ CACHE_L2_SIZE \in Nat \ {0}
      /\ MAIN_MEMORY_SIZE \in Nat \ {0} /\ VIRTUAL_MEMORY_SIZE \in Nat
  BY MemoryAssumption
<1>a. /\ Level(l1_cache, CACHE_L1_SIZE) /\ Level(l2_cache, CACHE_L2_SIZE)
      /\ Level(main_memory, MAIN_MEMORY_SIZE)
  BY DEF HierarchyInv
<1>1. CASE UNCHANGED hierarchyVars
  BY <1>a, <1>1 DEF HierarchyInv, hierarchyVars
<1>2. ASSUME NEW a \in 0 .. VIRTUAL_MEMORY_SIZE - 1, Hierarchy!accessMemory(a)
      PROVE  HierarchyInv'
  <2>1. a \in Nat /\ a % VIRTUAL_MEMORY_SIZE = a
    BY <1>0
  <2>2. PICK c \in Blks : c = [address |-> a, data |-> a] /\ c.data = c.address
    <3>1. PICK c : c = [address |-> a, data |-> a]
      OBVIOUS
    <3>2. c \in Blks
      BY <2>1, <3>1 DEF Blks
    <3>3. c.data = c.address
      BY <3>1
    <3>4. QED BY <3>1, <3>2, <3>3
  <2>3. CASE Hierarchy!L1Hit(a)
    BY <1>a, <2>3 DEF Hierarchy!L1Hit, Hierarchy!vars, HierarchyInv
  <2>4. CASE Hierarchy!L2Hit(a)
    <3>1. l2_cache[a % CACHE_L2_SIZE].address = a
      BY <2>4 DEF Hierarchy!L2Hit, Hierarchy!InL2, Hierarchy!l2_idx
    <3>2. Hierarchy!Copy(a, l2_cache[a % CACHE_L2_SIZE]) = c
      BY <1>0, <1>a, <2>1, <2>2, <3>1, HitHolds
    <3>3. PICK x : l1_cache' = [l1_cache EXCEPT ![x] = c]
      BY <2>4, <3>2 DEF Hierarchy!L2Hit, Hierarchy!l2_idx
    <3>4. Level(l1_cache', CACHE_L1_SIZE)
      BY <1>a, <2>2, <3>3, FillLevel
    <3>5. QED BY <1>a, <2>4, <3>4 DEF Hierarchy!L2Hit, HierarchyInv
  <2>5. CASE Hierarchy!MainHit(a)
    <3>1. main_memory[a % MAIN_MEMORY_SIZE].address = a
      BY <2>5 DEF Hierarchy!MainHit, Hierarchy!InMain, Hierarchy!mm_idx
    <3>2. Hierarchy!Copy(a, main_memory[a % MAIN_MEMORY_SIZE]) = c
      BY <1>0, <1>a, <2>1, <2>2, <3>1, HitHolds
    <3>3. PICK x : /\ l1_cache' = [l1_cache EXCEPT ![x] = c]
                   /\ l2_cache' = [l2_cache EXCEPT ![x] = c]
      BY <2>5, <3>2 DEF Hierarchy!MainHit, Hierarchy!mm_idx
    <3>4. Level(l1_cache', CACHE_L1_SIZE) /\ Level(l2_cache', CACHE_L2_SIZE)
      BY <1>a, <2>2, <3>3, FillLevel
    <3>5. QED BY <1>a, <2>5, <3>4 DEF Hierarchy!MainHit, HierarchyInv
  <2>6. CASE Hierarchy!PageFault(a)
    <3>1. PICK x, y, z : /\ l1_cache' = [l1_cache EXCEPT ![x] = c]
                         /\ l2_cache' = [l2_cache EXCEPT ![y] = c]
                         /\ main_memory' = [main_memory EXCEPT ![z] = c]
      BY <2>1, <2>2, <2>6 DEF Hierarchy!PageFault
    <3>2. Level(l1_cache', CACHE_L1_SIZE)
      BY <1>a, <2>2, <3>1, FillLevel
    <3>3. Level(l2_cache', CACHE_L2_SIZE)
      BY <1>a, <2>2, <3>1, FillLevel
    <3>4. Level(main_memory', MAIN_MEMORY_SIZE)
      BY <1>a, <2>2, <3>1, FillLevel
    <3>5. QED BY <3>2, <3>3, <3>4 DEF HierarchyInv
  <2>7. QED BY <1>2, <2>3, <2>4, <2>5, <2>6 DEF Hierarchy!accessMemory
<1>3. QED BY <1>1, <1>2 DEF Hierarchy!Next

\* Translation_mechanism.c and Memory_Hierarchy.c, for all sizes of the buffer, the
\* caches and the clock: whatever was evicted, and whatever the wrapped clock makes
\* of the order of use, a lookup answers as the level behind it would.
THEOREM LookupsTransparent == MCSpec => []LookupsExact
<1> DEFINE I == (program = "tlb" => BufferInv) /\ (program = "hierarchy" => HierarchyInv)
<1>1. MCInit => I
  <2>1. Hierarchy!Init => HierarchyInv
    BY EmptyLevel DEF Hierarchy!Init, Hierarchy!initializeMemory, HierarchyInv
  <2>2. QED BY <2>1, BufferStart DEF MCInit
<1>2. I /\ [MCNext]_allVars => I'
  <2> SUFFICES ASSUME I, [MCNext]_allVars PROVE I'
    OBVIOUS
  <2>1. program' = program
    BY DEF MCNext, allVars
  <2>2. program = "tlb" => [Buffer!Next]_tlbVars
    BY DEF MCNext, allVars
  <2>3. program = "hierarchy" => [Hierarchy!Next]_hierarchyVars
    BY DEF MCNext, allVars
  <2>4. QED BY <2>1, <2>2, <2>3, BufferStep, HierarchyStep
<1>3. I => LookupsExact
  BY DEF LookupsExact, BufferInv, HierarchyInv, Level, Hierarchy!Coherent
<1>4. QED BY <1>1, <1>2, <1>3, PTL DEF MCSpec

-----------------------------------------------------------------------------
(* memory_segmentation.c *)

Descriptors == [base_address : Nat, limit : Nat]

\* Where first fit puts a segment of that many bytes.  The memory does not change.
FirstPlace(size) == CHOOSE a \in Segment!Places(size) : \A b \in Segment!Places(size) : a <= b

InFirstPlace(t, s) ==
    Segment!Places(t[s].limit) # {} /\ t[s].base_address = FirstPlace(t[s].limit)

\* A placed segment is in the first place for its size, so that placing it again
\* changes nothing; an entry copied from a placed segment equals it.
SegmentInv ==
    /\ table \in Seq(Descriptors) /\ target_size \in Int
    /\ placed \subseteq 1 .. Len(table)
    /\ \A s \in placed : InFirstPlace(table, s)
    /\ DOMAIN sources = DOMAIN target
    /\ \A k \in DOMAIN target : sources[k] \in 1 .. Len(table)
    /\ \A k \in DOMAIN target \ early : sources[k] \in placed /\ target[k] = table[sources[k]]

LEMMA FirstPlaceLeast ==
    ASSUME NEW size \in Nat, Segment!Places(size) # {}
    PROVE  /\ FirstPlace(size) \in Segment!Places(size) /\ FirstPlace(size) \in Nat
           /\ \A b \in Segment!Places(size) : FirstPlace(size) <= b
<1> DEFINE places == Segment!Places(size)
<1>1. places \subseteq Nat /\ places # {}
  <2>1. SEGMENT_MEMORY \in Nat
    BY MemoryAssumption
  <2>2. QED BY <2>1 DEF Segment!Places
<1>2. FirstPlace(size) = CHOOSE a \in places : \A b \in places : a <= b
  BY DEF FirstPlace
<1> HIDE DEF places
<1>3. \E a \in places : \A b \in places : a <= b
  BY <1>1, LeastNatural
<1>4. FirstPlace(size) \in places /\ \A b \in places : FirstPlace(size) <= b
  BY <1>2, <1>3
<1>5. QED BY <1>1, <1>4 DEF places

LEMMA SegmentStart == Segment!Init => SegmentInv
BY DEF Segment!Init, Segment!initSegmentTable, SegmentInv

LEMMA SegmentStep == SegmentInv /\ [Segment!Next]_segmentVars => SegmentInv'
<1> SUFFICES ASSUME SegmentInv, [Segment!Next]_segmentVars PROVE SegmentInv'
  OBVIOUS
<1>0. /\ table \in Seq(Descriptors) /\ target_size \in Int
      /\ placed \subseteq 1 .. Len(table)
      /\ \A s \in placed : InFirstPlace(table, s)
      /\ DOMAIN sources = DOMAIN target
      /\ \A k \in DOMAIN target : sources[k] \in 1 .. Len(table)
      /\ \A k \in DOMAIN target \ early : sources[k] \in placed /\ target[k] = table[sources[k]]
  BY DEF SegmentInv
<1>m. memory' = memory
  BY DEF Segment!Next, Segment!createSegment, Segment!allocateSegment, Segment!shareSegment,
         Segment!ShareInside, Segment!ShareBehind, segmentVars
<1>p. \A size : Segment!Places(size)' = Segment!Places(size)
  BY <1>m DEF Segment!Places, Segment!space_available
<1>f. \A size : FirstPlace(size)' = FirstPlace(size)
  BY <1>p DEF FirstPlace
<1>i. ASSUME NEW s, table'[s] = table[s], InFirstPlace(table, s) PROVE InFirstPlace(table, s)'
  BY <1>p, <1>f, <1>i DEF InFirstPlace
<1>1. CASE UNCHANGED segmentVars
  <2>1. UNCHANGED <<table, target, target_size, placed, sources, early>>
    BY <1>1 DEF segmentVars
  <2>2. \A s \in placed' : InFirstPlace(table, s)'
    BY <1>0, <1>i, <2>1
  <2>3. QED BY <1>0, <2>1, <2>2 DEF SegmentInv
<1>2. ASSUME NEW size \in Limits, Segment!createSegment(size) PROVE SegmentInv'
  <2>1. PICK d : d = [base_address |-> 0, limit |-> size]
    OBVIOUS
  <2>2. table' = Append(table, d) /\ UNCHANGED <<target, target_size, placed, sources, early>>
    BY <1>2, <2>1 DEF Segment!createSegment
  <2>3. d \in Descriptors
    <3>1. size \in Nat
      BY MemoryAssumption
    <3>2. QED BY <2>1, <3>1 DEF Descriptors
  <2>4. table' \in Seq(Descriptors) /\ Len(table') = Len(table) + 1 /\ Len(table) \in Nat
    BY <1>0, <2>2, <2>3
  <2>5. \A s \in 1 .. Len(table) : table'[s] = table[s]
    BY <1>0, <2>2, <2>3
  <2>6. 1 .. Len(table) \subseteq 1 .. Len(table')
    BY <2>4
  <2>7. \A s \in placed' : InFirstPlace(table, s)'
    BY <1>0, <1>i, <2>2, <2>5
  <2>8. \A k \in DOMAIN target' \ early' : sources'[k] \in placed' /\ target'[k] = table'[sources'[k]]
    BY <1>0, <2>2, <2>5
  <2>9. \A k \in DOMAIN target' : sources'[k] \in 1 .. Len(table')
    BY <1>0, <2>2, <2>6
  <2>10. placed' \subseteq 1 .. Len(table')
    BY <1>0, <2>2, <2>6
  <2>11. QED BY <1>0, <2>2, <2>4, <2>7, <2>8, <2>9, <2>10 DEF SegmentInv
<1>3. ASSUME NEW s \in DOMAIN table, Segment!allocateSegment(s) PROVE SegmentInv'
  <2>a. s \in 1 .. Len(table) /\ table[s] \in Descriptors
    BY <1>0
  <2>1. s \in 1 .. Len(table) /\ table[s] \in Descriptors /\ table[s].limit \in Nat
    BY <2>a DEF Descriptors
  <2>2. PICK size \in Nat : size = table[s].limit
    BY <2>1
  <2>3. PICK a : a = FirstPlace(size)
    OBVIOUS
  <2>4. /\ Segment!Places(size) # {}
        /\ table' = [table EXCEPT ![s].base_address = a]
        /\ placed' = placed \cup {s}
        /\ UNCHANGED <<target, target_size, sources, early>>
    BY <1>3, <2>2, <2>3 DEF Segment!allocateSegment, FirstPlace
  <2>5. a \in Nat
    BY <2>2, <2>3, <2>4, FirstPlaceLeast
  <2>6. PICK d : d = [table[s] EXCEPT !.base_address = a]
    OBVIOUS
  <2>7. d \in Descriptors /\ d.base_address = a /\ d.limit = size
    BY <2>1, <2>2, <2>5, <2>6 DEF Descriptors
  <2>8. table' = [table EXCEPT ![s] = d]
    BY <2>4, <2>6
  <2>9. /\ table' \in Seq(Descriptors) /\ Len(table') = Len(table) /\ table'[s] = d
        /\ \A u \in 1 .. Len(table) : u # s => table'[u] = table[u]
    BY <1>0, <2>1, <2>7, <2>8
  <2>10. s \in placed => d = table[s]
    <3>1. s \in placed => a = table[s].base_address
      BY <1>0, <2>2, <2>3 DEF InFirstPlace
    <3>2. QED BY <2>1, <2>6, <3>1 DEF Descriptors
  <2>11. \A u \in placed : table'[u] = table[u]
    BY <1>0, <2>9, <2>10
  <2>12. InFirstPlace(table, s)'
    BY <1>p, <1>f, <2>3, <2>4, <2>7, <2>9 DEF InFirstPlace
  <2>13. \A u \in placed' : InFirstPlace(table, u)'
    BY <1>0, <1>i, <2>4, <2>11, <2>12
  <2>14. \A k \in DOMAIN target' \ early' : sources'[k] \in placed' /\ target'[k] = table'[sources'[k]]
    BY <1>0, <2>4, <2>11
  <2>15. placed' \subseteq 1 .. Len(table')
    BY <1>0, <2>1, <2>4, <2>9
  <2>16. QED BY <1>0, <2>4, <2>9, <2>13, <2>14, <2>15 DEF SegmentInv
<1>4. ASSUME NEW s \in DOMAIN table, Segment!ShareInside(s) PROVE SegmentInv'
  <2>1. s \in 1 .. Len(table)
    BY <1>0
  <2>2. PICK new_seg : new_seg = target_size + 1
    OBVIOUS
  <2>3. /\ UNCHANGED <<table, placed>> /\ target_size' = target_size + 1
        /\ target' = Segment!Copied(target, new_seg, table[s])
        /\ sources' = Segment!Copied(sources, new_seg, s)
        /\ early' = IF s \in placed THEN early \ {new_seg} ELSE early \cup {new_seg}
    BY <1>4, <2>2 DEF Segment!ShareInside
  <2>4. /\ DOMAIN target' = DOMAIN target \cup {new_seg}
        /\ DOMAIN sources' = DOMAIN target'
        /\ \A k \in DOMAIN target' :
              /\ k = new_seg => target'[k] = table[s] /\ sources'[k] = s
              /\ k # new_seg => target'[k] = target[k] /\ sources'[k] = sources[k]
    BY <1>0, <2>3 DEF Segment!Copied
  <2>5. \A k \in DOMAIN target' \ early' : sources'[k] \in placed' /\ target'[k] = table'[sources'[k]]
    <3> TAKE k \in DOMAIN target' \ early'
    <3>1. CASE k = new_seg
      <4>1. s \in placed
        BY <2>3, <3>1
      <4>2. QED BY <2>3, <2>4, <3>1, <4>1
    <3>2. CASE k # new_seg
      <4>1. k \in DOMAIN target \ early
        BY <2>3, <2>4, <3>2
      <4>2. QED BY <1>0, <2>3, <2>4, <3>2, <4>1
    <3>3. QED BY <3>1, <3>2
  <2>6. \A u \in placed' : InFirstPlace(table, u)'
    BY <1>0, <1>i, <2>3
  <2>7. \A k \in DOMAIN target' : sources'[k] \in 1 .. Len(table')
    BY <1>0, <2>1, <2>3, <2>4
  <2>8. target_size' \in Int
    BY <1>0, <2>3
  <2>9. QED BY <1>0, <2>3, <2>4, <2>5, <2>6, <2>7, <2>8 DEF SegmentInv
<1>5. ASSUME NEW s \in DOMAIN table, Segment!ShareBehind(s) PROVE SegmentInv'
  <2>1. /\ UNCHANGED <<table, target, placed, sources, early>>
        /\ target_size' \in {MAX_SEGMENTS + 1, table[s].base_address}
    BY <1>5 DEF Segment!ShareBehind
  <2>2. table[s] \in Descriptors
    BY <1>0
  <2>3. target_size' \in Int
    <3>1. MAX_SEGMENTS \in Nat
      BY MemoryAssumption
    <3>2. QED BY <2>1, <2>2, <3>1 DEF Descriptors
  <2>4. \A u \in placed' : InFirstPlace(table, u)'
    BY <1>0, <1>i, <2>1
  <2>5. QED BY <1>0, <2>1, <2>3, <2>4 DEF SegmentInv
<1>6. QED BY <1>1, <1>2, <1>3, <1>4, <1>5 DEF Segment!Next, Segment!shareSegment

\* memory_segmentation.c, for all sizes of the table and the memory: each segment that
\* allocateSegment places, in a row or not, gets free bytes of the memory and the
\* lowest stretch of them that is long enough; an entry that shareSegment copied from a
\* placed segment translates as the original, even after it wrote behind a full table.
THEOREM SegmentsPlaced == MCSpec => []SegmentsKept
<1> DEFINE I == program = "segment" => SegmentInv
<1>1. MCInit => I
  BY SegmentStart DEF MCInit
<1>2. I /\ [MCNext]_allVars => I'
  <2> SUFFICES ASSUME I, [MCNext]_allVars PROVE I'
    OBVIOUS
  <2>1. program' = program /\ (program = "segment" => [Segment!Next]_segmentVars)
    BY DEF MCNext, allVars
  <2>2. QED BY <2>1, SegmentStep
<1>3. I => SegmentsKept
  <2> SUFFICES ASSUME SegmentInv PROVE Segment!SegmentsKept
    BY DEF SegmentsKept
  <2>0. SEGMENT_MEMORY \in Nat /\ MAX_SEGMENTS \in Nat
    BY MemoryAssumption
  <2>1. /\ table \in Seq(Descriptors) /\ target_size \in Int
        /\ placed \subseteq 1 .. Len(table)
        /\ \A s \in placed : InFirstPlace(table, s)
        /\ \A k \in DOMAIN target : sources[k] \in 1 .. Len(table)
        /\ \A k \in DOMAIN target \ early : target[k] = table[sources[k]]
    BY DEF SegmentInv
  <2>2. ASSUME NEW s \in placed
        PROVE  /\ Segment!Extent(s) \subseteq Segment!Free
               /\ \A a \in 0 .. table[s].base_address - 1 :
                     ~ a .. a + table[s].limit - 1 \subseteq Segment!Free
    <3>1. table[s] \in Descriptors
      BY <2>1
    <3>2. PICK size \in Nat : size = table[s].limit
      BY <3>1 DEF Descriptors
    <3>3. PICK first \in Nat : first = table[s].base_address
      BY <3>1 DEF Descriptors
    <3>4. /\ first \in Segment!Places(size)
          /\ \A b \in Segment!Places(size) : first <= b
      BY <2>1, <3>2, <3>3, FirstPlaceLeast DEF InFirstPlace
    <3>5. first + size <= SEGMENT_MEMORY /\ \A j \in 0 .. size - 1 : first + j \notin memory
      BY <3>4 DEF Segment!Places, Segment!space_available
    <3>6. ASSUME NEW x \in first .. first + size - 1 PROVE x \in Segment!Free
      <4>1. x - first \in 0 .. size - 1 /\ first + (x - first) = x
        OBVIOUS
      <4>2. x \in 0 .. SEGMENT_MEMORY - 1
        BY <2>0, <3>5
      <4>3. QED BY <3>5, <4>1, <4>2 DEF Segment!Free
    <3>7. ASSUME NEW a \in 0 .. first - 1, a .. a + size - 1 \subseteq Segment!Free PROVE FALSE
      <4>1. a \in 0 .. SEGMENT_MEMORY /\ a + size <= SEGMENT_MEMORY
        BY <2>0, <3>5
      <4>2. \A j \in 0 .. size - 1 : a + j \notin memory
        <5> TAKE j \in 0 .. size - 1
        <5>1. a + j \in a .. a + size - 1
          OBVIOUS
        <5>2. QED BY <3>7, <5>1 DEF Segment!Free
      <4>3. a \in Segment!Places(size)
        BY <4>1, <4>2 DEF Segment!Places, Segment!space_available
      <4>4. QED BY <3>4, <4>3
    <3>8. QED BY <3>2, <3>3, <3>6, <3>7 DEF Segment!Extent
  <2>3. ASSUME Len(table) < MAX_SEGMENTS, target_size < MAX_SEGMENTS,
               NEW k \in DOMAIN target \ early, NEW offset \in 0 .. SEGMENT_MEMORY
        PROVE  Segment!translateAddress(target, target_size, k, offset) =
                   Segment!translateAddress(table, Len(table), sources[k], offset)
    <3>1. Len(table) \in Nat /\ DOMAIN table = 1 .. Len(table)
      BY <2>1
    <3>2. ~(Len(table) >= MAX_SEGMENTS) /\ ~(target_size >= MAX_SEGMENTS)
      BY <2>0, <2>1, <2>3, <3>1
    <3>3. k \in DOMAIN target /\ sources[k] \in DOMAIN table /\ target[k] = table[sources[k]]
      BY <2>1, <2>3, <3>1
    <3>4. QED BY <3>2, <3>3 DEF Segment!translateAddress
  <2>4. QED BY <2>2, <2>3 DEF Segment!SegmentsKept, Segment!FirstFree, Segment!SharedAlike
<1>4. QED BY <1>1, <1>2, <1>3, PTL DEF MCSpec

-----------------------------------------------------------------------------
(* page_replacement_algo.c *)

\* PageReplacement counts with its own instance of FiniteSets.
LEMMA SameCardinality == \A S : Replacement!Cardinality(S) = Cardinality(S)
BY DEF Replacement!Cardinality, Cardinality

LEMMA PartSize ==
    ASSUME NEW S, IsFiniteSet(S), NEW N
    PROVE  /\ IsFiniteSet(S \cap N)
           /\ Cardinality(S) \in Nat /\ Cardinality(S \cap N) \in Nat
           /\ Cardinality(S \cap N) <= Cardinality(S)
<1>1. S \cap N \in SUBSET S
  OBVIOUS
<1>2. QED BY <1>1, FS_Subset, FS_CardinalityType

\* The pages referenced from turn k to turn m.
Window(P, k, m) == {P[j] : j \in k .. m}

\* A cache R with fr faults becomes S with fs faults when x is referenced; which
\* pages go is free.
Serves(R, fr, S, fs, x, c) ==
    /\ IsFiniteSet(R) /\ IsFiniteSet(S) /\ Cardinality(S) <= c
    /\ fr \in Nat /\ fs \in Nat
    /\ x \in S
    /\ x \in R => S = R /\ fs = fr
    /\ x \notin R => S \subseteq R \cup {x} /\ fs = fr + 1

\* The same under optimal replacement: if the page that goes is used again before
\* turn m, so are all the others.
ServesBest(P, k, C, fc, D, fd, c) ==
    /\ IsFiniteSet(C) /\ IsFiniteSet(D) /\ fc \in Nat /\ fd \in Nat
    /\ P[k] \in D
    /\ P[k] \in C => D = C /\ fd = fc
    /\ P[k] \notin C =>
          /\ fd = fc + 1
          /\ \/ D = C \cup {P[k]}
             \/ \E v \in C : /\ D = (C \ {v}) \cup {P[k]}
                             /\ Cardinality(C) = c
                             /\ \A m \in k .. REFERENCES :
                                   v \in Window(P, k, m) => C \subseteq Window(P, k, m)

\* What the optimal cache C lacks of the pages that come next, the other cache R
\* has paid for in faults.
Ahead(P, k, R, fr, C, fc) ==
    \A m \in k - 1 .. REFERENCES :
        fc + Cardinality(R \cap Window(P, k, m)) <= fr + Cardinality(C \cap Window(P, k, m))

LEMMA WindowOpens ==
    ASSUME NEW P, NEW k \in Nat, NEW m \in Nat, k <= m
    PROVE  Window(P, k, m) = Window(P, k + 1, m) \cup {P[k]}
<1>1. k .. m = (k + 1 .. m) \cup {k}
  OBVIOUS
<1>2. QED BY <1>1 DEF Window

LEMMA WindowEmpty ==
    ASSUME NEW P, NEW k \in Nat
    PROVE  Window(P, k, k - 1) = {}
<1>1. k .. k - 1 = {}
  OBVIOUS
<1>2. QED BY <1>1 DEF Window

\* Whatever goes, the other cache gains no more of the window than it pays for.
LEMMA RivalPays ==
    ASSUME NEW R, NEW fr, NEW S, NEW fs, NEW x, NEW c, Serves(R, fr, S, fs, x, c), NEW N
    PROVE  Cardinality(S \cap N) + fr <= Cardinality(R \cap N) + fs
<1>1. /\ IsFiniteSet(R) /\ IsFiniteSet(S) /\ fr \in Nat /\ fs \in Nat
  BY DEF Serves
<1>2. /\ IsFiniteSet(R \cap N) /\ Cardinality(R \cap N) \in Nat /\ Cardinality(S \cap N) \in Nat
  BY <1>1, PartSize
<1>3. CASE x \in R
  BY <1>1, <1>2, <1>3 DEF Serves
<1>4. CASE x \notin R
  <2>1. S \subseteq R \cup {x} /\ fs = fr + 1
    BY <1>4 DEF Serves
  <2>2. PICK U : U = (R \cap N) \cup {x}
    OBVIOUS
  <2>3. IsFiniteSet(U) /\ Cardinality(U) <= Cardinality(R \cap N) + 1 /\ Cardinality(U) \in Nat
    <3>1. PICK V : V = R \cap N
      OBVIOUS
    <3>2. IsFiniteSet(V) /\ Cardinality(V) \in Nat
      BY <1>2, <3>1
    <3>3. /\ IsFiniteSet(V \cup {x})
          /\ Cardinality(V \cup {x}) = IF x \in V THEN Cardinality(V) ELSE Cardinality(V) + 1
      BY <3>2, FS_AddElement
    <3>4. QED BY <2>2, <3>1, <3>2, <3>3
  <2>4. S \cap N \in SUBSET U
    BY <2>1, <2>2
  <2>5. Cardinality(S \cap N) <= Cardinality(U)
    BY <2>3, <2>4, FS_Subset
  <2>6. QED BY <1>1, <1>2, <2>1, <2>3, <2>5
<1>5. QED BY <1>3, <1>4

Opens(N, M, x) == N = M \cup {x}

\* The page just referenced is in both caches, so it makes no difference.
LEMMA SharedPage ==
    ASSUME NEW S, IsFiniteSet(S), NEW D, IsFiniteSet(D), NEW x \in S \cap D,
           NEW M, NEW N, Opens(N, M, x)
    PROVE  Cardinality(S \cap M) + Cardinality(D \cap N)
              = Cardinality(S \cap N) + Cardinality(D \cap M)
<1>0. N = M \cup {x}
  BY DEF Opens
<1>1. CASE x \in M
  <2>1. M = N
    BY <1>0, <1>1
  <2>2. Cardinality(S \cap N) \in Nat /\ Cardinality(D \cap N) \in Nat
    BY PartSize
  <2>3. QED BY <2>1, <2>2
<1>2. CASE x \notin M
  <2>1. ASSUME NEW T, IsFiniteSet(T), x \in T
        PROVE  /\ Cardinality(T \cap N) \in Nat /\ Cardinality(T \cap M) \in Nat
               /\ Cardinality(T \cap N) = Cardinality(T \cap M) + 1
    <3>1. IsFiniteSet(T \cap M) /\ Cardinality(T \cap M) \in Nat /\ Cardinality(T \cap N) \in Nat
      BY <2>1, PartSize
    <3>2. T \cap N = (T \cap M) \cup {x} /\ x \notin T \cap M
      BY <1>0, <1>2, <2>1
    <3>3. Cardinality((T \cap M) \cup {x}) = Cardinality(T \cap M) + 1
      BY <3>1, <3>2, FS_AddElement
    <3>4. QED BY <3>1, <3>2, <3>3
  <2>2. QED BY <2>1
<1>3. QED BY <1>1, <1>2

\* The exchange argument, one turn.
LEMMA Exchange ==
    ASSUME NEW P, NEW k \in 1 .. REFERENCES, NEW c \in Nat,
           NEW R, NEW fr, NEW S, NEW fs, Serves(R, fr, S, fs, P[k], c),
           NEW C, NEW fc, NEW D, NEW fd, ServesBest(P, k, C, fc, D, fd, c),
           Ahead(P, k, R, fr, C, fc)
    PROVE  Ahead(P, k + 1, S, fs, D, fd)
<1>0. /\ IsFiniteSet(R) /\ IsFiniteSet(S) /\ IsFiniteSet(C) /\ IsFiniteSet(D)
      /\ fr \in Nat /\ fs \in Nat /\ fc \in Nat /\ fd \in Nat
      /\ P[k] \in S \cap D /\ REFERENCES \in Nat /\ k \in Nat
      /\ Cardinality(S) <= c
  BY MemoryAssumption DEF Serves, ServesBest
<1>1. (k + 1) - 1 = k
  BY <1>0
<1> SUFFICES ASSUME NEW m \in k .. REFERENCES
             PROVE  fd + Cardinality(S \cap Window(P, k + 1, m))
                       <= fs + Cardinality(D \cap Window(P, k + 1, m))
  BY <1>1 DEF Ahead
<1>2. m \in Nat /\ k <= m /\ m \in k - 1 .. REFERENCES
  BY <1>0
<1>3. PICK N : N = Window(P, k, m)
  OBVIOUS
<1>4. PICK M : M = Window(P, k + 1, m)
  OBVIOUS
<1>5. N = M \cup {P[k]}
  BY <1>0, <1>2, <1>3, <1>4, WindowOpens
<1>6. /\ Cardinality(R \cap N) \in Nat /\ Cardinality(S \cap N) \in Nat
      /\ Cardinality(C \cap N) \in Nat /\ Cardinality(D \cap N) \in Nat
      /\ Cardinality(S \cap M) \in Nat /\ Cardinality(D \cap M) \in Nat
      /\ Cardinality(S \cap N) <= Cardinality(S) /\ Cardinality(S) \in Nat
  BY <1>0, PartSize
<1>7. fc + Cardinality(R \cap N) <= fr + Cardinality(C \cap N)
  BY <1>2, <1>3 DEF Ahead
<1>8. Cardinality(S \cap N) + fr <= Cardinality(R \cap N) + fs
  BY RivalPays
<1>9. Cardinality(S \cap M) + Cardinality(D \cap N) = Cardinality(S \cap N) + Cardinality(D \cap M)
  <2>1. PICK x : x = P[k]
    OBVIOUS
  <2>2. x \in S \cap D /\ Opens(N, M, x)
    BY <1>0, <1>5, <2>1 DEF Opens
  <2>3. QED BY <1>0, <2>2, SharedPage
<1>10. fd + Cardinality(S \cap N) <= fs + Cardinality(D \cap N)
  <2>1. CASE P[k] \in C
    BY <1>0, <1>6, <1>7, <1>8, <2>1 DEF ServesBest
  <2>2. ASSUME P[k] \notin C, Cardinality(D \cap N) = Cardinality(C \cap N) + 1
        PROVE  fd + Cardinality(S \cap N) <= fs + Cardinality(D \cap N)
    <3>1. fd = fc + 1
      BY <2>2 DEF ServesBest
    <3>2. QED BY <1>0, <1>6, <1>7, <1>8, <2>2, <3>1
  <2>3. CASE P[k] \notin C /\ D = C \cup {P[k]}
    <3>1. D \cap N = (C \cap N) \cup {P[k]} /\ P[k] \notin C \cap N /\ IsFiniteSet(C \cap N)
      BY <1>0, <1>5, <2>3, PartSize
    <3>2. Cardinality((C \cap N) \cup {P[k]}) = Cardinality(C \cap N) + 1
      BY <3>1, FS_AddElement
    <3>3. QED BY <2>2, <2>3, <3>1, <3>2
  <2>4. CASE P[k] \notin C /\ D # C \cup {P[k]}
    <3>1. PICK v \in C : /\ D = (C \ {v}) \cup {P[k]}
                         /\ Cardinality(C) = c
                         /\ \A l \in k .. REFERENCES :
                               v \in Window(P, k, l) => C \subseteq Window(P, k, l)
      BY <2>4 DEF ServesBest
    <3>2. CASE v \notin N
      <4>1. D \cap N = (C \cap N) \cup {P[k]} /\ P[k] \notin C \cap N /\ IsFiniteSet(C \cap N)
        BY <1>0, <1>5, <2>4, <3>1, <3>2, PartSize
      <4>2. Cardinality((C \cap N) \cup {P[k]}) = Cardinality(C \cap N) + 1
        BY <4>1, FS_AddElement
      <4>3. QED BY <2>2, <2>4, <4>1, <4>2
    <3>3. CASE v \in N
      <4>1. C \subseteq N
        BY <1>3, <3>1, <3>3
      <4>2. D \cap N = (C \ {v}) \cup {P[k]} /\ P[k] \notin C \ {v}
        BY <1>5, <2>4, <3>1, <4>1
      <4>3. IsFiniteSet(C \ {v}) /\ Cardinality(C \ {v}) = c - 1
        BY <1>0, <3>1, FS_RemoveElement
      <4>4. Cardinality((C \ {v}) \cup {P[k]}) = Cardinality(C \ {v}) + 1
        BY <4>2, <4>3, FS_AddElement
      <4>5. Cardinality(D \cap N) = c
        BY <4>2, <4>3, <4>4
      <4>6. fc + 1 <= fs
        <5>1. CASE P[k] \notin R
          <6>1. fs = fr + 1
            BY <5>1 DEF Serves
          <6>2. k - 1 \in k - 1 .. REFERENCES /\ Window(P, k, k - 1) = {}
            BY <1>0, WindowEmpty
          <6>3. fc + Cardinality(R \cap {}) <= fr + Cardinality(C \cap {})
            BY <6>2 DEF Ahead
          <6>4. R \cap {} = {} /\ C \cap {} = {} /\ Cardinality({}) = 0
            BY FS_EmptySet
          <6>5. fc + 0 <= fr + 0
            BY <6>3, <6>4
          <6>6. QED BY <1>0, <6>1, <6>5
        <5>2. CASE P[k] \in R
          <6>1. fs = fr
            BY <5>2 DEF Serves
          <6>2. k \in k - 1 .. REFERENCES /\ k .. k = {k}
            BY <1>0
          <6>3. Window(P, k, k) = {P[k]}
            BY <6>2 DEF Window
          <6>4. fc + Cardinality(R \cap {P[k]}) <= fr + Cardinality(C \cap {P[k]})
            BY <6>2, <6>3 DEF Ahead
          <6>5. R \cap {P[k]} = {P[k]} /\ C \cap {P[k]} = {}
            BY <2>4, <5>2
          <6>6. Cardinality({P[k]}) = 1 /\ Cardinality({}) = 0
            BY FS_EmptySet, FS_Singleton
          <6>7. fc + 1 <= fr + 0
            BY <6>4, <6>5, <6>6
          <6>8. QED BY <1>0, <6>1, <6>7
        <5>3. QED BY <5>1, <5>2
      <4>7. fd = fc + 1
        BY <2>4 DEF ServesBest
      <4>8. QED BY <1>0, <1>6, <4>5, <4>6, <4>7
    <3>4. QED BY <3>2, <3>3
  <2>5. QED BY <2>1, <2>3, <2>4
<1>11. QED BY <1>0, <1>4, <1>6, <1>9, <1>10

\* The frames in use hold different pages.
Img(f) == {f[j] : j \in 1 .. Len(f)}
Distinct(f) ==
    /\ f \in Seq(Int)
    /\ \A j, k \in 1 .. Len(f) : f[j] = f[k] => j = k
    /\ IsFiniteSet(Img(f)) /\ Cardinality(Img(f)) = Len(f)

LEMMA DistinctEmpty == Distinct(<<>>) /\ Img(<<>>) = {}
<1>1. Img(<<>>) = {}
  BY DEF Img
<1>2. QED BY <1>1, FS_EmptySet DEF Distinct

LEMMA DistinctAppend ==
    ASSUME NEW f, Distinct(f), NEW x \in Int, x \notin Img(f)
    PROVE  /\ Distinct(Append(f, x)) /\ Len(Append(f, x)) = Len(f) + 1
           /\ Img(Append(f, x)) = Img(f) \cup {x}
<1>1. PICK len \in Nat : len = Len(f)
  BY DEF Distinct
<1>2. PICK g : g = Append(f, x)
  OBVIOUS
<1>3. /\ g \in Seq(Int) /\ Len(g) = len + 1 /\ g[len + 1] = x
      /\ \A j \in 1 .. len : g[j] = f[j]
  BY <1>1, <1>2 DEF Distinct
<1>4. 1 .. len + 1 = (1 .. len) \cup {len + 1}
  BY <1>1
<1>5. Img(g) = Img(f) \cup {x}
  BY <1>1, <1>3, <1>4 DEF Img
<1>6. ASSUME NEW j \in 1 .. len + 1, NEW k \in 1 .. len + 1, g[j] = g[k] PROVE j = k
  <2>1. \A l \in 1 .. len : g[l] = f[l] /\ f[l] # x /\ g[l] # g[len + 1]
    BY <1>1, <1>3 DEF Img
  <2>2. CASE j \in 1 .. len /\ k \in 1 .. len
    BY <1>1, <1>6, <2>1, <2>2 DEF Distinct
  <2>3. QED BY <1>4, <1>6, <2>1, <2>2
<1>7. PICK V : V = Img(f)
  OBVIOUS
<1>8. IsFiniteSet(V) /\ Cardinality(V) = len /\ x \notin V
  BY <1>1, <1>7 DEF Distinct
<1>9. IsFiniteSet(V \cup {x}) /\ Cardinality(V \cup {x}) = len + 1
  BY <1>8, FS_AddElement
<1>10. QED BY <1>1, <1>2, <1>3, <1>5, <1>6, <1>7, <1>9 DEF Distinct

LEMMA DistinctPut ==
    ASSUME NEW f, Distinct(f), NEW x \in Int, x \notin Img(f), NEW p \in 1 .. Len(f)
    PROVE  /\ Distinct([f EXCEPT ![p] = x]) /\ Len([f EXCEPT ![p] = x]) = Len(f)
           /\ f[p] \in Img(f) /\ Img([f EXCEPT ![p] = x]) = (Img(f) \ {f[p]}) \cup {x}
<1>1. PICK len \in Nat : len = Len(f)
  BY DEF Distinct
<1>2. PICK g : g = [f EXCEPT ![p] = x]
  OBVIOUS
<1>3. /\ g \in Seq(Int) /\ Len(g) = len /\ p \in 1 .. len /\ g[p] = x
      /\ \A j \in 1 .. len : j # p => g[j] = f[j]
  BY <1>1, <1>2 DEF Distinct
<1>4. \A j \in 1 .. len : f[j] \in Img(f) /\ f[j] # x /\ (j # p => f[j] # f[p])
  BY <1>1, <1>3 DEF Distinct, Img
<1>5. Img(g) = (Img(f) \ {f[p]}) \cup {x}
  <2>1. \A y : y \in Img(g) <=> \E j \in 1 .. len : y = g[j]
    BY <1>3 DEF Img
  <2>2. \A y : y \in Img(f) <=> \E j \in 1 .. len : y = f[j]
    BY <1>1 DEF Img
  <2>3. ASSUME NEW y \in Img(g) PROVE y \in (Img(f) \ {f[p]}) \cup {x}
    BY <1>3, <1>4, <2>1, <2>3
  <2>4. ASSUME NEW y \in (Img(f) \ {f[p]}) \cup {x} PROVE y \in Img(g)
    BY <1>3, <2>1, <2>2, <2>4
  <2>5. QED BY <2>3, <2>4
<1>6. ASSUME NEW j \in 1 .. len, NEW k \in 1 .. len, g[j] = g[k] PROVE j = k
  BY <1>1, <1>3, <1>4, <1>6 DEF Distinct
<1>7. PICK V : V = Img(f)
  OBVIOUS
<1>8. PICK W : W = V \ {f[p]}
  OBVIOUS
<1>9. IsFiniteSet(W) /\ Cardinality(W) = len - 1 /\ x \notin W
  <2>1. IsFiniteSet(V) /\ Cardinality(V) = len /\ f[p] \in V /\ x \notin V
    BY <1>1, <1>3, <1>4, <1>7 DEF Distinct
  <2>2. QED BY <1>8, <2>1, FS_RemoveElement
<1>10. IsFiniteSet(W \cup {x}) /\ Cardinality(W \cup {x}) = len
  <2>1. IsFiniteSet(W \cup {x}) /\ Cardinality(W \cup {x}) = Cardinality(W) + 1
    BY <1>9, FS_AddElement
  <2>2. QED BY <1>1, <1>9, <2>1
<1>11. QED BY <1>1, <1>2, <1>3, <1>4, <1>5, <1>6, <1>7, <1>8, <1>10 DEF Distinct

PagingInv ==
    /\ pages \in [1 .. REFERENCES -> Int] /\ capacity \in Nat \ {0}
    /\ algo \in 1 .. 4 /\ i \in 1 .. REFERENCES + 1
    /\ page_faults \in [1 .. 3 -> Nat]
    /\ Distinct(frames) /\ Len(frames) <= capacity
    /\ head \in 0 .. capacity - 1
    /\ algo = 2 => last_used \in Seq(Nat) /\ Len(last_used) = Len(frames)
    /\ IsFiniteSet(rival.frames) /\ Cardinality(rival.frames) <= capacity /\ rival.faults \in Nat

\* One turn of any of the three functions: the page is there, goes into a free frame
\* or into frame p.
Hits == pages[i] \in Img(frames) /\ frames' = frames /\ page_faults' = page_faults
Faults ==
    /\ pages[i] \notin Img(frames)
    /\ page_faults' = [page_faults EXCEPT ![algo] = @ + 1]
Fills == Faults /\ Len(frames) < capacity /\ frames' = Append(frames, pages[i])
Puts(p) ==
    /\ Faults /\ Len(frames) = capacity /\ p \in 1 .. Len(frames)
    /\ frames' = [frames EXCEPT ![p] = pages[i]]
Serving ==
    /\ algo \in 1 .. 3 /\ i \in 1 .. REFERENCES
    /\ i' = i + 1 /\ UNCHANGED <<pages, capacity, algo>>
    /\ Hits \/ Fills \/ \E p : Puts(p)

\* The first frame of least last_used is one of the frames.
LEMMA LeastUsed ==
    ASSUME PagingInv, algo = 2, Len(frames) = capacity
    PROVE  /\ Replacement!lru_idx \in 1 .. capacity
           /\ \A k \in 1 .. capacity : last_used[Replacement!lru_idx] <= last_used[k]
<1>1. /\ capacity \in Nat \ {0} /\ last_used \in Seq(Nat) /\ Len(last_used) = capacity
      /\ \A k \in 1 .. capacity : last_used[k] \in Nat
  BY DEF PagingInv
<1>2. PICK T : T = {last_used[k] : k \in 1 .. capacity}
  OBVIOUS
<1>3. T \subseteq Nat /\ T # {}
  BY <1>1, <1>2
<1>4. PICK x \in T : \A y \in T : x <= y
  BY <1>3, LeastNatural
<1>5. PICK J : J = {k \in 1 .. capacity : last_used[k] = x}
  OBVIOUS
<1>6. J \subseteq Nat /\ J # {}
  BY <1>1, <1>2, <1>4, <1>5
<1>7. PICK j \in J : \A k \in J : j <= k
  BY <1>6, LeastNatural
<1>8. j \in 1 .. capacity /\ last_used[j] = x
  BY <1>5, <1>7
<1>9. ASSUME NEW k \in 1 .. capacity
      PROVE  last_used[j] <= last_used[k] /\ (k < j => last_used[j] < last_used[k])
  <2>1. last_used[j] <= last_used[k]
    BY <1>2, <1>4, <1>8
  <2>2. k < j => k \notin J
    BY <1>1, <1>7, <1>8
  <2>3. k < j => last_used[k] # x
    BY <1>5, <2>2
  <2>4. QED BY <1>1, <1>8, <2>1, <2>3
<1>10. PICK l : l = Replacement!lru_idx
  OBVIOUS
<1>11. l \in 1 .. capacity /\ \A k \in 1 .. capacity : last_used[l] <= last_used[k]
  BY <1>8, <1>9, <1>10 DEF Replacement!lru_idx
<1>12. QED BY <1>10, <1>11

LEMMA NextUseLeast ==
    ASSUME PagingInv, NEW f, Replacement!Uses(f) # {}
    PROVE  /\ Replacement!NextUse(f) \in Replacement!Uses(f)
           /\ \A k \in Replacement!Uses(f) : Replacement!NextUse(f) <= k
<1>0. REFERENCES \in Nat
  BY MemoryAssumption
<1>1. Replacement!Uses(f) \subseteq Nat
  BY <1>0 DEF Replacement!Uses, PagingInv
<1>2. \E j \in Replacement!Uses(f) : \A k \in Replacement!Uses(f) : j <= k
  BY <1>1, LeastNatural
<1>3. QED BY <1>2 DEF Replacement!NextUse

\* findFarthest finds a frame; if its page is used again before turn m, so are
\* the pages of all frames.
LEMMA FarthestFound ==
    ASSUME PagingInv, algo = 3, i \in 1 .. REFERENCES, Len(frames) = capacity,
           pages[i] \notin Img(frames)
    PROVE  /\ Replacement!findFarthest \in 1 .. capacity
           /\ \A m \in i .. REFERENCES :
                 frames[Replacement!findFarthest] \in Window(pages, i, m)
                    => Img(frames) \subseteq Window(pages, i, m)
<1>0. /\ capacity \in Nat \ {0} /\ REFERENCES \in Nat /\ i \in Nat
      /\ \A k \in 1 .. capacity : frames[k] \in Img(frames) /\ frames[k] # pages[i]
  BY MemoryAssumption DEF PagingInv, Img
<1>1. PICK U : U = {j \in 1 .. capacity : Replacement!Uses(frames[j]) = {}}
  OBVIOUS
<1>2. PICK far : far = Replacement!findFarthest
  OBVIOUS
<1>3. far = IF U # {} THEN CHOOSE j \in U : \A k \in U : j <= k
            ELSE CHOOSE j \in 1 .. capacity :
                    \A k \in 1 .. capacity :
                        Replacement!NextUse(frames[j]) >= Replacement!NextUse(frames[k])
  BY <1>1, <1>2 DEF Replacement!findFarthest
<1>4. ASSUME NEW j \in 1 .. capacity, NEW m \in i .. REFERENCES,
             frames[j] \in Window(pages, i, m)
      PROVE  \E k \in Replacement!Uses(frames[j]) : k <= m
  <2>1. PICK k \in i .. m : pages[k] = frames[j]
    BY <1>4 DEF Window
  <2>2. k # i
    BY <1>0, <2>1
  <2>3. k \in i + 1 .. REFERENCES /\ k <= m
    BY <1>0, <2>1, <2>2
  <2>4. QED BY <2>1, <2>3 DEF Replacement!Uses
<1>5. CASE U # {}
  <2>1. U \subseteq Nat
    BY <1>0, <1>1
  <2>2. \E j \in U : \A k \in U : j <= k
    BY <1>5, <2>1, LeastNatural
  <2>3. far \in U
    BY <1>3, <1>5, <2>2
  <2>4. far \in 1 .. capacity /\ Replacement!Uses(frames[far]) = {}
    BY <1>1, <2>3
  <2>5. QED BY <1>2, <1>4, <2>4
<1>6. CASE U = {}
  <2>1. \A k \in 1 .. capacity :
           /\ Replacement!NextUse(frames[k]) \in Replacement!Uses(frames[k])
           /\ \A l \in Replacement!Uses(frames[k]) : Replacement!NextUse(frames[k]) <= l
    BY <1>1, <1>6, NextUseLeast
  <2>2. PICK next : next = [k \in 1 .. capacity |-> Replacement!NextUse(frames[k])]
    OBVIOUS
  <2>3. \A k \in 1 .. capacity :
           /\ next[k] = Replacement!NextUse(frames[k])
           /\ next[k] \in i + 1 .. REFERENCES /\ pages[next[k]] = frames[k]
    BY <2>1, <2>2 DEF Replacement!Uses
  <2>4. PICK T : T = {REFERENCES - next[k] : k \in 1 .. capacity}
    OBVIOUS
  <2>5. T \subseteq Nat /\ T # {}
    BY <1>0, <2>3, <2>4
  <2>6. PICK x \in T : \A y \in T : x <= y
    BY <2>5, LeastNatural
  <2>7. PICK j \in 1 .. capacity : x = REFERENCES - next[j]
    BY <2>4, <2>6
  <2>8. \A k \in 1 .. capacity : next[j] >= next[k]
    <3> TAKE k \in 1 .. capacity
    <3>1. REFERENCES - next[j] <= REFERENCES - next[k]
      BY <2>4, <2>6, <2>7
    <3>2. QED BY <1>0, <2>3, <3>1
  <2>9. /\ far \in 1 .. capacity
        /\ \A k \in 1 .. capacity :
              Replacement!NextUse(frames[far]) >= Replacement!NextUse(frames[k])
    BY <1>3, <1>6, <2>3, <2>8
  <2>10. ASSUME NEW m \in i .. REFERENCES, frames[far] \in Window(pages, i, m)
         PROVE  Img(frames) \subseteq Window(pages, i, m)
    <3>1. PICK l \in Replacement!Uses(frames[far]) : l <= m
      BY <1>4, <2>9, <2>10
    <3>2. next[far] <= l /\ l \in i + 1 .. REFERENCES
      BY <2>1, <2>3, <2>9, <3>1 DEF Replacement!Uses
    <3>3. ASSUME NEW k \in 1 .. capacity PROVE frames[k] \in Window(pages, i, m)
      <4>1. next[k] <= next[far]
        BY <1>0, <2>3, <2>9
      <4>2. next[k] \in i .. m
        BY <1>0, <2>3, <2>9, <3>1, <3>2, <4>1
      <4>3. QED BY <2>3, <4>2 DEF Window
    <3>4. QED BY <3>3 DEF Img
  <2>11. QED BY <1>2, <2>9, <2>10
<1>7. QED BY <1>5, <1>6

PutAt(p) == frames' = [frames EXCEPT ![p] = Replacement!page]

\* Every step is such a turn, or main goes on to the next function.
LEMMA ServingStep ==
    ASSUME PagingInv, Replacement!Next
    PROVE  Serving \/ Replacement!NextAlgorithm
<1>0. /\ capacity \in Nat \ {0} /\ REFERENCES \in Nat /\ i \in 1 .. REFERENCES + 1
      /\ Distinct(frames) /\ Len(frames) <= capacity /\ Len(frames) \in Nat
      /\ head \in 0 .. capacity - 1
  BY MemoryAssumption DEF PagingInv, Distinct
<1>1. Replacement!isPagePresent <=> pages[i] \in Img(frames)
  BY DEF Replacement!isPagePresent, Replacement!page, Img
<1>2. ~Replacement!Free => Len(frames) = capacity
  BY <1>0 DEF Replacement!Free
<1>3. ASSUME Replacement!Turn(FALSE), Replacement!isPagePresent, frames' = frames,
             algo \in 1 .. 3, i <= REFERENCES
      PROVE  Serving
  BY <1>0, <1>1, <1>3 DEF Replacement!Turn, Serving, Hits
<1>4. ASSUME Replacement!Turn(TRUE), ~Replacement!isPagePresent, Replacement!Free,
             frames' = Append(frames, Replacement!page), algo \in 1 .. 3, i <= REFERENCES
      PROVE  Serving
  BY <1>0, <1>1, <1>4 DEF Replacement!Turn, Replacement!Free, Replacement!page, Serving, Fills, Faults
<1>5. ASSUME Replacement!Turn(TRUE), ~Replacement!isPagePresent, ~Replacement!Free,
             NEW p \in 1 .. capacity, PutAt(p), algo \in 1 .. 3, i <= REFERENCES
      PROVE  Serving
  <2>1. Puts(p)
    BY <1>0, <1>1, <1>2, <1>5 DEF Replacement!Turn, Replacement!page, PutAt, Puts, Faults
  <2>2. QED BY <1>0, <1>5, <2>1 DEF Replacement!Turn, Serving
<1>6. CASE Replacement!FIFOPageReplacement
  <2>1. algo \in 1 .. 3 /\ i <= REFERENCES
    BY <1>6 DEF Replacement!FIFOPageReplacement
  <2>2. CASE Replacement!FIFOHit
    BY <1>3, <2>1, <2>2 DEF Replacement!FIFOHit
  <2>3. CASE Replacement!FIFOFill
    BY <1>4, <2>1, <2>3 DEF Replacement!FIFOFill
  <2>4. CASE Replacement!FIFOReplace
    <3>1. PICK p : p = head + 1
      OBVIOUS
    <3>2. p \in 1 .. capacity
      BY <1>0, <3>1
    <3>3. PutAt(p) /\ Replacement!Turn(TRUE) /\ ~Replacement!isPagePresent /\ ~Replacement!Free
      BY <2>4, <3>1 DEF Replacement!FIFOReplace, PutAt
    <3>4. QED BY <1>5, <2>1, <3>2, <3>3
  <2>5. QED BY <1>6, <2>2, <2>3, <2>4 DEF Replacement!FIFOPageReplacement
<1>7. CASE Replacement!LRUPageReplacement
  <2>1. algo = 2 /\ i <= REFERENCES
    BY <1>7 DEF Replacement!LRUPageReplacement
  <2>2. CASE Replacement!LRUHit
    BY <1>3, <2>1, <2>2 DEF Replacement!LRUHit, Replacement!SelectInSeq
  <2>3. CASE Replacement!LRUFill
    BY <1>4, <2>1, <2>3 DEF Replacement!LRUFill
  <2>4. CASE Replacement!LRUReplace
    <3>1. Replacement!lru_idx \in 1 .. capacity
      BY <1>2, <2>1, <2>4, LeastUsed DEF Replacement!LRUReplace
    <3>2. PICK p : p = Replacement!lru_idx
      OBVIOUS
    <3>3. PutAt(p) /\ Replacement!Turn(TRUE) /\ ~Replacement!isPagePresent /\ ~Replacement!Free
      BY <2>4, <3>2 DEF Replacement!LRUReplace, PutAt
    <3>4. p \in 1 .. capacity /\ algo \in 1 .. 3 /\ i <= REFERENCES
      BY <1>0, <2>1, <3>1, <3>2
    <3>5. QED BY <1>5, <3>3, <3>4
  <2>5. QED BY <1>7, <2>2, <2>3, <2>4 DEF Replacement!LRUPageReplacement
<1>8. CASE Replacement!optimalPageReplacement
  <2>1. algo = 3 /\ i \in 1 .. REFERENCES
    BY <1>0, <1>8 DEF Replacement!optimalPageReplacement
  <2>2. CASE Replacement!optimalHit
    BY <1>3, <2>1, <2>2 DEF Replacement!optimalHit
  <2>3. CASE Replacement!optimalFill
    BY <1>4, <2>1, <2>3 DEF Replacement!optimalFill
  <2>4. CASE Replacement!optimalReplace
    <3>1. Replacement!findFarthest \in 1 .. capacity
      BY <1>1, <1>2, <2>1, <2>4, FarthestFound DEF Replacement!optimalReplace
    <3>2. PICK p : p = Replacement!findFarthest
      OBVIOUS
    <3>3. PutAt(p) /\ Replacement!Turn(TRUE) /\ ~Replacement!isPagePresent /\ ~Replacement!Free
      BY <2>4, <3>2 DEF Replacement!optimalReplace, PutAt
    <3>4. p \in 1 .. capacity /\ algo \in 1 .. 3 /\ i <= REFERENCES
      BY <1>0, <2>1, <3>1, <3>2
    <3>5. QED BY <1>5, <3>3, <3>4
  <2>5. QED BY <1>8, <2>2, <2>3, <2>4 DEF Replacement!optimalPageReplacement
<1>9. QED BY <1>6, <1>7, <1>8 DEF Replacement!Next

LEMMA PagesServed ==
    ASSUME PagingInv, Serving
    PROVE  /\ Distinct(frames') /\ Len(frames') <= capacity
           /\ Serves(Img(frames), page_faults[algo], Img(frames'), page_faults'[algo],
                     pages[i], capacity)
           /\ page_faults' \in [1 .. 3 -> Nat]
           /\ \A a \in 1 .. 3 : a # algo => page_faults'[a] = page_faults[a]
<1>0. /\ capacity \in Nat \ {0} /\ algo \in 1 .. 3 /\ pages[i] \in Int
      /\ page_faults \in [1 .. 3 -> Nat] /\ page_faults[algo] \in Nat
      /\ Distinct(frames) /\ Len(frames) <= capacity /\ Len(frames) \in Nat
      /\ IsFiniteSet(Img(frames)) /\ Cardinality(Img(frames)) = Len(frames)
  BY DEF PagingInv, Serving, Distinct
<1>1. CASE Hits
  BY <1>0, <1>1 DEF Hits, Serves
<1>2. PICK x : x = pages[i]
  OBVIOUS
<1>3. ASSUME Faults
      PROVE  /\ x \notin Img(frames) /\ page_faults'[algo] = page_faults[algo] + 1
             /\ page_faults' \in [1 .. 3 -> Nat]
             /\ \A a \in 1 .. 3 : a # algo => page_faults'[a] = page_faults[a]
  BY <1>0, <1>2, <1>3 DEF Faults
<1>4. CASE Fills
  <2>1. frames' = Append(frames, x) /\ Len(frames) < capacity /\ Faults
    BY <1>2, <1>4 DEF Fills
  <2>2. /\ Distinct(frames') /\ Len(frames') = Len(frames) + 1
        /\ Img(frames') = Img(frames) \cup {x}
    BY <1>0, <1>2, <1>3, <2>1, DistinctAppend
  <2>3. Len(frames') <= capacity
    BY <1>0, <2>1, <2>2
  <2>4. IsFiniteSet(Img(frames')) /\ Cardinality(Img(frames')) <= capacity
    BY <2>2, <2>3 DEF Distinct
  <2>5. page_faults'[algo] \in Nat
    BY <1>0, <1>3, <2>1
  <2>6. Serves(Img(frames), page_faults[algo], Img(frames'), page_faults'[algo], x, capacity)
    BY <1>0, <1>3, <2>1, <2>2, <2>4, <2>5 DEF Serves
  <2>7. QED BY <1>2, <1>3, <2>1, <2>2, <2>3, <2>6
<1>5. ASSUME NEW p, Puts(p)
      PROVE  /\ Distinct(frames') /\ Len(frames') <= capacity
             /\ Serves(Img(frames), page_faults[algo], Img(frames'), page_faults'[algo],
                       x, capacity)
  <2>1. frames' = [frames EXCEPT ![p] = x] /\ p \in 1 .. Len(frames) /\ Faults
    BY <1>2, <1>5 DEF Puts
  <2>2. /\ Distinct(frames') /\ Len(frames') = Len(frames)
        /\ Img(frames') = (Img(frames) \ {frames[p]}) \cup {x}
    BY <1>0, <1>2, <1>3, <2>1, DistinctPut
  <2>3. IsFiniteSet(Img(frames')) /\ Cardinality(Img(frames')) <= capacity
    BY <1>0, <2>2 DEF Distinct
  <2>4. page_faults'[algo] \in Nat
    BY <1>0, <1>3, <2>1
  <2>5. Serves(Img(frames), page_faults[algo], Img(frames'), page_faults'[algo], x, capacity)
    BY <1>0, <1>3, <2>1, <2>2, <2>3, <2>4 DEF Serves
  <2>6. QED BY <1>0, <2>2, <2>5
<1>6. CASE \E p : Puts(p)
  <2>1. Faults
    BY <1>6 DEF Puts
  <2>2. QED BY <1>2, <1>3, <1>5, <1>6, <2>1
<1>7. QED BY <1>1, <1>4, <1>6 DEF Serving

LEMMA RivalServed ==
    ASSUME PagingInv, Replacement!RivalTurn
    PROVE  Serves(rival.frames, rival.faults, rival'.frames, rival'.faults, pages[i], capacity)
<1>1. IsFiniteSet(rival.frames) /\ Cardinality(rival.frames) <= capacity /\ rival.faults \in Nat
      /\ capacity \in Nat
  BY DEF PagingInv
<1>2. CASE pages[i] \in rival.frames
  <2>1. rival' = rival
    BY <1>2 DEF Replacement!RivalTurn, Replacement!page
  <2>2. QED BY <1>1, <1>2, <2>1 DEF Serves
<1>3. CASE pages[i] \notin rival.frames
  <2>1. PICK victims \in SUBSET rival.frames :
           /\ Cardinality(rival.frames \ victims) < capacity
           /\ rival' = [frames |-> (rival.frames \ victims) \cup {pages[i]},
                        faults |-> rival.faults + 1]
    BY <1>3, SameCardinality DEF Replacement!RivalTurn, Replacement!page
  <2>2. PICK V : V = rival.frames \ victims
    OBVIOUS
  <2>3. V \in SUBSET rival.frames
    BY <2>2
  <2>4. IsFiniteSet(V)
    BY <1>1, <2>3, FS_Subset
  <2>5. Cardinality(V) \in Nat /\ Cardinality(V) < capacity
    BY <2>1, <2>2, <2>4, FS_CardinalityType
  <2>6. PICK x : x = pages[i]
    OBVIOUS
  <2>7. /\ IsFiniteSet(V \cup {x})
        /\ Cardinality(V \cup {x}) = IF x \in V THEN Cardinality(V) ELSE Cardinality(V) + 1
    BY <2>4, FS_AddElement
  <2>8. rival'.frames = V \cup {x} /\ rival'.faults = rival.faults + 1
    BY <2>1, <2>2, <2>6
  <2>9. Cardinality(V \cup {x}) <= capacity
    BY <1>1, <2>5, <2>7
  <2>10. rival'.faults \in Nat
    BY <1>1, <2>8
  <2>11. QED BY <1>1, <1>3, <2>3, <2>6, <2>7, <2>8, <2>9, <2>10 DEF Serves
<1>4. QED BY <1>2, <1>3

LEMMA BestServed ==
    ASSUME PagingInv, Replacement!optimalPageReplacement
    PROVE  /\ Replacement!RivalTurn
           /\ ServesBest(pages, i, Img(frames), page_faults[3], Img(frames'), page_faults'[3], capacity)
<1>0. algo = 3 /\ i \in 1 .. REFERENCES
  BY MemoryAssumption DEF Replacement!optimalPageReplacement, PagingInv
<1>1. Serving
  <2>1. i # REFERENCES + 1
    BY <1>0, MemoryAssumption
  <2>2. QED BY <2>1, ServingStep DEF Replacement!Next, Replacement!NextAlgorithm
<1>2. /\ Distinct(frames') /\ page_faults' \in [1 .. 3 -> Nat]
      /\ Serves(Img(frames), page_faults[3], Img(frames'), page_faults'[3], pages[i], capacity)
  BY <1>0, <1>1, PagesServed
<1>3. Replacement!RivalTurn
  BY DEF Replacement!optimalPageReplacement, Replacement!optimalHit, Replacement!optimalFill,
     Replacement!optimalReplace
<1>4. PICK x : x = pages[i]
  OBVIOUS
<1>5. /\ Distinct(frames) /\ Len(frames) \in Nat /\ capacity \in Nat \ {0} /\ x \in Int
      /\ Len(frames) <= capacity
  BY <1>0, <1>4 DEF PagingInv, Distinct
<1>6. Replacement!isPagePresent <=> x \in Img(frames)
  BY <1>4 DEF Replacement!isPagePresent, Replacement!page, Img
<1>7. ASSUME x \notin Img(frames)
      PROVE  \/ Img(frames') = Img(frames) \cup {x}
             \/ \E v \in Img(frames) :
                   /\ Img(frames') = (Img(frames) \ {v}) \cup {x}
                   /\ Cardinality(Img(frames)) = capacity
                   /\ \A m \in i .. REFERENCES :
                         v \in Window(pages, i, m) => Img(frames) \subseteq Window(pages, i, m)
  <2>1. CASE Replacement!optimalHit
    BY <1>6, <1>7, <2>1 DEF Replacement!optimalHit
  <2>2. CASE Replacement!optimalFill
    <3>1. frames' = Append(frames, x)
      BY <1>4, <2>2 DEF Replacement!optimalFill, Replacement!page
    <3>2. QED BY <1>5, <1>7, <3>1, DistinctAppend
  <2>3. CASE Replacement!optimalReplace
    <3>1. PICK far : far = Replacement!findFarthest
      OBVIOUS
    <3>2. Len(frames) = capacity
      BY <1>5, <2>3 DEF Replacement!optimalReplace, Replacement!Free
    <3>3. /\ far \in 1 .. capacity
          /\ \A m \in i .. REFERENCES :
                frames[far] \in Window(pages, i, m) => Img(frames) \subseteq Window(pages, i, m)
      BY <1>0, <1>4, <1>7, <3>1, <3>2, FarthestFound
    <3>4. frames' = [frames EXCEPT ![far] = x]
      BY <1>4, <2>3, <3>1 DEF Replacement!optimalReplace, Replacement!page
    <3>5. frames[far] \in Img(frames) /\ Img(frames') = (Img(frames) \ {frames[far]}) \cup {x}
      BY <1>5, <1>7, <3>2, <3>3, <3>4, DistinctPut
    <3>6. Cardinality(Img(frames)) = capacity
      BY <1>5, <3>2 DEF Distinct
    <3>7. QED BY <3>3, <3>5, <3>6
  <2>4. QED BY <2>1, <2>2, <2>3 DEF Replacement!optimalPageReplacement
<1>8. QED BY <1>2, <1>3, <1>4, <1>7 DEF Serves, ServesBest

\* A hit under LRU stamps the frame of the page.
LEMMA HitStamped ==
    ASSUME PagingInv, Replacement!LRUHit
    PROVE  \E j \in 1 .. Len(frames) :
              frames[j] = pages[i] /\ last_used' = [last_used EXCEPT ![j] = i]
<1>1. Replacement!isPagePresent
  BY DEF Replacement!LRUHit, Replacement!SelectInSeq
<1>2. PICK J : J = {k \in 1 .. Len(frames) : frames[k] = Replacement!page}
  OBVIOUS
<1>3. last_used' = [last_used EXCEPT ![IF J # {} THEN Replacement!Min(J) ELSE 0] = i]
  BY <1>2 DEF Replacement!LRUHit, Replacement!SelectInSeq
<1>4. J # {} /\ J \subseteq Nat
  <2>1. Len(frames) \in Nat
    BY DEF PagingInv, Distinct
  <2>2. 1 .. Len(frames) \subseteq Nat
    BY <2>1
  <2>3. J # {}
    BY <1>1, <1>2 DEF Replacement!isPagePresent
  <2>4. QED BY <1>2, <2>2, <2>3
<1>5. \E x \in J : \A y \in J : x <= y
  BY <1>4, LeastNatural
<1>6. Replacement!Min(J) \in J
  BY <1>5 DEF Replacement!Min
<1>7. QED BY <1>2, <1>3, <1>4, <1>6 DEF Replacement!page

LEMMA PagingStep == PagingInv /\ [Replacement!Next]_replacementVars => PagingInv'
<1> SUFFICES ASSUME PagingInv, [Replacement!Next]_replacementVars PROVE PagingInv'
  OBVIOUS
<1>0. /\ capacity \in Nat \ {0} /\ REFERENCES \in Nat /\ i \in 1 .. REFERENCES + 1
      /\ algo \in 1 .. 4 /\ head \in 0 .. capacity - 1 /\ Len(frames) \in Nat
      /\ Distinct(frames)
  BY MemoryAssumption DEF PagingInv, Distinct
<1>1. CASE UNCHANGED replacementVars
  BY <1>1 DEF replacementVars, PagingInv
<1>2. CASE Replacement!NextAlgorithm
  <2>1. /\ algo' = algo + 1 /\ algo <= 3 /\ i' = 1 /\ frames' = <<>> /\ head' = 0
        /\ last_used' = <<>> /\ UNCHANGED <<pages, capacity, page_faults, rival>>
    BY <1>2 DEF Replacement!NextAlgorithm
  <2>2. /\ Distinct(frames') /\ Len(frames') = 0 /\ algo' \in 1 .. 4
        /\ head' \in 0 .. capacity' - 1 /\ i' \in 1 .. REFERENCES + 1
        /\ last_used' \in Seq(Nat) /\ Len(last_used') = Len(frames') /\ Len(frames') <= capacity
    BY <1>0, <2>1, DistinctEmpty
  <2>3. QED BY <2>1, <2>2 DEF PagingInv
<1>3. CASE Replacement!Next /\ Serving
  <2>1. /\ Distinct(frames') /\ Len(frames') <= capacity /\ page_faults' \in [1 .. 3 -> Nat]
    BY <1>3, PagesServed
  <2>2. i' \in 1 .. REFERENCES + 1 /\ UNCHANGED <<pages, capacity, algo>> /\ i \in 1 .. REFERENCES
    BY <1>0, <1>3 DEF Serving
  <2>3. CASE Replacement!FIFOPageReplacement
    <3>1. (head + 1) % capacity \in 0 .. capacity - 1
      BY <1>0
    <3>2. head' \in 0 .. capacity - 1 /\ UNCHANGED rival /\ algo = 1
      BY <1>0, <2>3, <3>1 DEF Replacement!FIFOPageReplacement, Replacement!FIFOHit, Replacement!FIFOFill,
         Replacement!FIFOReplace
    <3>3. QED BY <2>1, <2>2, <3>2 DEF PagingInv
  <2>4. CASE Replacement!LRUPageReplacement
    <3>1. algo = 2 /\ last_used \in Seq(Nat) /\ Len(last_used) = Len(frames) /\ i \in Nat
      BY <2>2, <2>4 DEF Replacement!LRUPageReplacement, PagingInv
    <3>2. UNCHANGED <<head, rival>>
      BY <2>4 DEF Replacement!LRUPageReplacement, Replacement!LRUHit, Replacement!LRUFill,
         Replacement!LRUReplace, Replacement!SelectInSeq
    <3>3. last_used' \in Seq(Nat) /\ Len(last_used') = Len(frames')
      <4>1. CASE Replacement!LRUHit
        <5>1. PICK j \in 1 .. Len(frames) : last_used' = [last_used EXCEPT ![j] = i]
          BY <4>1, HitStamped
        <5>2. frames' = frames
          BY <4>1 DEF Replacement!LRUHit, Replacement!SelectInSeq
        <5>3. QED BY <3>1, <5>1, <5>2
      <4>2. CASE Replacement!LRUFill
        <5>1. last_used' = Append(last_used, i) /\ frames' = Append(frames, pages[i])
          BY <4>2 DEF Replacement!LRUFill, Replacement!page
        <5>2. frames \in Seq(Int) /\ pages[i] \in Int
          BY <1>0, <2>2 DEF Distinct, PagingInv
        <5>3. QED BY <3>1, <5>1, <5>2
      <4>3. CASE Replacement!LRUReplace
        <5>1. PICK j : j = Replacement!lru_idx
          OBVIOUS
        <5>2. last_used' = [last_used EXCEPT ![j] = i] /\ frames' = [frames EXCEPT ![j] = pages[i]]
          BY <4>3, <5>1 DEF Replacement!LRUReplace, Replacement!page
        <5>3. frames \in Seq(Int) /\ pages[i] \in Int
          BY <1>0, <2>2 DEF Distinct, PagingInv
        <5>4. Len(frames) = capacity
          BY <1>0, <4>3 DEF Replacement!LRUReplace, Replacement!Free, PagingInv
        <5>5. j \in 1 .. Len(frames)
          BY <3>1, <5>1, <5>4, LeastUsed
        <5>6. Len(frames') = Len(frames) /\ last_used' \in Seq(Nat) /\ Len(last_used') = Len(last_used)
          BY <3>1, <5>2, <5>3, <5>5
        <5>7. QED BY <3>1, <5>6
      <4>4. QED BY <2>4, <4>1, <4>2, <4>3 DEF Replacement!LRUPageReplacement
    <3>4. QED BY <1>0, <2>1, <2>2, <3>2, <3>3 DEF PagingInv
  <2>5. CASE Replacement!optimalPageReplacement
    <3>1. algo = 3 /\ UNCHANGED head
      BY <2>5 DEF Replacement!optimalPageReplacement, Replacement!optimalHit, Replacement!optimalFill,
         Replacement!optimalReplace
    <3>2. Serves(rival.frames, rival.faults, rival'.frames, rival'.faults, pages[i], capacity)
      BY <2>5, BestServed, RivalServed
    <3>3. QED BY <1>0, <2>1, <2>2, <3>1, <3>2 DEF PagingInv, Serves
  <2>6. QED BY <1>0, <1>3, <2>2, <2>3, <2>4, <2>5 DEF Replacement!Next, Replacement!NextAlgorithm
<1>4. QED BY <1>1, <1>2, <1>3, ServingStep

\* A run of some replacement over the first turns: the frames and the faults before
\* each turn.
Run(P, c, h, last) ==
    /\ h[1] = [frames |-> {}, faults |-> 0]
    /\ \A k \in 1 .. last - 1 :
          Serves(h[k].frames, h[k].faults, h[k + 1].frames, h[k + 1].faults, P[k], c)

\* The function main is in has made such a run up to now; function a has made one; and
\* optimal replacement is not behind it.
Recorded(f) ==
    \E h : Run(pages, capacity, h, i) /\ h[i] = [frames |-> Img(frames), faults |-> f]
Ended(f) ==
    \E h : Run(pages, capacity, h, REFERENCES + 1) /\ h[REFERENCES + 1].faults = f
Beaten(f) ==
    \E h : /\ Run(pages, capacity, h, REFERENCES + 1) /\ h[REFERENCES + 1].faults = f
           /\ Ahead(pages, i, h[i].frames, h[i].faults, Img(frames), page_faults[3])

FaultInv ==
    /\ algo < 3 => rival = Replacement!NoFrames /\ page_faults[3] = 0
    /\ algo = 1 => Recorded(page_faults[1]) /\ page_faults[2] = 0
    /\ algo = 2 => Recorded(page_faults[2]) /\ Ended(page_faults[1])
    /\ algo = 3 => /\ Beaten(page_faults[1]) /\ Beaten(page_faults[2])
                   /\ Ahead(pages, i, rival.frames, rival.faults, Img(frames), page_faults[3])
    /\ Replacement!OptimalIsBest

LEMMA RunGoesOn ==
    ASSUME NEW P, NEW c, NEW h, NEW k \in 1 .. REFERENCES, Run(P, c, h, k),
           NEW S, NEW fs, Serves(h[k].frames, h[k].faults, S, fs, P[k], c)
    PROVE  \E g : Run(P, c, g, k + 1) /\ g[k + 1] = [frames |-> S, faults |-> fs]
<1>0. k \in Nat \ {0}
  OBVIOUS
<1>1. PICK g : g = [l \in 1 .. k + 1 |-> IF l = k + 1 THEN [frames |-> S, faults |-> fs] ELSE h[l]]
  OBVIOUS
<1>2. g[k + 1] = [frames |-> S, faults |-> fs] /\ \A l \in 1 .. k : g[l] = h[l]
  BY <1>0, <1>1
<1>3. g[1] = [frames |-> {}, faults |-> 0]
  BY <1>0, <1>2 DEF Run
<1>4. ASSUME NEW l \in 1 .. (k + 1) - 1
      PROVE  Serves(g[l].frames, g[l].faults, g[l + 1].frames, g[l + 1].faults, P[l], c)
  <2>1. l \in 1 .. k /\ (l = k \/ (l \in 1 .. k - 1 /\ l + 1 \in 1 .. k))
    BY <1>0
  <2>2. CASE l = k
    BY <1>2, <2>1, <2>2
  <2>3. CASE l \in 1 .. k - 1 /\ l + 1 \in 1 .. k
    BY <1>2, <2>1, <2>3 DEF Run
  <2>4. QED BY <2>1, <2>2, <2>3
<1>5. QED BY <1>2, <1>3, <1>4 DEF Run

LEMMA AheadAtStart == ASSUME NEW P PROVE Ahead(P, 1, {}, 0, {}, 0)
<1>1. Cardinality({}) \in Nat
  BY FS_EmptySet
<1>2. \A m : {} \cap Window(P, 1, m) = {}
  OBVIOUS
<1>3. QED BY <1>1, <1>2 DEF Ahead

LEMMA AheadAtEnd ==
    ASSUME NEW P, NEW R, NEW fr \in Nat, NEW C, NEW fc \in Nat,
           Ahead(P, REFERENCES + 1, R, fr, C, fc)
    PROVE  fc <= fr
<1>1. REFERENCES \in Nat /\ (REFERENCES + 1) - 1 = REFERENCES
  BY MemoryAssumption
<1>2. REFERENCES \in (REFERENCES + 1) - 1 .. REFERENCES
  BY <1>1
<1>3. Window(P, REFERENCES + 1, REFERENCES) = {}
  <2>1. PICK k \in Nat : k = REFERENCES + 1
    BY <1>1
  <2>2. Window(P, k, k - 1) = {}
    BY WindowEmpty
  <2>3. QED BY <1>1, <2>1, <2>2
<1>4. fc + Cardinality(R \cap {}) <= fr + Cardinality(C \cap {})
  BY <1>2, <1>3 DEF Ahead
<1>5. R \cap {} = {} /\ C \cap {} = {} /\ Cardinality({}) = 0
  BY FS_EmptySet
<1>6. fc + 0 <= fr + 0
  BY <1>4, <1>5
<1>7. QED BY <1>6

LEMMA RecordedOn ==
    ASSUME PagingInv, Serving, Recorded(page_faults[algo])
    PROVE  Recorded(page_faults[algo])'
<1>1. PICK h : Run(pages, capacity, h, i)
               /\ h[i] = [frames |-> Img(frames), faults |-> page_faults[algo]]
  BY DEF Recorded
<1>2. i \in 1 .. REFERENCES /\ i' = i + 1 /\ UNCHANGED <<pages, capacity, algo>>
  BY DEF Serving
<1>3. Serves(h[i].frames, h[i].faults, Img(frames'), page_faults'[algo], pages[i], capacity)
  BY <1>1, PagesServed
<1>4. \E g : Run(pages, capacity, g, i + 1)
             /\ g[i + 1] = [frames |-> Img(frames'), faults |-> page_faults'[algo]]
  BY <1>1, <1>2, <1>3, RunGoesOn
<1>5. QED BY <1>2, <1>4 DEF Recorded

LEMMA BeatenOn ==
    ASSUME PagingInv, Replacement!optimalPageReplacement, NEW f, Beaten(f)
    PROVE  Beaten(f)'
<1>0. algo = 3 /\ i \in 1 .. REFERENCES /\ REFERENCES \in Nat /\ capacity \in Nat
  BY MemoryAssumption DEF Replacement!optimalPageReplacement, PagingInv
<1>1. PICK h : /\ Run(pages, capacity, h, REFERENCES + 1) /\ h[REFERENCES + 1].faults = f
               /\ Ahead(pages, i, h[i].frames, h[i].faults, Img(frames), page_faults[3])
  BY DEF Beaten
<1>2. i' = i + 1 /\ UNCHANGED <<pages, capacity>>
  BY DEF Replacement!optimalPageReplacement, Replacement!optimalHit, Replacement!optimalFill,
     Replacement!optimalReplace, Replacement!Turn
<1>3. i \in 1 .. (REFERENCES + 1) - 1
  BY <1>0
<1>4. Serves(h[i].frames, h[i].faults, h[i + 1].frames, h[i + 1].faults, pages[i], capacity)
  BY <1>1, <1>3 DEF Run
<1>5. ServesBest(pages, i, Img(frames), page_faults[3], Img(frames'), page_faults'[3], capacity)
  BY BestServed
<1>6. Ahead(pages, i + 1, h[i + 1].frames, h[i + 1].faults, Img(frames'), page_faults'[3])
  BY <1>0, <1>1, <1>4, <1>5, Exchange
<1>7. QED BY <1>1, <1>2, <1>6 DEF Beaten

LEMMA EndedIsNat ==
    ASSUME NEW P, NEW c, NEW h, Run(P, c, h, REFERENCES + 1), NEW k \in 1 .. REFERENCES + 1
    PROVE  h[k].faults \in Nat
<1>0. REFERENCES \in Nat
  BY MemoryAssumption
<1>1. CASE k = 1
  BY <1>1 DEF Run
<1>2. CASE k # 1
  <2>1. k - 1 \in 1 .. (REFERENCES + 1) - 1 /\ (k - 1) + 1 = k
    BY <1>0, <1>2
  <2>2. QED BY <2>1 DEF Run, Serves
<1>3. QED BY <1>1, <1>2

LEMMA FaultStep ==
    PagingInv /\ FaultInv /\ [Replacement!Next]_replacementVars => FaultInv'
<1> SUFFICES ASSUME PagingInv, FaultInv, [Replacement!Next]_replacementVars PROVE FaultInv'
  OBVIOUS
<1>0. /\ REFERENCES \in Nat /\ algo \in 1 .. 4 /\ i \in 1 .. REFERENCES + 1
      /\ page_faults \in [1 .. 3 -> Nat] /\ rival.faults \in Nat
  BY MemoryAssumption DEF PagingInv
<1>1. CASE UNCHANGED replacementVars
  BY <1>1 DEF replacementVars, FaultInv, Recorded, Ended, Beaten, Replacement!OptimalIsBest
<1>2. CASE Replacement!NextAlgorithm
  <2>1. /\ algo' = algo + 1 /\ algo <= 3 /\ i' = 1 /\ i = REFERENCES + 1 /\ frames' = <<>>
        /\ UNCHANGED <<pages, capacity, page_faults, rival>>
    BY <1>2 DEF Replacement!NextAlgorithm
  <2>2. Img(frames') = {}
    BY <2>1, DistinctEmpty
  <2>3. ASSUME NEW f, Recorded(f) PROVE Ended(f)
    BY <2>1, <2>3 DEF Recorded, Ended
  <2>4. ASSUME NEW f, Ended(f), page_faults[3] = 0 PROVE Beaten(f)'
    <3>1. PICK h : Run(pages, capacity, h, REFERENCES + 1) /\ h[REFERENCES + 1].faults = f
      BY <2>4 DEF Ended
    <3>2. h[1].frames = {} /\ h[1].faults = 0
      BY <3>1 DEF Run
    <3>3. Ahead(pages, 1, h[1].frames, h[1].faults, Img(frames'), page_faults[3])
      BY <2>2, <2>4, <3>2, AheadAtStart
    <3>4. QED BY <2>1, <3>1, <3>3 DEF Beaten
  <2>5. CASE algo = 1
    <3>1. PICK h : h = [k \in 1 .. 1 |-> [frames |-> {}, faults |-> 0]]
      OBVIOUS
    <3>2. Run(pages, capacity, h, 1) /\ h[1] = [frames |-> Img(frames'), faults |-> page_faults[2]]
      BY <2>2, <2>5, <3>1 DEF Run, FaultInv
    <3>3. Recorded(page_faults[2])'
      BY <2>1, <3>2 DEF Recorded
    <3>4. Ended(page_faults[1])
      BY <2>3, <2>5 DEF FaultInv
    <3>5. Ended(page_faults[1])'
      BY <2>1, <3>4 DEF Ended
    <3>6. QED BY <2>1, <2>5, <3>3, <3>5 DEF FaultInv, Replacement!OptimalIsBest
  <2>6. CASE algo = 2
    <3>1. page_faults[3] = 0 /\ rival.frames = {} /\ rival.faults = 0
      BY <2>6 DEF FaultInv, Replacement!NoFrames
    <3>2. PICK f1, f2 : f1 = page_faults[1] /\ f2 = page_faults[2]
      OBVIOUS
    <3>3. Ended(f1) /\ Ended(f2)
      BY <2>3, <2>6, <3>2 DEF FaultInv
    <3>4. Beaten(f1)' /\ Beaten(f2)'
      BY <2>4, <3>1, <3>3
    <3>5. Beaten(page_faults[1])' /\ Beaten(page_faults[2])'
      BY <2>1, <3>2, <3>4 DEF Beaten
    <3>6. Ahead(pages, 1, rival.frames, rival.faults, Img(frames'), page_faults[3])
      BY <2>2, <3>1, AheadAtStart
    <3>7. QED BY <2>1, <2>6, <3>5, <3>6 DEF FaultInv, Replacement!OptimalIsBest
  <2>7. CASE algo = 3
    <3>1. page_faults[3] <= rival.faults
      BY <1>0, <2>1, <2>7, AheadAtEnd DEF FaultInv
    <3>2. ASSUME NEW f, Beaten(f) PROVE page_faults[3] <= f
      <4>1. PICK h : /\ Run(pages, capacity, h, REFERENCES + 1) /\ h[REFERENCES + 1].faults = f
                     /\ Ahead(pages, i, h[i].frames, h[i].faults, Img(frames), page_faults[3])
        BY <3>2 DEF Beaten
      <4>2. REFERENCES + 1 \in 1 .. REFERENCES + 1
        BY <1>0
      <4>3. f \in Nat
        BY <4>1, <4>2, EndedIsNat
      <4>4. Ahead(pages, REFERENCES + 1, h[REFERENCES + 1].frames, f, Img(frames), page_faults[3])
        BY <2>1, <4>1
      <4>5. QED BY <1>0, <4>3, <4>4, AheadAtEnd
    <3>3. page_faults[3] <= page_faults[1] /\ page_faults[3] <= page_faults[2]
      BY <2>7, <3>2 DEF FaultInv
    <3>4. QED BY <2>1, <2>7, <3>1, <3>3 DEF FaultInv, Replacement!OptimalIsBest
  <2>8. QED BY <1>0, <2>1, <2>5, <2>6, <2>7
<1>3. CASE Replacement!Next /\ Serving
  <2>1. /\ algo \in 1 .. 3 /\ i \in 1 .. REFERENCES /\ i' = i + 1
        /\ UNCHANGED <<pages, capacity, algo>>
    BY <1>3 DEF Serving
  <2>2. \A a \in 1 .. 3 : a # algo => page_faults'[a] = page_faults[a]
    BY <1>3, PagesServed
  <2>3. /\ algo = 1 => Replacement!FIFOPageReplacement
        /\ algo = 2 => Replacement!LRUPageReplacement
        /\ algo = 3 => Replacement!optimalPageReplacement
    <3>1. i # REFERENCES + 1
      BY <1>0, <2>1
    <3>2. QED BY <1>3, <3>1 DEF Replacement!Next, Replacement!NextAlgorithm,
           Replacement!FIFOPageReplacement, Replacement!LRUPageReplacement, Replacement!optimalPageReplacement
  <2>4. CASE algo = 1
    <3>1. UNCHANGED rival
      BY <2>3, <2>4 DEF Replacement!FIFOPageReplacement, Replacement!FIFOHit, Replacement!FIFOFill,
         Replacement!FIFOReplace
    <3>2. Recorded(page_faults[algo])'
      BY <1>3, <2>4, RecordedOn DEF FaultInv
    <3>3. Recorded(page_faults[1])'
      BY <2>1, <2>4, <3>2
    <3>4. QED BY <2>1, <2>2, <2>4, <3>1, <3>3 DEF FaultInv, Replacement!OptimalIsBest
  <2>5. CASE algo = 2
    <3>1. UNCHANGED rival
      BY <2>3, <2>5 DEF Replacement!LRUPageReplacement, Replacement!LRUHit, Replacement!LRUFill,
         Replacement!LRUReplace, Replacement!SelectInSeq
    <3>2. Recorded(page_faults[algo])'
      BY <1>3, <2>5, RecordedOn DEF FaultInv
    <3>3. Recorded(page_faults[2])'
      BY <2>1, <2>5, <3>2
    <3>4. Ended(page_faults[1])'
      BY <2>1, <2>2, <2>5 DEF FaultInv, Ended
    <3>5. QED BY <2>1, <2>2, <2>5, <3>1, <3>3, <3>4 DEF FaultInv, Replacement!OptimalIsBest
  <2>6. CASE algo = 3
    <3>1. PICK f1, f2 : f1 = page_faults[1] /\ f2 = page_faults[2]
      OBVIOUS
    <3>2. Beaten(f1) /\ Beaten(f2)
      BY <2>6, <3>1 DEF FaultInv
    <3>3. Beaten(f1)' /\ Beaten(f2)'
      BY <2>3, <2>6, <3>2, BeatenOn
    <3>4. f1 = page_faults'[1] /\ f2 = page_faults'[2]
      BY <2>2, <2>6, <3>1
    <3>5. Beaten(page_faults[1])' /\ Beaten(page_faults[2])'
      BY <3>3, <3>4 DEF Beaten
    <3>6. Serves(rival.frames, rival.faults, rival'.frames, rival'.faults, pages[i], capacity)
      BY <2>3, <2>6, BestServed, RivalServed
    <3>7. ServesBest(pages, i, Img(frames), page_faults[3], Img(frames'), page_faults'[3], capacity)
      BY <2>3, <2>6, BestServed
    <3>8. Ahead(pages, i, rival.frames, rival.faults, Img(frames), page_faults[3])
      BY <2>6 DEF FaultInv
    <3>9. capacity \in Nat
      BY DEF PagingInv
    <3>10. Ahead(pages, i + 1, rival'.frames, rival'.faults, Img(frames'), page_faults'[3])
      BY <2>1, <3>6, <3>7, <3>8, <3>9, Exchange
    <3>11. QED BY <2>1, <2>6, <3>5, <3>10 DEF FaultInv, Replacement!OptimalIsBest
  <2>7. QED BY <2>1, <2>4, <2>5, <2>6
<1>4. QED BY <1>1, <1>2, <1>3, ServingStep

LEMMA PagingStart == Replacement!Init => PagingInv /\ FaultInv
<1> SUFFICES ASSUME Replacement!Init PROVE PagingInv /\ FaultInv
  OBVIOUS
<1>0. REFERENCES \in Nat /\ CAPACITIES \subseteq Nat \ {0} /\ PAGES \in Nat
  BY MemoryAssumption
<1>1. /\ pages \in [1 .. REFERENCES -> 1 .. PAGES] /\ capacity \in Nat \ {0}
      /\ algo = 1 /\ i = 1 /\ frames = <<>> /\ head = 0 /\ last_used = <<>>
      /\ page_faults = [a \in 1 .. 3 |-> 0] /\ rival = [frames |-> {}, faults |-> 0]
  BY <1>0 DEF Replacement!Init, Replacement!initFIFOQueue, Replacement!References, Replacement!NoFrames
<1>2. pages \in [1 .. REFERENCES -> Int]
  BY <1>0, <1>1
<1>3. Distinct(frames) /\ Img(frames) = {} /\ Len(frames) = 0
  BY <1>1, DistinctEmpty
<1>4. rival.frames = {} /\ rival.faults = 0 /\ IsFiniteSet({}) /\ Cardinality({}) = 0
  BY <1>1, FS_EmptySet
<1>5. PagingInv
  BY <1>0, <1>1, <1>2, <1>3, <1>4 DEF PagingInv
<1>6. PICK h : h = [k \in 1 .. 1 |-> [frames |-> {}, faults |-> 0]]
  OBVIOUS
<1>7. Run(pages, capacity, h, 1) /\ h[1] = [frames |-> {}, faults |-> 0]
  BY <1>6 DEF Run
<1>8. Recorded(page_faults[1])
  <2>1. page_faults[1] = 0
    BY <1>1
  <2>2. QED BY <1>1, <1>3, <1>7, <2>1 DEF Recorded
<1>9. FaultInv
  BY <1>1, <1>8 DEF FaultInv, Replacement!OptimalIsBest, Replacement!NoFrames
<1>10. QED BY <1>5, <1>9

\* For every string of references and every number of frames, no replacement has fewer
\* faults than optimalPageReplacement: not FIFO, not LRU, and none that chooses its
\* victims in any other way.
THEOREM OptimalReplacement == MCSpec => []FewestFaults
<1> DEFINE I == program = "replacement" => PagingInv /\ FaultInv
<1>1. MCInit => I
  BY PagingStart DEF MCInit
<1>2. I /\ [MCNext]_allVars => I'
  <2> SUFFICES ASSUME I, [MCNext]_allVars PROVE I'
    OBVIOUS
  <2>1. program' = program
    BY DEF MCNext, allVars
  <2>2. program = "replacement" => [Replacement!Next]_replacementVars
    BY DEF MCNext, allVars
  <2>3. QED BY <2>1, <2>2, PagingStep, FaultStep
<1>3. I => FewestFaults
  BY DEF FewestFaults, FaultInv
<1>4. QED BY <1>1, <1>2, <1>3, PTL DEF MCSpec

-----------------------------------------------------------------------------
(* What FIFO and LRU keep *)

LEMMA PartOfSequence ==
    ASSUME NEW s \in Seq(Int), NEW a \in Nat \ {0}, NEW b \in Nat, a <= b + 1, b <= Len(s)
    PROVE  Replacement!SetOf(SubSeq(s, a, b)) = {s[m] : m \in a .. b}
<1>1. PICK t : t = SubSeq(s, a, b)
  OBVIOUS
<1>2. Len(t) = b - a + 1 /\ \A j \in 1 .. b - a + 1 : t[j] = s[a + j - 1]
  BY <1>1
<1>3. ASSUME NEW y \in Replacement!SetOf(t) PROVE y \in {s[m] : m \in a .. b}
  <2>1. PICK j \in 1 .. b - a + 1 : y = t[j]
    BY <1>2, <1>3 DEF Replacement!SetOf
  <2>2. a + j - 1 \in a .. b /\ y = s[a + j - 1]
    BY <1>2, <2>1
  <2>3. QED BY <2>2
<1>4. ASSUME NEW m \in a .. b PROVE s[m] \in Replacement!SetOf(t)
  <2>1. PICK j : j = m - a + 1
    OBVIOUS
  <2>2. j \in 1 .. b - a + 1 /\ a + j - 1 = m
    BY <2>1
  <2>3. QED BY <1>2, <2>2 DEF Replacement!SetOf
<1>5. QED BY <1>1, <1>3, <1>4

\* Position k of the ring that starts at h.
Round(h, k) == IF h + k < capacity THEN h + k ELSE h + k - capacity

\* Under FIFO the frames, read from head on, are the pages brought in last.
QueueInv ==
    /\ loads \in Seq(Int)
    /\ Len(frames) < capacity =>
          /\ head = 0 /\ Len(loads) = Len(frames)
          /\ \A j \in 1 .. Len(frames) : frames[j] = loads[j]
    /\ Len(frames) = capacity =>
          /\ Len(loads) >= capacity
          /\ \A k \in 0 .. capacity - 1 :
                frames[Round(head, k) + 1] = loads[Len(loads) - capacity + 1 + k]

\* Under LRU a frame's stamp is the last reference to its page, and pages that are
\* not in a frame were last referenced before all that are.
StampInv ==
    /\ \A j \in 1 .. Len(frames) :
          /\ last_used[j] \in 1 .. i - 1 /\ pages[last_used[j]] = frames[j]
          /\ \A m \in last_used[j] + 1 .. i - 1 : pages[m] # frames[j]
    /\ \A m \in 1 .. i - 1 :
          pages[m] \notin Img(frames) =>
             Len(frames) = capacity /\ \A j \in 1 .. Len(frames) : m < last_used[j]

ResidentInv == (algo = 1 => QueueInv) /\ (algo = 2 => StampInv)

LEMMA QueueExact ==
    ASSUME PagingInv, QueueInv
    PROVE  Replacement!Resident = Replacement!LastOf(loads, capacity)
<1>0. /\ capacity \in Nat \ {0} /\ Len(frames) \in Nat /\ Len(frames) <= capacity
      /\ head \in 0 .. capacity - 1 /\ loads \in Seq(Int) /\ Len(loads) \in Nat
  BY DEF PagingInv, QueueInv, Distinct
<1>1. CASE Len(frames) < capacity
  <2>1. Len(loads) = Len(frames) /\ \A j \in 1 .. Len(frames) : frames[j] = loads[j]
    BY <1>1 DEF QueueInv
  <2>2. Replacement!LastOf(loads, capacity) = {loads[m] : m \in 1 .. Len(loads)}
    BY <1>0, <1>1, <2>1, PartOfSequence DEF Replacement!LastOf
  <2>3. QED BY <2>1, <2>2 DEF Replacement!Resident
<1>2. CASE Len(frames) = capacity
  <2>1. PICK a : a = Len(loads) - capacity + 1
    OBVIOUS
  <2>2. a \in Nat \ {0} /\ a <= Len(loads) + 1 /\ ~(Len(loads) < capacity)
    BY <1>0, <1>2, <2>1 DEF QueueInv
  <2>3. Replacement!LastOf(loads, capacity) = {loads[m] : m \in a .. Len(loads)}
    <3>1. Replacement!LastOf(loads, capacity) = Replacement!SetOf(SubSeq(loads, a, Len(loads)))
      BY <2>1, <2>2 DEF Replacement!LastOf
    <3>2. PICK b : b = Len(loads)
      OBVIOUS
    <3>3. Replacement!SetOf(SubSeq(loads, a, b)) = {loads[m] : m \in a .. b}
      <4>1. loads \in Seq(Int) /\ a \in Nat \ {0} /\ b \in Nat /\ a <= b + 1 /\ b <= Len(loads)
        BY <1>0, <2>2, <3>2
      <4>2. QED BY <4>1, PartOfSequence
    <3>4. QED BY <3>1, <3>2, <3>3
  <2>4. \A k \in 0 .. capacity - 1 :
           frames[Round(head, k) + 1] = loads[a + k] /\ Round(head, k) + 1 \in 1 .. capacity
           /\ a + k \in a .. Len(loads)
    BY <1>0, <1>2, <2>1 DEF QueueInv, Round
  <2>5. ASSUME NEW j \in 1 .. capacity PROVE frames[j] \in {loads[m] : m \in a .. Len(loads)}
    <3>1. PICK k : k = IF j - 1 >= head THEN j - 1 - head ELSE j - 1 - head + capacity
      OBVIOUS
    <3>2. k \in 0 .. capacity - 1 /\ Round(head, k) + 1 = j
      BY <1>0, <3>1 DEF Round
    <3>3. QED BY <2>4, <3>2
  <2>6. ASSUME NEW m \in a .. Len(loads) PROVE \E j \in 1 .. capacity : loads[m] = frames[j]
    <3>1. PICK k : k = m - a
      OBVIOUS
    <3>2. k \in 0 .. capacity - 1 /\ a + k = m
      BY <1>0, <2>1, <2>2, <3>1
    <3>3. QED BY <2>4, <3>2
  <2>7. Replacement!Resident = {loads[m] : m \in a .. Len(loads)}
    BY <1>2, <2>5, <2>6 DEF Replacement!Resident
  <2>8. QED BY <2>3, <2>7
<1>3. QED BY <1>0, <1>1, <1>2

LEMMA StampsExact ==
    ASSUME PagingInv, StampInv
    PROVE  Replacement!Resident = {p \in Replacement!SetOf(SubSeq(pages, 1, i - 1)) :
                                       Replacement!Cardinality(Replacement!Since(p)) < capacity}
<1>0. /\ capacity \in Nat \ {0} /\ REFERENCES \in Nat /\ i \in 1 .. REFERENCES + 1
      /\ pages \in [1 .. REFERENCES -> Int] /\ pages \in Seq(Int) /\ Len(pages) = REFERENCES
      /\ Distinct(frames) /\ Len(frames) \in Nat /\ Len(frames) <= capacity
  BY MemoryAssumption DEF PagingInv, Distinct
<1>1. Replacement!SetOf(SubSeq(pages, 1, i - 1)) = {pages[m] : m \in 1 .. i - 1}
  <2>1. PICK b : b = i - 1
    OBVIOUS
  <2>2. b \in Nat /\ 1 <= b + 1 /\ b <= Len(pages) /\ 1 \in Nat \ {0}
    BY <1>0, <2>1
  <2>3. Replacement!SetOf(SubSeq(pages, 1, b)) = {pages[m] : m \in 1 .. b}
    BY <1>0, <2>2, PartOfSequence
  <2>4. QED BY <2>1, <2>3
<1>2. Replacement!Resident = Img(frames)
  BY DEF Replacement!Resident, Img
<1>3. ASSUME NEW p
      PROVE  /\ \A k \in 1 .. i - 1 :
                   (\A j \in k .. i - 1 : pages[j] # p) => pages[k] \in Replacement!Since(p)
             /\ \A x \in Replacement!Since(p) :
                   \E k \in 1 .. i - 1 : x = pages[k] /\ \A j \in k .. i - 1 : pages[j] # p
  BY DEF Replacement!Since
<1>4. ASSUME NEW j \in 1 .. Len(frames)
      PROVE  /\ frames[j] \in {pages[m] : m \in 1 .. i - 1}
             /\ Cardinality(Replacement!Since(frames[j])) < capacity
  <2>1. /\ last_used[j] \in 1 .. i - 1 /\ pages[last_used[j]] = frames[j]
    BY DEF StampInv
  <2>2. PICK W : W = Img(frames) \ {frames[j]}
    OBVIOUS
  <2>3. Replacement!Since(frames[j]) \subseteq W
    <3> SUFFICES ASSUME NEW x \in Replacement!Since(frames[j]) PROVE x \in W
      OBVIOUS
    <3>1. PICK k \in 1 .. i - 1 : x = pages[k] /\ \A l \in k .. i - 1 : pages[l] # frames[j]
      BY <1>3
    <3>2. ~(k <= last_used[j])
      BY <1>0, <2>1, <3>1
    <3>3. pages[k] \in Img(frames)
      BY <1>0, <2>1, <3>2 DEF StampInv
    <3>4. k \in k .. i - 1
      BY <1>0
    <3>5. pages[k] # frames[j]
      BY <3>1, <3>4
    <3>6. QED BY <2>2, <3>1, <3>3, <3>5
  <2>4. IsFiniteSet(W) /\ Cardinality(W) = Len(frames) - 1
    <3>1. PICK V : V = Img(frames)
      OBVIOUS
    <3>2. IsFiniteSet(V) /\ Cardinality(V) = Len(frames) /\ frames[j] \in V
      BY <1>0, <3>1 DEF Distinct, Img
    <3>3. QED BY <2>2, <3>1, <3>2, FS_RemoveElement
  <2>5. PICK T : T = Replacement!Since(frames[j])
    OBVIOUS
  <2>6. T \in SUBSET W
    BY <2>3, <2>5
  <2>7. IsFiniteSet(T) /\ Cardinality(T) <= Cardinality(W)
    BY <2>4, <2>6, FS_Subset
  <2>8. Cardinality(T) \in Nat
    BY <2>7, FS_CardinalityType
  <2>9. QED BY <1>0, <2>1, <2>4, <2>5, <2>7, <2>8
<1>5. ASSUME NEW m \in 1 .. i - 1, pages[m] \notin Img(frames)
      PROVE  ~(Cardinality(Replacement!Since(pages[m])) < capacity)
  <2>1. PICK p : p = pages[m]
    OBVIOUS
  <2>2. /\ Len(frames) = capacity
        /\ \A l \in 1 .. i - 1 : pages[l] = p => \A j \in 1 .. Len(frames) : l < last_used[j]
    BY <1>5, <2>1 DEF StampInv
  <2>3. Img(frames) \subseteq Replacement!Since(p)
    <3> SUFFICES ASSUME NEW j \in 1 .. Len(frames) PROVE frames[j] \in Replacement!Since(p)
      BY DEF Img
    <3>1. last_used[j] \in 1 .. i - 1 /\ pages[last_used[j]] = frames[j]
      BY DEF StampInv
    <3>2. \A l \in last_used[j] .. i - 1 : pages[l] # p
      BY <1>0, <2>2, <3>1
    <3>3. QED BY <1>3, <3>1, <3>2
  <2>4. PICK T : T = Replacement!Since(p)
    OBVIOUS
  <2>5. IsFiniteSet(T)
    <3>1. PICK A : A = {l \in 1 .. i - 1 : \A j \in l .. i - 1 : pages[j] # p}
      OBVIOUS
    <3>2. IsFiniteSet(1 .. i - 1) /\ A \in SUBSET (1 .. i - 1)
      <4>1. PICK b : b = i - 1
        OBVIOUS
      <4>2. b \in Int /\ 1 \in Int
        BY <1>0, <4>1
      <4>3. IsFiniteSet(1 .. b)
        BY <4>2, FS_Interval
      <4>4. QED BY <3>1, <4>1, <4>3
    <3>3. IsFiniteSet(A)
      BY <3>2, FS_Subset
    <3>4. T = {pages[k] : k \in A}
      BY <2>4, <3>1 DEF Replacement!Since
    <3>5. PICK f : f = [k \in A |-> pages[k]]
      OBVIOUS
    <3>6. f \in Surjection(A, T)
      BY <3>4, <3>5 DEF Surjection
    <3>7. QED BY <3>3, <3>6, FS_Surjection
  <2>6. PICK V : V = Img(frames)
    OBVIOUS
  <2>7. V \in SUBSET T /\ Cardinality(V) = capacity
    BY <1>0, <2>2, <2>3, <2>4, <2>6 DEF Distinct
  <2>8. Cardinality(V) <= Cardinality(T)
    BY <2>5, <2>7, FS_Subset
  <2>9. Cardinality(T) \in Nat
    BY <2>5, FS_CardinalityType
  <2>10. QED BY <1>0, <2>1, <2>4, <2>7, <2>8, <2>9
<1>6. PICK S : S = {pages[m] : m \in 1 .. i - 1}
  OBVIOUS
<1>7. ASSUME NEW p
      PROVE  p \in Img(frames) <=> p \in S /\ Cardinality(Replacement!Since(p)) < capacity
  <2>1. ASSUME p \in Img(frames)
        PROVE  p \in S /\ Cardinality(Replacement!Since(p)) < capacity
    <3>1. PICK j \in 1 .. Len(frames) : p = frames[j]
      BY <2>1 DEF Img
    <3>2. QED BY <1>4, <1>6, <3>1
  <2>2. ASSUME p \in S, p \notin Img(frames)
        PROVE  ~(Cardinality(Replacement!Since(p)) < capacity)
    <3>1. PICK m \in 1 .. i - 1 : p = pages[m]
      BY <1>6, <2>2
    <3>2. QED BY <1>5, <2>2, <3>1
  <2>3. QED BY <2>1, <2>2
<1>8. Img(frames) = {p \in S : Cardinality(Replacement!Since(p)) < capacity}
  BY <1>7
<1>9. QED BY <1>1, <1>2, <1>6, <1>8, SameCardinality

\* One turn of FIFO: head moves on by one when the page it points at is overwritten.
LEMMA QueueStep ==
    ASSUME PagingInv, QueueInv, Replacement!FIFOPageReplacement
    PROVE  QueueInv'
<1>0. /\ capacity \in Nat \ {0} /\ Len(frames) \in Nat /\ Len(frames) <= capacity
      /\ head \in 0 .. capacity - 1 /\ loads \in Seq(Int) /\ Len(loads) \in Nat
      /\ frames \in Seq(Int) /\ capacity' = capacity
  BY DEF PagingInv, QueueInv, Distinct, Replacement!FIFOPageReplacement, Replacement!FIFOHit,
     Replacement!FIFOFill, Replacement!FIFOReplace, Replacement!Turn
<1>1. PICK x : x = pages[i]
  OBVIOUS
<1>2. x \in Int
  <2>1. i \in 1 .. REFERENCES
    BY MemoryAssumption DEF PagingInv, Replacement!FIFOPageReplacement
  <2>2. QED BY <1>1, <2>1 DEF PagingInv
<1>3. CASE Replacement!FIFOHit
  BY <1>3 DEF Replacement!FIFOHit, Replacement!Turn, QueueInv, Round
<1>4. CASE Replacement!FIFOFill
  <2>1. /\ frames' = Append(frames, x) /\ loads' = Append(loads, x) /\ head' = head
        /\ Len(frames) < capacity
    BY <1>1, <1>4 DEF Replacement!FIFOFill, Replacement!Turn, Replacement!page, Replacement!Free
  <2>2. PICK len : len = Len(frames)
    OBVIOUS
  <2>3. /\ head = 0 /\ Len(loads) = len /\ len \in Nat /\ len < capacity
        /\ \A j \in 1 .. len : frames[j] = loads[j]
    BY <1>0, <2>1, <2>2 DEF QueueInv
  <2>4. /\ loads' \in Seq(Int) /\ Len(frames') = len + 1 /\ Len(loads') = len + 1
        /\ frames'[len + 1] = x /\ loads'[len + 1] = x
    BY <1>0, <1>2, <2>1, <2>2, <2>3
  <2>5. \A j \in 1 .. len : frames'[j] = frames[j] /\ loads'[j] = loads[j]
    BY <1>0, <1>2, <2>1, <2>2, <2>3
  <2>6. \A j \in 1 .. len + 1 : frames'[j] = loads'[j]
    BY <2>3, <2>4, <2>5
  <2>7. CASE len + 1 < capacity
    BY <1>0, <2>1, <2>3, <2>4, <2>6, <2>7 DEF QueueInv
  <2>8. CASE len + 1 = capacity
    <3>1. \A k \in 0 .. capacity - 1 :
             /\ k + 1 \in 1 .. len + 1 /\ Len(loads') - capacity + 1 + k = k + 1
             /\ 0 + k < capacity /\ 0 + k = k
      BY <1>0, <2>3, <2>4, <2>8
    <3>2. \A k \in 0 .. capacity - 1 :
             frames'[(IF head' + k < capacity' THEN head' + k ELSE head' + k - capacity') + 1]
               = loads'[Len(loads') - capacity' + 1 + k]
      BY <1>0, <2>1, <2>3, <2>6, <3>1
    <3>3. QED BY <1>0, <2>3, <2>4, <2>8, <3>2 DEF QueueInv, Round
  <2>9. QED BY <1>0, <2>3, <2>7, <2>8
<1>5. CASE Replacement!FIFOReplace
  <2>1. /\ frames' = [frames EXCEPT ![head + 1] = x] /\ loads' = Append(loads, x)
        /\ head' = (head + 1) % capacity /\ Len(frames) = capacity
    BY <1>0, <1>1, <1>5 DEF Replacement!FIFOReplace, Replacement!Turn, Replacement!page, Replacement!Free
  <2>2. head' = IF head + 1 < capacity THEN head + 1 ELSE 0
    <3>1. (head + 1) % capacity = IF head + 1 < capacity THEN head + 1 ELSE 0
      <4>1. capacity \in Nat \ {0}
        BY <1>0
      <4>2. (\A a \in 0 .. capacity - 1 : a % capacity = a) /\ capacity % capacity = 0
        BY <4>1
      <4>3. head + 1 < capacity => head + 1 \in 0 .. capacity - 1
        BY <1>0
      <4>4. ~(head + 1 < capacity) => head + 1 = capacity
        BY <1>0
      <4>5. QED BY <4>2, <4>3, <4>4
    <3>2. QED BY <2>1, <3>1
  <2>3. PICK L : L = Len(loads)
    OBVIOUS
  <2>4. /\ L \in Nat /\ L >= capacity
        /\ \A k \in 0 .. capacity - 1 : frames[Round(head, k) + 1] = loads[L - capacity + 1 + k]
    BY <1>0, <2>1, <2>3 DEF QueueInv
  <2>5. /\ loads' \in Seq(Int) /\ Len(loads') = L + 1 /\ loads'[L + 1] = x
        /\ \A j \in 1 .. L : loads'[j] = loads[j]
    BY <1>0, <1>2, <2>1, <2>3
  <2>6. /\ Len(frames') = capacity /\ frames'[head + 1] = x
        /\ \A j \in 1 .. capacity : j # head + 1 => frames'[j] = frames[j]
    BY <1>0, <1>2, <2>1
  <2>7. ASSUME NEW k \in 0 .. capacity - 1
        PROVE  frames'[Round(head', k) + 1] = loads'[L + 1 - capacity + 1 + k]
    <3>1. CASE k = capacity - 1
      <4>1. L \in Nat /\ capacity \in Nat /\ k = capacity - 1
        BY <1>0, <2>4, <3>1
      <4>a. Round(head', k) = head
        BY <1>0, <2>2, <4>1 DEF Round
      <4>b. L + 1 - capacity + 1 + k = L + 1
        BY <4>1
      <4>2. QED BY <2>5, <2>6, <4>a, <4>b
    <3>2. CASE k + 1 \in 0 .. capacity - 1
      <4>1. PICK r : r = Round(head, k + 1)
        OBVIOUS
      <4>2. Round(head', k) = r /\ r + 1 \in 1 .. capacity /\ r + 1 # head + 1
        BY <1>0, <2>2, <3>2, <4>1 DEF Round
      <4>3. PICK m : m = L - capacity + 1 + (k + 1)
        OBVIOUS
      <4>4. m \in 1 .. L /\ m = L + 1 - capacity + 1 + k
        <5>1. L \in Nat /\ capacity \in Nat /\ k \in Nat /\ L >= capacity /\ k + 1 <= capacity - 1
          BY <1>0, <2>4, <3>2
        <5>2. QED BY <4>3, <5>1
      <4>5. frames[r + 1] = loads[m]
        BY <2>4, <3>2, <4>1, <4>3
      <4>6. frames'[r + 1] = frames[r + 1]
        BY <2>6, <4>2
      <4>7. loads'[m] = loads[m]
        BY <2>5, <4>4
      <4>8. QED BY <4>2, <4>4, <4>5, <4>6, <4>7
    <3>3. QED BY <1>0, <3>1, <3>2
  <2>8. \A k \in 0 .. capacity' - 1 :
           frames'[(IF head' + k < capacity' THEN head' + k ELSE head' + k - capacity') + 1]
             = loads'[Len(loads') - capacity' + 1 + k]
    <3> SUFFICES ASSUME NEW k \in 0 .. capacity' - 1
                 PROVE  frames'[(IF head' + k < capacity' THEN head' + k ELSE head' + k - capacity') + 1]
                          = loads'[Len(loads') - capacity' + 1 + k]
      OBVIOUS
    <3>1. k \in 0 .. capacity - 1 /\ Len(loads') - capacity' + 1 + k = L + 1 - capacity + 1 + k
      <4>1. capacity' = capacity /\ Len(loads') = L + 1
        BY <1>0, <2>5
      <4>2. k \in 0 .. capacity - 1
        BY <4>1
      <4>3. k \in Int /\ L \in Int /\ capacity \in Int
        BY <1>0, <2>4, <4>2
      <4>4. QED BY <4>1, <4>2, <4>3
    <3>2. Round(head', k) = IF head' + k < capacity' THEN head' + k ELSE head' + k - capacity'
      BY <1>0 DEF Round
    <3>3. QED BY <2>7, <3>1, <3>2
  <2>9. QED BY <1>0, <2>4, <2>5, <2>6, <2>8 DEF QueueInv, Round
<1>6. QED BY <1>3, <1>4, <1>5 DEF Replacement!FIFOPageReplacement

\* One turn of LRU: the page overwritten was referenced before all that stay.
LEMMA StampStep ==
    ASSUME PagingInv, StampInv, Replacement!LRUPageReplacement
    PROVE  StampInv'
<1>0. /\ capacity \in Nat \ {0} /\ Len(frames) \in Nat /\ Len(frames) <= capacity
      /\ i \in Nat /\ i \in 1 .. REFERENCES /\ REFERENCES \in Nat /\ algo = 2
      /\ last_used \in Seq(Nat) /\ Len(last_used) = Len(frames)
      /\ frames \in Seq(Int) /\ Distinct(frames)
  BY MemoryAssumption DEF PagingInv, Distinct, Replacement!LRUPageReplacement
<1>1. i' = i + 1 /\ capacity' = capacity /\ pages' = pages
  BY DEF Replacement!LRUPageReplacement, Replacement!LRUHit, Replacement!LRUFill,
     Replacement!LRUReplace, Replacement!Turn, Replacement!SelectInSeq
<1>2. PICK x : x = pages[i]
  OBVIOUS
<1>3. x \in Int
  BY <1>0, <1>2 DEF PagingInv
<1>4. PICK len : len = Len(frames)
  OBVIOUS
<1>5. /\ len \in Nat /\ len <= capacity
      /\ \A j \in 1 .. len :
            /\ last_used[j] \in 1 .. i - 1 /\ pages[last_used[j]] = frames[j]
            /\ \A m \in last_used[j] + 1 .. i - 1 : pages[m] # frames[j]
      /\ \A m \in 1 .. i - 1 :
            pages[m] \notin Img(frames) => len = capacity /\ \A j \in 1 .. len : m < last_used[j]
  BY <1>0, <1>4 DEF StampInv
<1>6. \A j \in 1 .. len : last_used[j] \in Nat /\ last_used[j] < i /\ frames[j] \in Img(frames)
  <2> SUFFICES ASSUME NEW j \in 1 .. len
               PROVE  last_used[j] \in Nat /\ last_used[j] < i /\ frames[j] \in Img(frames)
    OBVIOUS
  <2>1. last_used[j] \in 1 .. i - 1
    BY <1>5
  <2>2. last_used[j] \in Nat /\ last_used[j] < i
    BY <1>0, <2>1
  <2>3. frames[j] \in Img(frames)
    BY <1>4 DEF Img
  <2>4. QED BY <2>2, <2>3
<1>7. \A j, k \in 1 .. len : frames[j] = frames[k] => j = k
  BY <1>0, <1>4 DEF Distinct
<1>8. ASSUME NEW j \in 1 .. len, frames[j] # x
      PROVE  /\ last_used[j] \in 1 .. i /\ pages[last_used[j]] = frames[j]
             /\ \A m \in last_used[j] + 1 .. i : pages[m] # frames[j]
  <2>1. last_used[j] \in 1 .. i
    BY <1>0, <1>5
  <2>2. ASSUME NEW m \in last_used[j] + 1 .. i PROVE pages[m] # frames[j]
    <3>1. m = i \/ m \in last_used[j] + 1 .. i - 1
      BY <1>0, <2>1
    <3>2. QED BY <1>2, <1>5, <1>8, <3>1
  <2>3. QED BY <1>5, <2>1, <2>2
<1>9. CASE Replacement!LRUHit
  <2>1. PICK p \in 1 .. len : frames[p] = x /\ last_used' = [last_used EXCEPT ![p] = i]
    BY <1>2, <1>4, <1>9, HitStamped
  <2>2. frames' = frames
    BY <1>9 DEF Replacement!LRUHit, Replacement!SelectInSeq
  <2>3. last_used'[p] = i /\ \A j \in 1 .. len : j # p => last_used'[j] = last_used[j]
    BY <1>0, <1>4, <2>1
  <2>4. \A j \in 1 .. len : j # p => frames[j] # x
    BY <1>7, <2>1
  <2>5. ASSUME NEW j \in 1 .. len
        PROVE  /\ last_used'[j] \in 1 .. i /\ pages[last_used'[j]] = frames[j]
               /\ \A m \in last_used'[j] + 1 .. i : pages[m] # frames[j]
    <3>1. CASE j = p
      BY <1>0, <1>2, <2>1, <2>3, <3>1
    <3>2. CASE j # p
      <4>1. last_used'[j] = last_used[j] /\ frames[j] # x
        BY <2>3, <2>4, <3>2
      <4>2. QED BY <1>8, <4>1
    <3>3. QED BY <3>1, <3>2
  <2>6. ASSUME NEW m \in 1 .. i, pages[m] \notin Img(frames)
        PROVE  len = capacity /\ \A j \in 1 .. len : m < last_used'[j]
    <3>1. m # i
      BY <1>2, <1>6, <2>1, <2>6
    <3>2. m \in 1 .. i - 1
      BY <1>0, <3>1
    <3>3. len = capacity /\ \A j \in 1 .. len : m < last_used[j]
      BY <1>5, <2>6, <3>2
    <3>4. \A j \in 1 .. len : m < last_used'[j]
      BY <1>0, <2>3, <3>2, <3>3
    <3>5. QED BY <3>3, <3>4
  <2>7. i' - 1 = i
    BY <1>0, <1>1
  <2>8. QED BY <1>1, <1>4, <2>2, <2>5, <2>6, <2>7 DEF StampInv, Img
<1>10. CASE Replacement!LRUFill
  <2>1. /\ frames' = Append(frames, x) /\ last_used' = Append(last_used, i) /\ len < capacity
        /\ x \notin Img(frames)
    BY <1>2, <1>4, <1>10 DEF Replacement!LRUFill, Replacement!page, Replacement!Free,
       Replacement!isPagePresent, Img
  <2>2. /\ Len(frames') = len + 1 /\ frames'[len + 1] = x /\ last_used'[len + 1] = i
        /\ \A j \in 1 .. len : frames'[j] = frames[j] /\ last_used'[j] = last_used[j]
    BY <1>0, <1>3, <1>4, <2>1
  <2>3. ASSUME NEW j \in 1 .. len + 1
        PROVE  /\ last_used'[j] \in 1 .. i /\ pages[last_used'[j]] = frames'[j]
               /\ \A m \in last_used'[j] + 1 .. i : pages[m] # frames'[j]
    <3>1. CASE j = len + 1
      BY <1>0, <1>2, <2>2, <3>1
    <3>2. CASE j \in 1 .. len
      <4>1. frames[j] # x
        BY <1>6, <2>1, <3>2
      <4>2. QED BY <1>8, <2>2, <3>2, <4>1
    <3>3. QED BY <1>5, <3>1, <3>2
  <2>4. ASSUME NEW m \in 1 .. i PROVE \E j \in 1 .. len + 1 : pages[m] = frames'[j]
    <3>1. CASE m = i
      BY <1>2, <1>5, <2>2, <3>1
    <3>2. CASE m # i
      <4>1. m \in 1 .. i - 1
        BY <1>0, <3>2
      <4>2. pages[m] \in Img(frames)
        BY <1>0, <1>5, <2>1, <4>1
      <4>3. PICK j \in 1 .. len : pages[m] = frames[j]
        BY <1>4, <4>2 DEF Img
      <4>4. QED BY <1>5, <2>2, <4>3
    <3>3. QED BY <3>1, <3>2
  <2>5. i' - 1 = i
    BY <1>0, <1>1
  <2>6. QED BY <1>1, <2>2, <2>3, <2>4, <2>5 DEF StampInv, Img
<1>11. CASE Replacement!LRUReplace
  <2>1. len = capacity /\ x \notin Img(frames)
    BY <1>0, <1>2, <1>4, <1>5, <1>11 DEF Replacement!LRUReplace, Replacement!page, Replacement!Free,
       Replacement!isPagePresent, Img
  <2>2. PICK p : p = Replacement!lru_idx
    OBVIOUS
  <2>3. p \in 1 .. len /\ \A k \in 1 .. len : last_used[p] <= last_used[k]
    BY <1>0, <1>4, <2>1, <2>2, LeastUsed
  <2>4. frames' = [frames EXCEPT ![p] = x] /\ last_used' = [last_used EXCEPT ![p] = i]
    BY <1>2, <1>11, <2>2 DEF Replacement!LRUReplace, Replacement!page
  <2>5. /\ Len(frames') = len /\ frames'[p] = x /\ last_used'[p] = i
        /\ \A j \in 1 .. len : j # p => frames'[j] = frames[j] /\ last_used'[j] = last_used[j]
    BY <1>0, <1>3, <1>4, <2>3, <2>4
  <2>6. ASSUME NEW j \in 1 .. len
        PROVE  /\ last_used'[j] \in 1 .. i /\ pages[last_used'[j]] = frames'[j]
               /\ \A m \in last_used'[j] + 1 .. i : pages[m] # frames'[j]
    <3>1. CASE j = p
      BY <1>0, <1>2, <2>5, <3>1
    <3>2. CASE j # p
      <4>1. frames[j] # x
        BY <1>6, <2>1
      <4>2. QED BY <1>8, <2>5, <3>2, <4>1
    <3>3. QED BY <3>1, <3>2
  <2>7. ASSUME NEW m \in 1 .. i, \A j \in 1 .. len : pages[m] # frames'[j]
        PROVE  len = capacity /\ \A j \in 1 .. len : m < last_used'[j]
    <3>1. m # i
      BY <1>2, <2>3, <2>5, <2>7
    <3>2. m \in 1 .. i - 1 /\ m < i
      BY <1>0, <3>1
    <3>3. ASSUME NEW j \in 1 .. len, j # p PROVE m < last_used[j]
      <4>1. CASE pages[m] \notin Img(frames)
        BY <1>5, <3>2, <4>1
      <4>2. CASE pages[m] \in Img(frames)
        <5>1. pages[m] = frames[p]
          BY <1>4, <2>5, <2>7, <4>2 DEF Img
        <5>2. m <= last_used[p]
          <6>1. last_used[p] \in Nat /\ m \in Nat
            BY <1>6, <2>3, <3>2
          <6>2. last_used[p] + 1 <= m => m \in last_used[p] + 1 .. i - 1
            BY <1>0, <3>2, <6>1
          <6>3. ~(last_used[p] + 1 <= m)
            BY <1>5, <2>3, <5>1, <6>2
          <6>4. QED BY <6>1, <6>3
        <5>3. frames[j] # frames[p]
          BY <1>7, <2>3, <3>3
        <5>4. last_used[p] # last_used[j]
          BY <1>5, <2>3, <5>3
        <5>5. QED BY <1>6, <2>3, <3>2, <5>2, <5>4
      <4>3. QED BY <4>1, <4>2
    <3>4. QED BY <2>1, <2>5, <3>2, <3>3
  <2>8. i' - 1 = i
    BY <1>0, <1>1
  <2>9. QED BY <1>1, <2>5, <2>6, <2>7, <2>8 DEF StampInv, Img
<1>12. QED BY <1>9, <1>10, <1>11 DEF Replacement!LRUPageReplacement

LEMMA ResidentStep ==
    PagingInv /\ ResidentInv /\ [Replacement!Next]_replacementVars => ResidentInv'
<1> SUFFICES ASSUME PagingInv, ResidentInv, [Replacement!Next]_replacementVars PROVE ResidentInv'
  OBVIOUS
<1>1. CASE UNCHANGED replacementVars
  BY <1>1 DEF replacementVars, ResidentInv, QueueInv, StampInv, Round, Img
<1>2. CASE Replacement!FIFOPageReplacement
  <2>1. algo = 1 /\ algo' = algo
    BY <1>2 DEF Replacement!FIFOPageReplacement, Replacement!FIFOHit, Replacement!FIFOFill,
       Replacement!FIFOReplace, Replacement!Turn
  <2>2. QueueInv'
    BY <1>2, <2>1, QueueStep DEF ResidentInv
  <2>3. QED BY <2>1, <2>2 DEF ResidentInv
<1>3. CASE Replacement!LRUPageReplacement
  <2>1. algo = 2 /\ algo' = algo
    BY <1>3 DEF Replacement!LRUPageReplacement, Replacement!LRUHit, Replacement!LRUFill,
       Replacement!LRUReplace, Replacement!Turn, Replacement!SelectInSeq
  <2>2. StampInv'
    BY <1>3, <2>1, StampStep DEF ResidentInv
  <2>3. QED BY <2>1, <2>2 DEF ResidentInv
<1>4. CASE Replacement!optimalPageReplacement
  <2>1. algo = 3 /\ algo' = algo
    BY <1>4 DEF Replacement!optimalPageReplacement, Replacement!optimalHit,
       Replacement!optimalFill, Replacement!optimalReplace, Replacement!Turn
  <2>2. QED BY <2>1 DEF ResidentInv
<1>5. CASE Replacement!NextAlgorithm
  <2>1. algo \in 1 .. 4 /\ algo' = algo + 1 /\ i' = 1 /\ frames' = <<>>
    BY <1>5 DEF Replacement!NextAlgorithm, PagingInv
  <2>2. algo' # 1 /\ Len(frames') = 0 /\ i' - 1 = 0
    BY <2>1
  <2>3. StampInv'
    BY <2>2 DEF StampInv
  <2>4. QED BY <2>2, <2>3 DEF ResidentInv
<1>6. QED BY <1>1, <1>2, <1>3, <1>4, <1>5 DEF Replacement!Next

\* For every string of references and every number of frames, what FIFO keeps in its
\* ring of frames is the pages brought in last, and what LRU keeps by its stamps the
\* pages referenced last.
THEOREM PagesKept == MCSpec => []ResidentPages
<1> DEFINE I == program = "replacement" => PagingInv /\ ResidentInv
<1>1. MCInit => I
  <2> SUFFICES ASSUME MCInit, program = "replacement" PROVE PagingInv /\ ResidentInv
    OBVIOUS
  <2>1. Replacement!Init
    BY DEF MCInit
  <2>2. algo = 1 /\ frames = <<>> /\ head = 0 /\ loads = <<>>
    BY <2>1 DEF Replacement!Init, Replacement!initFIFOQueue
  <2>3. PagingInv
    BY <2>1, PagingStart
  <2>4. capacity \in Nat \ {0}
    BY <2>3 DEF PagingInv
  <2>5. QueueInv
    BY <2>2, <2>4 DEF QueueInv
  <2>6. QED BY <2>2, <2>3, <2>5 DEF ResidentInv
<1>2. I /\ [MCNext]_allVars => I'
  <2> SUFFICES ASSUME I, [MCNext]_allVars PROVE I'
    OBVIOUS
  <2>1. program' = program
    BY DEF MCNext, allVars
  <2>2. program = "replacement" => [Replacement!Next]_replacementVars
    BY DEF MCNext, allVars
  <2>3. QED BY <2>1, <2>2, PagingStep, ResidentStep
<1>3. I => ResidentPages
  BY QueueExact, StampsExact DEF ResidentPages, ResidentInv, Replacement!ReplacementExact
<1>4. QED BY <1>1, <1>2, <1>3, PTL DEF MCSpec

-----------------------------------------------------------------------------
(* Memory_Pool.c: the free list threads through the blocks nobody holds *)

LEMMA PoolCardinality == \A S : Pool!Cardinality(S) = Cardinality(S)
BY DEF Pool!Cardinality, Cardinality

PoolBlocks == {b * POOL_BLOCK_SIZE : b \in 0 .. BLOCKS - 1}

\* q lists the blocks nobody holds in the order of the free list.
Threads(q) ==
    /\ q \in [0 .. pool_count - 1 -> PoolBlocks]
    /\ \A k, l \in 0 .. pool_count - 1 : q[k] = q[l] => k = l
    /\ \A k \in 0 .. pool_count - 1 : q[k] \notin given
    /\ \A x \in PoolBlocks \ given : \E k \in 0 .. pool_count - 1 : x = q[k]
    /\ pool_list = IF pool_count = 0 THEN -1 ELSE q[0]
    /\ \A k \in 0 .. pool_count - 1 : word[q[k]] = IF k = pool_count - 1 THEN -1 ELSE q[k + 1]

PoolInv ==
    /\ crashed = FALSE /\ pool_count \in Nat
    /\ word \in [Pool!PoolAddresses -> Int]
    /\ given \subseteq PoolBlocks /\ IsFiniteSet(given)
    /\ Cardinality(given) + pool_count = BLOCKS
    /\ \E q : Threads(q)

LEMMA PoolBlockFacts ==
    /\ PoolBlocks \subseteq Pool!PoolAddresses
    /\ PoolBlocks \subseteq Nat
    /\ \A b, c \in 0 .. BLOCKS - 1 : b * POOL_BLOCK_SIZE = c * POOL_BLOCK_SIZE => b = c
<1>0. PICK S, N : S = POOL_BLOCK_SIZE /\ N = BLOCKS
  OBVIOUS
<1>1. S \in Nat \ {0} /\ N \in Nat \ {0}
  BY <1>0, MemoryAssumption
<1>2. \A b \in 0 .. N - 1 : b * S \in 0 .. S * N - 1
  <2> SUFFICES ASSUME NEW b \in 0 .. N - 1 PROVE b * S \in 0 .. S * N - 1
    OBVIOUS
  <2>1. PICK d \in Nat : N = b + 1 + d
    <3>1. N - b - 1 \in Nat /\ N = b + 1 + (N - b - 1)
      BY <1>1
    <3>2. QED BY <3>1
  <2>2. b \in Nat /\ b * S \in Nat /\ d * S \in Nat
    BY <1>1
  <2>3. S * N = b * S + S + d * S
    BY <1>1, <2>1, <2>2
  <2>4. S * N \in Nat
    BY <1>1
  <2>5. QED BY <1>1, <2>2, <2>3, <2>4
<1>3. \A b, c \in 0 .. N - 1 : b * S = c * S => b = c
  <2> SUFFICES ASSUME NEW b \in 0 .. N - 1, NEW c \in 0 .. N - 1, b < c PROVE b * S # c * S
    BY <1>1
  <2>1. PICK d \in Nat : c = b + 1 + d
    <3>1. c - b - 1 \in Nat /\ c = b + 1 + (c - b - 1)
      BY <1>1
    <3>2. QED BY <3>1
  <2>2. b \in Nat /\ b * S \in Nat /\ d * S \in Nat
    BY <1>1
  <2>3. c * S = b * S + S + d * S
    BY <1>1, <2>1, <2>2
  <2>4. QED BY <1>1, <2>2, <2>3
<1>4. PoolBlocks = {b * S : b \in 0 .. N - 1} /\ Pool!PoolAddresses = 0 .. S * N - 1
  BY <1>0 DEF PoolBlocks, Pool!PoolAddresses
<1>5. PoolBlocks \subseteq 0 .. S * N - 1
  BY <1>2, <1>4
<1>6. PoolBlocks \subseteq Nat
  BY <1>1, <1>5
<1>7. QED BY <1>0, <1>3, <1>4, <1>5, <1>6

\* While the list threads the free blocks, a walk along it meets them all and ends.
LEMMA ThreadsWalked ==
    ASSUME PoolInv
    PROVE  Pool!PoolSound
<1>0. BLOCKS \in Nat \ {0} /\ pool_count \in Nat /\ Cardinality(given) \in Nat
      /\ pool_count <= BLOCKS /\ Cardinality(given) + pool_count = BLOCKS
  <2>1. IsFiniteSet(given) /\ Cardinality(given) + pool_count = BLOCKS /\ pool_count \in Nat
    BY DEF PoolInv
  <2>2. PICK G : G = given
    OBVIOUS
  <2>3. Cardinality(given) \in Nat
    BY <2>1, <2>2, FS_CardinalityType
  <2>4. QED BY <2>1, <2>3, MemoryAssumption
<1>1. PICK q : Threads(q)
  BY DEF PoolInv
<1>2. PICK n : n = pool_count
  OBVIOUS
<1> DEFINE W(t) == t = [k \in 0 .. BLOCKS |->
                           IF k = 0 THEN pool_list
                           ELSE IF t[k - 1] \in Pool!PoolAddresses THEN word[t[k - 1]] ELSE -1]
<1>3. /\ n \in Nat /\ n <= BLOCKS
      /\ \A k \in 0 .. n - 1 : q[k] \in PoolBlocks /\ q[k] \in Pool!PoolAddresses
      /\ pool_list = IF n = 0 THEN -1 ELSE q[0]
      /\ \A k \in 0 .. n - 1 : word[q[k]] = IF k = n - 1 THEN -1 ELSE q[k + 1]
      /\ -1 \notin Pool!PoolAddresses
  <2>1. \A k \in 0 .. n - 1 : q[k] \in PoolBlocks
    BY <1>1, <1>2 DEF Threads
  <2>2. -1 \notin Pool!PoolAddresses
    BY MemoryAssumption DEF Pool!PoolAddresses
  <2>3. \A k \in 0 .. n - 1 : q[k] \in Pool!PoolAddresses
    BY <2>1, PoolBlockFacts
  <2>4. /\ pool_list = IF n = 0 THEN -1 ELSE q[0]
        /\ \A k \in 0 .. n - 1 : word[q[k]] = IF k = n - 1 THEN -1 ELSE q[k + 1]
    BY <1>1, <1>2 DEF Threads
  <2>5. QED BY <1>0, <1>2, <2>1, <2>2, <2>3, <2>4
<1>4. PICK u : u = [k \in 0 .. BLOCKS |-> IF k < n THEN q[k] ELSE -1]
  OBVIOUS
<1>5. \A k \in 0 .. BLOCKS :
         u[k] = IF k = 0 THEN pool_list
                ELSE IF u[k - 1] \in Pool!PoolAddresses THEN word[u[k - 1]] ELSE -1
  <2> SUFFICES ASSUME NEW k \in 0 .. BLOCKS
               PROVE  u[k] = IF k = 0 THEN pool_list
                             ELSE IF u[k - 1] \in Pool!PoolAddresses THEN word[u[k - 1]] ELSE -1
    OBVIOUS
  <2>1. CASE k = 0
    BY <1>0, <1>3, <1>4, <2>1
  <2>2. CASE k # 0
    <3>1. k - 1 \in 0 .. BLOCKS /\ k - 1 + 1 = k
      BY <1>0, <2>2
    <3>2. CASE k - 1 < n
      <4>1. k - 1 \in 0 .. n - 1 /\ (k - 1 = n - 1 <=> ~(k < n))
        BY <1>3, <3>1, <3>2, <2>2
      <4>2. u[k - 1] = q[k - 1] /\ u[k] = IF k < n THEN q[k] ELSE -1
        BY <1>4, <3>1, <3>2
      <4>3. word[q[k - 1]] = IF k - 1 = n - 1 THEN -1 ELSE q[k]
        BY <1>3, <3>1, <4>1
      <4>4. q[k - 1] \in Pool!PoolAddresses
        BY <1>3, <4>1
      <4>5. QED BY <2>2, <4>1, <4>2, <4>3, <4>4
    <3>3. CASE ~(k - 1 < n)
      <4>1. u[k - 1] = -1 /\ u[k] = -1
        BY <1>3, <1>4, <3>1, <3>3
      <4>2. QED BY <1>3, <2>2, <4>1
    <3>4. QED BY <3>2, <3>3
  <2>3. QED BY <2>1, <2>2
<1>6. W(u)
  BY <1>4, <1>5
<1>7. PICK t : t = CHOOSE x : W(x)
  OBVIOUS
<1>8. W(t)
  BY <1>6, <1>7
<1>9. Pool!PoolWalk = t
  BY <1>7 DEF Pool!PoolWalk, Pool!NullPtr
<1>10. \A k \in 0 .. BLOCKS : t[k] = u[k]
  <2>1. PICK T : T = {k \in 0 .. BLOCKS : t[k] # u[k]}
    OBVIOUS
  <2> SUFFICES ASSUME T # {} PROVE FALSE
    BY <2>1
  <2>2. T \subseteq Nat
    BY <1>0, <2>1
  <2>3. PICK k \in T : \A l \in T : k <= l
    BY <2>2, LeastNatural
  <2>4. k \in 0 .. BLOCKS /\ t[k] # u[k]
    BY <2>1, <2>3
  <2>5. t[k] = IF k = 0 THEN pool_list
               ELSE IF t[k - 1] \in Pool!PoolAddresses THEN word[t[k - 1]] ELSE -1
    BY <1>8, <2>4
  <2>6. k # 0 => k - 1 \in 0 .. BLOCKS /\ ~(k <= k - 1)
    BY <1>0, <2>4
  <2>7. k # 0 => t[k - 1] = u[k - 1]
    BY <2>1, <2>3, <2>6
  <2>8. QED BY <1>5, <2>4, <2>5, <2>7
<1>11. \A k \in 0 .. n - 1 : k \in 0 .. BLOCKS /\ k < n
  BY <1>0, <1>3
<1>12. \A k \in 0 .. n - 1 : t[k] = q[k]
  BY <1>4, <1>10, <1>11
<1>13. t[n] = -1
  BY <1>0, <1>3, <1>4, <1>10
<1>14. {t[k] : k \in 0 .. n - 1} = PoolBlocks \ given
  <2>1. \A k \in 0 .. n - 1 : q[k] \in PoolBlocks \ given
    BY <1>1, <1>2, <1>3 DEF Threads
  <2>2. \A x \in PoolBlocks \ given : \E k \in 0 .. n - 1 : x = q[k]
    BY <1>1, <1>2 DEF Threads
  <2>3. QED BY <1>12, <2>1, <2>2
<1>15. ~crashed
  BY DEF PoolInv
<1>16. {Pool!PoolWalk[k] : k \in 0 .. pool_count - 1} = PoolBlocks \ given
  BY <1>2, <1>9, <1>14
<1>17. Pool!PoolWalk[pool_count] = -1
  BY <1>2, <1>9, <1>13
<1>18. QED BY <1>0, <1>15, <1>16, <1>17, PoolCardinality
           DEF Pool!PoolSound, PoolBlocks, Pool!NullPtr

LEMMA PoolStart == Pool!Init => PoolInv
<1> SUFFICES ASSUME Pool!Init PROVE PoolInv
  OBVIOUS
<1>0. POOL_BLOCK_SIZE \in Nat \ {0} /\ BLOCKS \in Nat \ {0}
  BY MemoryAssumption
<1>1. PICK S, N : S = POOL_BLOCK_SIZE /\ N = BLOCKS
  OBVIOUS
<1>2. /\ word = Pool!Linked(S) /\ pool_list = 0 /\ pool_count = N /\ given = {}
      /\ crashed = FALSE
  BY <1>1 DEF Pool!Init, Pool!pool_init, Pool!BlockSize
<1>3. S \in Nat \ {0} /\ N \in Nat \ {0}
  BY <1>0, <1>1
<1>4. \A b, c \in 0 .. N - 1 : b * S = c * S => b = c
  BY <1>1, PoolBlockFacts
<1>5. \A b \in 0 .. N - 1 : b * S \in PoolBlocks /\ b * S \in Pool!PoolAddresses
  BY <1>1, PoolBlockFacts DEF PoolBlocks
<1>6. word = [a \in Pool!PoolAddresses |->
                CASE a = (N - 1) * S -> -1
                  [] \E b \in 0 .. N - 2 : a = b * S -> a + S
                  [] OTHER -> -2]
  BY <1>1, <1>2 DEF Pool!Linked, Pool!NullPtr, Pool!Data
<1>7. word \in [Pool!PoolAddresses -> Int]
  <2>1. ASSUME NEW a \in Pool!PoolAddresses
        PROVE  (CASE a = (N - 1) * S -> -1
                  [] \E b \in 0 .. N - 2 : a = b * S -> a + S
                  [] OTHER -> -2) \in Int
    <3>1. a \in Int /\ a + S \in Int
      BY <1>3 DEF Pool!PoolAddresses
    <3>2. QED BY <3>1
  <2>2. QED BY <1>6, <2>1
<1>8. PICK q : q = [k \in 0 .. N - 1 |-> k * S]
  OBVIOUS
<1>9. ASSUME NEW k \in 0 .. N - 1
      PROVE  word[q[k]] = IF k = N - 1 THEN -1 ELSE q[k + 1]
  <2>1. CASE k = N - 1
    <3>1. q[k] = (N - 1) * S /\ q[k] \in Pool!PoolAddresses
      BY <1>5, <1>8, <2>1
    <3>2. \A b \in 0 .. N - 2 : b * S # (N - 1) * S
      BY <1>3, <1>4
    <3>3. word[q[k]] = -1
      BY <1>6, <3>1, <3>2
    <3>4. QED BY <2>1, <3>3
  <2>2. CASE k # N - 1
    <3>1. k \in 0 .. N - 2 /\ k + 1 \in 0 .. N - 1 /\ N - 1 \in 0 .. N - 1
      BY <1>3, <2>2
    <3>2. q[k] = k * S /\ q[k] \in Pool!PoolAddresses /\ q[k] # (N - 1) * S
      BY <1>4, <1>5, <1>8, <2>2, <3>1
    <3>3. word[q[k]] = k * S + S
      BY <1>6, <3>1, <3>2
    <3>4. (k + 1) * S = k * S + S
      BY <1>3
    <3>5. QED BY <1>8, <2>2, <3>1, <3>3, <3>4
  <2>3. QED BY <2>1, <2>2
<1>10. q[0] = 0
  <2>1. 0 \in 0 .. N - 1 /\ 0 * S = 0
    BY <1>3
  <2>2. QED BY <1>8, <2>1
<1>11. Threads(q)
  <2>1. q \in [0 .. N - 1 -> PoolBlocks]
    BY <1>5, <1>8
  <2>2. \A k, l \in 0 .. N - 1 : q[k] = q[l] => k = l
    BY <1>4, <1>8
  <2>3. \A x \in PoolBlocks : \E k \in 0 .. N - 1 : x = q[k]
    BY <1>1, <1>8 DEF PoolBlocks
  <2>4. N # 0
    BY <1>3
  <2>5. QED BY <1>2, <1>9, <1>10, <2>1, <2>2, <2>3, <2>4 DEF Threads
<1>12. IsFiniteSet(given) /\ Cardinality(given) = 0
  BY <1>2, FS_EmptySet
<1>13. Cardinality(given) + pool_count = BLOCKS /\ pool_count \in Nat
  BY <1>1, <1>2, <1>3, <1>12
<1>14. QED BY <1>2, <1>7, <1>11, <1>12, <1>13 DEF PoolInv

\* Taking the first block of the list, putting one back in front of it, and whatever a
\* client writes into a block it holds leave a list of the blocks nobody holds.
LEMMA PoolStep == PoolInv /\ [Pool!Next]_poolVars => PoolInv'
<1> SUFFICES ASSUME PoolInv, [Pool!Next]_poolVars PROVE PoolInv'
  OBVIOUS
<1>0. /\ crashed = FALSE /\ pool_count \in Nat /\ word \in [Pool!PoolAddresses -> Int]
      /\ given \subseteq PoolBlocks /\ IsFiniteSet(given)
      /\ Cardinality(given) + pool_count = BLOCKS
      /\ PoolBlocks \subseteq Pool!PoolAddresses /\ PoolBlocks \subseteq Nat
  BY PoolBlockFacts DEF PoolInv
<1>1. PICK q : Threads(q)
  BY DEF PoolInv
<1>2. PICK n, G : n = pool_count /\ G = given
  OBVIOUS
<1>3. /\ n \in Nat /\ q \in [0 .. n - 1 -> PoolBlocks]
      /\ \A k, l \in 0 .. n - 1 : q[k] = q[l] => k = l
      /\ \A k \in 0 .. n - 1 : q[k] \notin G
      /\ \A x \in PoolBlocks \ G : \E k \in 0 .. n - 1 : x = q[k]
      /\ pool_list = IF n = 0 THEN -1 ELSE q[0]
      /\ \A k \in 0 .. n - 1 : word[q[k]] = IF k = n - 1 THEN -1 ELSE q[k + 1]
  BY <1>0, <1>1, <1>2 DEF Threads
<1>4. IsFiniteSet(G) /\ Cardinality(G) \in Nat /\ Cardinality(G) + n = BLOCKS /\ G \subseteq PoolBlocks
  BY <1>0, <1>2, FS_CardinalityType
<1>5. CASE UNCHANGED poolVars
  BY <1>5 DEF poolVars, PoolInv, Threads, Pool!PoolAddresses
<1>6. CASE Pool!pool_alloc
  <2>1. n > 0 /\ n # 0
    BY <1>2, <1>3, <1>6 DEF Pool!pool_alloc
  <2>2. 0 \in 0 .. n - 1 /\ n - 1 \in Nat
    BY <1>3, <2>1
  <2>3. q[0] \in PoolBlocks /\ q[0] \notin G /\ pool_list = q[0] /\ pool_list # -1
    BY <1>0, <1>3, <2>1, <2>2
  <2>4. /\ given' = G \cup {q[0]} /\ pool_list' = word[q[0]] /\ pool_count' = n - 1
        /\ UNCHANGED <<word, crashed>>
    BY <1>2, <1>6, <2>3 DEF Pool!pool_alloc, Pool!NullPtr
  <2>5. PICK r : r = [k \in 0 .. n - 2 |-> q[k + 1]]
    OBVIOUS
  <2>6. \A k \in 0 .. n - 2 : k + 1 \in 0 .. n - 1 /\ r[k] = q[k + 1] /\ k + 1 # 0
    BY <1>3, <2>5
  <2>7. r \in [0 .. n - 2 -> PoolBlocks]
    BY <1>3, <2>5, <2>6
  <2>8. \A k, l \in 0 .. n - 2 : r[k] = r[l] => k = l
    <3> SUFFICES ASSUME NEW k \in 0 .. n - 2, NEW l \in 0 .. n - 2, r[k] = r[l] PROVE k = l
      OBVIOUS
    <3>1. k + 1 = l + 1
      BY <1>3, <2>6
    <3>2. QED BY <1>3, <3>1
  <2>9. \A k \in 0 .. n - 2 : r[k] \notin given'
    BY <1>3, <2>2, <2>4, <2>6
  <2>10. ASSUME NEW x \in PoolBlocks \ given' PROVE \E k \in 0 .. n - 2 : x = r[k]
    <3>1. PICK l \in 0 .. n - 1 : x = q[l]
      BY <1>3, <2>4
    <3>2. l # 0
      BY <2>4, <3>1
    <3>3. l - 1 \in 0 .. n - 2 /\ l - 1 + 1 = l
      BY <1>3, <3>2
    <3>4. QED BY <2>6, <3>1, <3>3
  <2>11. pool_list' = IF n - 1 = 0 THEN -1 ELSE r[0]
    <3>1. word[q[0]] = IF 0 = n - 1 THEN -1 ELSE q[0 + 1]
      BY <1>3, <2>2
    <3>2. n - 1 # 0 => 0 \in 0 .. n - 2
      BY <1>3, <2>1
    <3>3. QED BY <2>4, <2>6, <3>1, <3>2
  <2>12. \A k \in 0 .. n - 2 : word[r[k]] = IF k = n - 2 THEN -1 ELSE r[k + 1]
    <3> SUFFICES ASSUME NEW k \in 0 .. n - 2 PROVE word[r[k]] = IF k = n - 2 THEN -1 ELSE r[k + 1]
      OBVIOUS
    <3>1. word[q[k + 1]] = IF k + 1 = n - 1 THEN -1 ELSE q[k + 1 + 1]
      BY <1>3, <2>6
    <3>2. (k + 1 = n - 1 <=> k = n - 2) /\ (k # n - 2 => k + 1 \in 0 .. n - 2)
      BY <1>3
    <3>3. QED BY <2>6, <3>1, <3>2
  <2>13. n - 1 - 1 = n - 2
    BY <1>3
  <2>14. Threads(r)'
    BY <2>4, <2>7, <2>8, <2>9, <2>10, <2>11, <2>12, <2>13 DEF Threads
  <2>15. IsFiniteSet(G \cup {q[0]}) /\ Cardinality(G \cup {q[0]}) = Cardinality(G) + 1
    BY <1>4, <2>3, FS_AddElement
  <2>16. Cardinality(given') + pool_count' = BLOCKS /\ pool_count' \in Nat /\ IsFiniteSet(given')
    BY <1>3, <1>4, <2>2, <2>4, <2>15
  <2>17. given' \subseteq PoolBlocks
    BY <1>4, <2>3, <2>4
  <2>18. QED BY <1>0, <2>4, <2>14, <2>16, <2>17 DEF PoolInv, Pool!PoolAddresses
<1>7. ASSUME NEW b \in given, Pool!pool_free(b) PROVE PoolInv'
  <2>1. /\ word' = [word EXCEPT ![b] = pool_list] /\ pool_list' = b
        /\ pool_count' = n + 1 /\ given' = G \ {b} /\ UNCHANGED crashed /\ b \in G
    BY <1>2, <1>7 DEF Pool!pool_free
  <2>2. b \in PoolBlocks /\ b \in Pool!PoolAddresses
    BY <1>0, <1>4, <2>1
  <2>3. PICK r : r = [k \in 0 .. n |-> IF k = 0 THEN b ELSE q[k - 1]]
    OBVIOUS
  <2>4. r[0] = b /\ \A k \in 0 .. n : k # 0 => k - 1 \in 0 .. n - 1 /\ r[k] = q[k - 1]
    BY <1>3, <2>3
  <2>5. \A k \in 0 .. n - 1 : q[k] \in PoolBlocks /\ q[k] # b /\ q[k] \in Pool!PoolAddresses
    <3>1. \A k \in 0 .. n - 1 : q[k] \in PoolBlocks /\ q[k] \notin G
      BY <1>3
    <3>2. QED BY <1>0, <2>1, <3>1
  <2>6. r \in [0 .. n -> PoolBlocks]
    BY <1>3, <2>2, <2>3, <2>4
  <2>7. \A k, l \in 0 .. n : r[k] = r[l] => k = l
    <3> SUFFICES ASSUME NEW k \in 0 .. n, NEW l \in 0 .. n, r[k] = r[l] PROVE k = l
      OBVIOUS
    <3>1. k # 0 /\ l # 0 => k - 1 = l - 1
      BY <1>3, <2>4
    <3>2. k = 0 <=> l = 0
      BY <2>4, <2>5
    <3>3. QED BY <1>3, <3>1, <3>2
  <2>8. \A k \in 0 .. n : r[k] \notin given'
    BY <1>3, <2>1, <2>4
  <2>9. ASSUME NEW x \in PoolBlocks \ given' PROVE \E k \in 0 .. n : x = r[k]
    <3>1. CASE x = b
      BY <1>3, <2>4, <3>1
    <3>2. CASE x # b
      <4>1. PICK l \in 0 .. n - 1 : x = q[l]
        BY <1>3, <2>1, <3>2
      <4>2. l + 1 \in 0 .. n /\ l + 1 # 0 /\ l + 1 - 1 = l
        BY <1>3
      <4>3. QED BY <2>4, <4>1, <4>2
    <3>3. QED BY <3>1, <3>2
  <2>10. word'[b] = pool_list /\ \A k \in 0 .. n - 1 : word'[q[k]] = word[q[k]]
    BY <1>0, <2>1, <2>2, <2>5
  <2>11. \A k \in 0 .. n : word'[r[k]] = IF k = n THEN -1 ELSE r[k + 1]
    <3> SUFFICES ASSUME NEW k \in 0 .. n PROVE word'[r[k]] = IF k = n THEN -1 ELSE r[k + 1]
      OBVIOUS
    <3>1. k # n => k + 1 \in 0 .. n /\ k + 1 # 0 /\ r[k + 1] = q[k]
      <4>1. k # n => k + 1 \in 0 .. n /\ k + 1 # 0 /\ k + 1 - 1 = k
        BY <1>3
      <4>2. QED BY <2>4, <4>1
    <3>2. CASE k = 0
      BY <1>3, <2>4, <2>10, <3>1, <3>2
    <3>3. CASE k # 0
      <4>1. r[k] = q[k - 1] /\ k - 1 \in 0 .. n - 1 /\ k - 1 + 1 = k /\ (k - 1 = n - 1 <=> k = n)
        BY <1>3, <2>4, <3>3
      <4>2. word[q[k - 1]] = IF k - 1 = n - 1 THEN -1 ELSE q[k]
        BY <1>3, <4>1
      <4>3. QED BY <2>10, <3>1, <4>1, <4>2
    <3>4. QED BY <3>2, <3>3
  <2>12. pool_count' - 1 = n /\ pool_count' # 0
    BY <1>3, <2>1
  <2>13. Threads(r)'
    BY <2>1, <2>4, <2>6, <2>7, <2>8, <2>9, <2>11, <2>12 DEF Threads
  <2>14. IsFiniteSet(G \ {b}) /\ Cardinality(G \ {b}) = Cardinality(G) - 1
    BY <1>4, <2>1, FS_RemoveElement
  <2>15. Cardinality(given') + pool_count' = BLOCKS /\ pool_count' \in Nat /\ IsFiniteSet(given')
    BY <1>3, <1>4, <2>1, <2>14
  <2>16. pool_list \in Int
    BY <1>0, <1>3
  <2>17. word' \in [Pool!PoolAddresses -> Int]
    BY <1>0, <2>1, <2>2, <2>16
  <2>18. given' \subseteq PoolBlocks
    BY <1>4, <2>1
  <2>19. QED BY <1>0, <2>1, <2>13, <2>15, <2>17, <2>18 DEF PoolInv, Pool!PoolAddresses
<1>8. ASSUME NEW b \in given, Pool!ClientWrites(b) PROVE PoolInv'
  <2>1. word' = [word EXCEPT ![b] = -2] /\ UNCHANGED <<pool_list, pool_count, given, crashed>>
    BY <1>8 DEF Pool!ClientWrites, Pool!Data
  <2>2. b \in Pool!PoolAddresses /\ b \in G
    BY <1>0, <1>2
  <2>3. \A k \in 0 .. n - 1 : q[k] # b /\ q[k] \in Pool!PoolAddresses
    <3>1. \A k \in 0 .. n - 1 : q[k] \in PoolBlocks /\ q[k] \notin G
      BY <1>3
    <3>2. QED BY <1>0, <2>2, <3>1
  <2>4. \A k \in 0 .. n - 1 : word'[q[k]] = word[q[k]]
    BY <1>0, <2>1, <2>2, <2>3
  <2>5. word' \in [Pool!PoolAddresses -> Int]
    BY <1>0, <2>1, <2>2
  <2>6. Threads(q)'
    BY <1>1, <1>2, <2>1, <2>4 DEF Threads
  <2>7. QED BY <1>0, <2>1, <2>5, <2>6 DEF PoolInv, Pool!PoolAddresses
<1>9. QED BY <1>5, <1>6, <1>7, <1>8 DEF Pool!Next

-----------------------------------------------------------------------------
(* Memory_Allocation_Algo.c: one manager for each strategy *)

PartBlocks == [size : Nat, start_address : Nat, is_allocated : BOOLEAN]

\* The blocks of a manager lie end to end, all but the last one allocated.
Tiles(L) ==
    /\ L \in Seq(PartBlocks) /\ Len(L) >= 1
    /\ L[1].start_address = 0
    /\ \A b \in 1 .. Len(L) :
          L[b].start_address + L[b].size =
              IF b = Len(L) THEN PARTITION_MEMORY ELSE L[b + 1].start_address
    /\ \A b \in 1 .. Len(L) - 1 : L[b].is_allocated

Left(L) == IF L[Len(L)].is_allocated THEN 0 ELSE L[Len(L)].size

PartitionInv ==
    /\ \A s \in 1 .. 3 : Tiles(list[s]) /\ free_size[s] = Left(list[s])
    /\ list[1] = list[2]

LastFits(L, w) == ~L[Len(L)].is_allocated /\ L[Len(L)].size >= w

\* The only block a strategy can find is the last.
LEMMA LastCandidate ==
    ASSUME NEW L, Tiles(L), NEW w \in Nat
    PROVE  Partition!Candidates(L, w) = IF LastFits(L, w) THEN {Len(L)} ELSE {}
<1>0. Len(L) \in Nat /\ Len(L) >= 1
  BY DEF Tiles
<1>1. \A b \in 1 .. Len(L) : b # Len(L) => L[b].is_allocated
  <2> SUFFICES ASSUME NEW b \in 1 .. Len(L), b # Len(L) PROVE L[b].is_allocated
    OBVIOUS
  <2>1. b \in 1 .. Len(L) - 1
    BY <1>0
  <2>2. QED BY <2>1 DEF Tiles
<1>2. Len(L) \in 1 .. Len(L)
  BY <1>0
<1>3. \A b : b \in Partition!Candidates(L, w) <=> b = Len(L) /\ LastFits(L, w)
  BY <1>1, <1>2 DEF Partition!Candidates, LastFits
<1>4. QED BY <1>3

LEMMA StrategiesChoose ==
    ASSUME NEW L, Tiles(L), NEW w \in Nat \ {0}
    PROVE  /\ Partition!firstFit(L, w) = IF LastFits(L, w) THEN Len(L) ELSE 0
           /\ Partition!bestFit(L, w) = IF LastFits(L, w) THEN Len(L) ELSE 0
           /\ Partition!worstFit(L, w) # 0 => LastFits(L, w) /\ Partition!worstFit(L, w) = Len(L)
<1>0. Len(L) \in Nat /\ Len(L) >= 1 /\ Len(L) \in 1 .. Len(L)
  BY DEF Tiles
<1>1. PICK C, n : C = Partition!Candidates(L, w) /\ n = Len(L)
  OBVIOUS
<1>2. n \in Nat /\ n # 0 /\ C = IF LastFits(L, w) THEN {n} ELSE {}
  BY <1>0, <1>1, LastCandidate
<1>3. L[n].size \in Nat /\ L[n].size <= PARTITION_MEMORY /\ PARTITION_MEMORY \in Nat
  <2>1. L[n] \in PartBlocks
    BY <1>0, <1>1 DEF Tiles
  <2>2. L[n].start_address + L[n].size = PARTITION_MEMORY
    BY <1>0, <1>1 DEF Tiles
  <2>3. L[n].start_address \in Nat /\ L[n].size \in Nat
    BY <2>1 DEF PartBlocks
  <2>4. QED BY <2>2, <2>3, MemoryAssumption
<1>4. L[n].size - w < PARTITION_MEMORY
  BY <1>3
<1>5. Partition!First({n}) = n
  BY <1>2 DEF Partition!First
<1>6. Partition!firstFit(L, w) = IF LastFits(L, w) THEN n ELSE 0
  BY <1>1, <1>2, <1>5 DEF Partition!firstFit, Partition!NoBlock
<1>7. Partition!bestFit(L, w) = IF LastFits(L, w) THEN n ELSE 0
  <2>1. PICK fit : fit = {b \in C : L[b].size - w < PARTITION_MEMORY}
    OBVIOUS
  <2>2. fit = C
    BY <1>2, <1>4, <2>1
  <2>3. PICK best : best = {b \in fit : \A c \in fit : L[b].size <= L[c].size}
    OBVIOUS
  <2>4. best = C
    BY <1>2, <1>3, <2>2, <2>3
  <2>5. Partition!bestFit(L, w) = IF fit = {} THEN 0 ELSE Partition!First(best)
    BY <1>1, <2>1, <2>3 DEF Partition!bestFit, Partition!NoBlock
  <2>6. QED BY <1>2, <1>5, <2>2, <2>4, <2>5
<1>8. Partition!worstFit(L, w) # 0 => LastFits(L, w) /\ Partition!worstFit(L, w) = n
  <2>1. PICK fit : fit = {b \in C : L[b].size - w > 0}
    OBVIOUS
  <2>2. PICK best : best = {b \in fit : \A c \in fit : L[b].size >= L[c].size}
    OBVIOUS
  <2>3. Partition!worstFit(L, w) = IF fit = {} THEN 0 ELSE Partition!First(best)
    BY <1>1, <2>1, <2>2 DEF Partition!worstFit, Partition!NoBlock
  <2>4. fit # {} => LastFits(L, w) /\ fit = {n}
    BY <1>2, <2>1
  <2>5. fit # {} => best = {n}
    BY <1>3, <2>2, <2>4
  <2>6. QED BY <1>5, <2>3, <2>4, <2>5
<1>9. QED BY <1>1, <1>6, <1>7, <1>8

LEMMA InsertedLast ==
    ASSUME NEW S, NEW L \in Seq(S), NEW e \in S
    PROVE  Partition!InsertAt(L, Len(L) + 1, e) = Append(L, e)
<1>0. PICK n \in Nat : n = Len(L)
  OBVIOUS
<1>1. SubSeq(L, 1, n) = L
  BY <1>0
<1>2. SubSeq(L, n + 1, n) = <<>>
  BY <1>0
<1>3. PICK M : M = L \o <<e>>
  OBVIOUS
<1>4. M \in Seq(S) /\ M = Append(L, e)
  BY <1>3
<1>5. M \o <<>> = M
  BY <1>4
<1>6. Partition!InsertAt(L, n + 1, e) = SubSeq(L, 1, n + 1 - 1) \o <<e>> \o SubSeq(L, n + 1, n)
  BY <1>0 DEF Partition!InsertAt
<1>7. n + 1 - 1 = n
  BY <1>0
<1>8. QED BY <1>0, <1>1, <1>2, <1>3, <1>4, <1>5, <1>6, <1>7

\* Taking the last block, whole or in part, keeps the blocks end to end.
LEMMA TakenTiles ==
    ASSUME NEW L, Tiles(L), NEW w \in Nat, LastFits(L, w), NEW M,
           M = Partition!Taken(L, Len(L), w)
    PROVE  Tiles(M) /\ Left(M) = Left(L) - M[Len(L)].size
<1>0. PICK n \in Nat \ {0} : n = Len(L)
  BY DEF Tiles
<1>1. /\ L \in Seq(PartBlocks) /\ n \in 1 .. n /\ L[1].start_address = 0
      /\ \A b \in 1 .. n : L[b] \in PartBlocks
      /\ \A b \in 1 .. n : L[b].start_address + L[b].size =
              IF b = n THEN PARTITION_MEMORY ELSE L[b + 1].start_address
      /\ \A b \in 1 .. n - 1 : L[b].is_allocated
      /\ ~L[n].is_allocated /\ L[n].size >= w
  BY <1>0 DEF Tiles, LastFits
<1>2. \A b \in 1 .. n : /\ L[b].size \in Nat /\ L[b].start_address \in Nat
                        /\ L[b].is_allocated \in BOOLEAN
  BY <1>1 DEF PartBlocks
<1>3. MIN_PARTITION_SIZE \in Nat
  BY MemoryAssumption
<1>4. Left(L) = L[n].size
  BY <1>0, <1>1 DEF Left
<1>5. CASE L[n].size > w + MIN_PARTITION_SIZE
  <2>1. PICK x : x = [size |-> w, start_address |-> L[n].start_address, is_allocated |-> TRUE]
    OBVIOUS
  <2>2. PICK e : e = [size |-> L[n].size - w, start_address |-> L[n].start_address + w,
                      is_allocated |-> FALSE]
    OBVIOUS
  <2>3. PICK K : K = [L EXCEPT ![n].size = w, ![n].is_allocated = TRUE]
    OBVIOUS
  <2>4. x \in PartBlocks /\ e \in PartBlocks
    BY <1>1, <1>2, <2>1, <2>2 DEF PartBlocks
  <2>5. K = [L EXCEPT ![n] = x]
    <3>1. [[L[n] EXCEPT !.size = w] EXCEPT !.is_allocated = TRUE] = x
      <4>1. PICK y : y = L[n]
        OBVIOUS
      <4>2. y \in [size : Nat, start_address : Nat, is_allocated : BOOLEAN]
        BY <1>1, <4>1 DEF PartBlocks
      <4>3. PICK z : z = [[y EXCEPT !.size = w] EXCEPT !.is_allocated = TRUE]
        OBVIOUS
      <4>4. /\ z \in [size : Nat, start_address : Nat, is_allocated : BOOLEAN]
            /\ z.size = w /\ z.start_address = y.start_address /\ z.is_allocated = TRUE
        BY <4>2, <4>3
      <4>5. z = [size |-> z.size, start_address |-> z.start_address, is_allocated |-> z.is_allocated]
        BY <4>4
      <4>6. QED BY <2>1, <4>1, <4>3, <4>4, <4>5
    <3>2. QED BY <1>0, <1>1, <2>3, <3>1
  <2>6. K \in Seq(PartBlocks) /\ Len(K) = n /\ K[n] = x /\ \A b \in 1 .. n - 1 : K[b] = L[b]
    BY <1>0, <1>1, <2>4, <2>5
  <2>7. M = Partition!InsertAt(K, n + 1, e)
    BY <1>0, <1>5, <2>2, <2>3 DEF Partition!Taken
  <2>8. M = Append(K, e)
    BY <2>4, <2>6, <2>7, InsertedLast
  <2>9. /\ M \in Seq(PartBlocks) /\ Len(M) = n + 1 /\ M[n + 1] = e /\ M[n] = x
        /\ \A b \in 1 .. n - 1 : M[b] = L[b]
    BY <2>4, <2>6, <2>8
  <2>10. /\ M[n].size = w /\ M[n].start_address = L[n].start_address /\ M[n].is_allocated
         /\ M[n + 1].size = L[n].size - w /\ M[n + 1].start_address = L[n].start_address + w
         /\ ~M[n + 1].is_allocated
    BY <2>1, <2>2, <2>9
  <2>11. \A b \in 1 .. n : M[b].start_address = L[b].start_address
    BY <2>9, <2>10
  <2>12. ASSUME NEW b \in 1 .. n + 1
         PROVE  M[b].start_address + M[b].size =
                  IF b = n + 1 THEN PARTITION_MEMORY ELSE M[b + 1].start_address
    <3>1. CASE b = n + 1
      <4>1. L[n].start_address + L[n].size = PARTITION_MEMORY
        BY <1>1
      <4>2. QED BY <1>1, <1>2, <2>10, <3>1, <4>1
    <3>2. CASE b = n
      BY <2>10, <3>2
    <3>3. CASE b \in 1 .. n - 1
      <4>1. b \in 1 .. n /\ b # n /\ b # n + 1 /\ b + 1 \in 1 .. n
        BY <3>3
      <4>2. L[b].start_address + L[b].size = L[b + 1].start_address
        BY <1>1, <4>1
      <4>3. QED BY <2>9, <2>11, <3>3, <4>1, <4>2
    <3>4. QED BY <3>1, <3>2, <3>3
  <2>13. \A b \in 1 .. n : M[b].is_allocated
    BY <1>1, <2>9, <2>10
  <2>14. M[1].start_address = 0 /\ n + 1 - 1 = n /\ n + 1 >= 1
    BY <1>1, <2>11
  <2>15. Tiles(M)
    BY <2>9, <2>12, <2>13, <2>14 DEF Tiles
  <2>16. Left(M) = L[n].size - w
    BY <2>9, <2>10 DEF Left
  <2>17. QED BY <1>0, <1>4, <2>10, <2>15, <2>16
<1>6. CASE ~(L[n].size > w + MIN_PARTITION_SIZE)
  <2>1. PICK x : x = [L[n] EXCEPT !.is_allocated = TRUE]
    OBVIOUS
  <2>2. x \in PartBlocks /\ x.size = L[n].size /\ x.start_address = L[n].start_address /\ x.is_allocated
    BY <1>1, <2>1 DEF PartBlocks
  <2>3. M = [L EXCEPT ![n] = x]
    BY <1>0, <1>1, <1>6, <2>1 DEF Partition!Taken
  <2>4. M \in Seq(PartBlocks) /\ Len(M) = n /\ M[n] = x /\ \A b \in 1 .. n - 1 : M[b] = L[b]
    BY <1>0, <1>1, <2>2, <2>3
  <2>5. \A b \in 1 .. n : M[b].start_address = L[b].start_address /\ M[b].size = L[b].size
    BY <2>2, <2>4
  <2>6. ASSUME NEW b \in 1 .. n
        PROVE  M[b].start_address + M[b].size =
                 IF b = n THEN PARTITION_MEMORY ELSE M[b + 1].start_address
    <3>1. b # n => b + 1 \in 1 .. n
      OBVIOUS
    <3>2. QED BY <1>1, <2>5, <3>1
  <2>7. Tiles(M)
    BY <1>1, <2>4, <2>5, <2>6 DEF Tiles
  <2>8. Left(M) = 0 /\ M[n].size = L[n].size
    BY <2>2, <2>4 DEF Left
  <2>9. QED BY <1>0, <1>1, <1>2, <1>4, <2>7, <2>8
<1>7. QED BY <1>5, <1>6

LEMMA PartitionStart == Partition!Init => PartitionInv
<1> SUFFICES ASSUME Partition!Init PROVE PartitionInv
  OBVIOUS
<1>1. PICK L : L = <<[size |-> PARTITION_MEMORY, start_address |-> 0, is_allocated |-> FALSE]>>
  OBVIOUS
<1>2. \A s \in 1 .. 3 : list[s] = L /\ free_size[s] = PARTITION_MEMORY
  BY <1>1 DEF Partition!Init, Partition!initMemoryManager, Partition!Strategies
<1>3. PARTITION_MEMORY \in Nat
  BY MemoryAssumption
<1>4. Len(L) = 1 /\ L \in Seq(PartBlocks)
  BY <1>1, <1>3 DEF PartBlocks
<1>5. L[1].start_address = 0 /\ L[1].size = PARTITION_MEMORY /\ ~L[1].is_allocated
  BY <1>1
<1>6. Tiles(L) /\ Left(L) = PARTITION_MEMORY
  BY <1>3, <1>4, <1>5 DEF Tiles, Left
<1>7. QED BY <1>2, <1>6 DEF PartitionInv

LEMMA PartitionStep == PartitionInv /\ [Partition!Next]_partitionVars => PartitionInv'
<1> SUFFICES ASSUME PartitionInv, [Partition!Next]_partitionVars PROVE PartitionInv'
  OBVIOUS
<1>1. CASE UNCHANGED partitionVars
  BY <1>1 DEF partitionVars, PartitionInv, Tiles, Left
<1>2. ASSUME NEW w \in REQUESTS, Partition!allocMemory(w) PROVE PartitionInv'
  <2>0. w \in Nat /\ MIN_PARTITION_SIZE \in Nat \ {0}
    BY <1>2, MemoryAssumption
  <2>1. \A s \in 1 .. 3 : Tiles(list[s]) /\ free_size[s] = Left(list[s])
    BY DEF PartitionInv
  <2>2. \A s \in 1 .. 3 : list'[s] = IF Partition!Refused(s, w) THEN list[s]
                                     ELSE Partition!Taken(list[s], Partition!Selected(s, w), w)
    BY <1>2 DEF Partition!allocMemory, Partition!Strategies
  <2>3. \A s \in 1 .. 3 : free_size'[s] = IF Partition!Refused(s, w) THEN free_size[s]
                                          ELSE free_size[s] - list'[s][Partition!Selected(s, w)].size
    BY <1>2 DEF Partition!allocMemory, Partition!Strategies
  <2>4. /\ Partition!Selected(1, w) = Partition!firstFit(list[1], w)
        /\ Partition!Selected(2, w) = Partition!bestFit(list[2], w)
        /\ Partition!Selected(3, w) = Partition!worstFit(list[3], w)
    BY DEF Partition!Selected
  <2>5. ASSUME NEW s \in 1 .. 3, ~Partition!Refused(s, w)
        PROVE  LastFits(list[s], w) /\ Partition!Selected(s, w) = Len(list[s])
    <3>1. w \in Nat \ {0} /\ Partition!Selected(s, w) # 0
      BY <2>0, <2>5 DEF Partition!Refused, Partition!NoBlock
    <3>2. s = 1 \/ s = 2 \/ s = 3
      OBVIOUS
    <3>3. QED BY <2>1, <2>4, <3>1, <3>2, StrategiesChoose
  <2>6. ASSUME NEW s \in 1 .. 3 PROVE Tiles(list'[s]) /\ free_size'[s] = Left(list'[s])
    <3>1. CASE Partition!Refused(s, w)
      BY <2>1, <2>2, <2>3, <3>1
    <3>2. CASE ~Partition!Refused(s, w)
      <4>1. PICK L, M : L = list[s] /\ M = list'[s]
        OBVIOUS
      <4>2. Tiles(L) /\ LastFits(L, w) /\ M = Partition!Taken(L, Len(L), w)
        BY <2>1, <2>2, <2>5, <3>2, <4>1
      <4>3. Tiles(M) /\ Left(M) = Left(L) - M[Len(L)].size
        BY <2>0, <4>2, TakenTiles
      <4>4. free_size'[s] = Left(L) - M[Len(L)].size
        BY <2>1, <2>3, <2>5, <3>2, <4>1
      <4>5. QED BY <4>1, <4>3, <4>4
    <3>3. QED BY <3>1, <3>2
  <2>7. list'[1] = list'[2]
    <3>1. list[1] = list[2] /\ free_size[1] = free_size[2]
      BY <2>1 DEF PartitionInv
    <3>2. w \in Nat \ {0} => Partition!Selected(1, w) = Partition!Selected(2, w)
      BY <2>1, <2>4, <3>1, StrategiesChoose
    <3>3. ~(w \in Nat \ {0}) => Partition!Refused(1, w) /\ Partition!Refused(2, w)
      BY <2>0 DEF Partition!Refused
    <3>4. w \in Nat \ {0} => (Partition!Refused(1, w) <=> Partition!Refused(2, w))
      BY <3>1, <3>2 DEF Partition!Refused
    <3>5. QED BY <2>2, <3>1, <3>2, <3>3, <3>4
  <2>8. QED BY <2>6, <2>7 DEF PartitionInv, Tiles, Left
<1>3. QED BY <1>1, <1>2 DEF Partition!Next

LEMMA PartitionsTile == PartitionInv => Partition!PartitionsSound
<1> SUFFICES ASSUME PartitionInv PROVE Partition!PartitionsSound
  OBVIOUS
<1>1. ASSUME NEW s \in 1 .. 3
      PROVE  /\ list[s][1].start_address = 0
             /\ \A b \in 1 .. Len(list[s]) :
                   list[s][b].start_address + list[s][b].size =
                       IF b = Len(list[s]) THEN PARTITION_MEMORY ELSE list[s][b + 1].start_address
             /\ \A b \in 1 .. Len(list[s]) - 1 : list[s][b].is_allocated
             /\ free_size[s] = IF list[s][Len(list[s])].is_allocated THEN 0
                               ELSE list[s][Len(list[s])].size
  BY DEF PartitionInv, Tiles, Left
<1>2. list[1] = list[2]
  BY DEF PartitionInv
<1>3. QED BY <1>1, <1>2 DEF Partition!PartitionsSound, Partition!Strategies

-----------------------------------------------------------------------------
(* Memory_Allocators.c: the table of fixed blocks and the list of variable ones *)

LEMMA SimpleCardinality == \A S : Simple!Cardinality(S) = Cardinality(S)
BY DEF Simple!Cardinality, Cardinality

FixedInv ==
    /\ is_allocated \subseteq 0 .. BLOCKS - 1 /\ IsFiniteSet(is_allocated)
    /\ free_blocks = BLOCKS - Cardinality(is_allocated)

LEMMA FixedStep == FixedInv /\ Simple!Next => FixedInv'
<1> SUFFICES ASSUME FixedInv, Simple!Next PROVE FixedInv'
  OBVIOUS
<1>0. BLOCKS \in Nat
  BY MemoryAssumption
<1>1. PICK A : A = is_allocated
  OBVIOUS
<1>2. /\ A \subseteq 0 .. BLOCKS - 1 /\ IsFiniteSet(A) /\ Cardinality(A) \in Nat
      /\ free_blocks = BLOCKS - Cardinality(A)
  BY <1>1, FS_CardinalityType DEF FixedInv
<1>3. CASE UNCHANGED <<is_allocated, free_blocks>>
  BY <1>3 DEF FixedInv
<1>4. CASE Simple!AllocateFirst
  <2>1. PICK U : U = (0 .. BLOCKS - 1) \ A
    OBVIOUS
  <2>2. U \subseteq Nat /\ U # {}
    <3>1. A # 0 .. BLOCKS - 1
      BY <1>1, <1>4 DEF Simple!AllocateFirst, Simple!BlockNums
    <3>2. U # {}
      BY <1>2, <2>1, <3>1
    <3>3. 0 .. BLOCKS - 1 \subseteq Nat
      BY <1>0
    <3>4. QED BY <2>1, <3>2, <3>3
  <2>3. \E x \in U : \A y \in U : x <= y
    BY <2>2, LeastNatural
  <2>4. PICK m : m = Simple!Min(U)
    OBVIOUS
  <2>5. m \in U
    BY <2>3, <2>4 DEF Simple!Min
  <2>6. is_allocated' = A \cup {m} /\ free_blocks' = free_blocks - 1
    BY <1>1, <1>4, <2>1, <2>4 DEF Simple!AllocateFirst, Simple!BlockNums
  <2>7. m \notin A /\ m \in 0 .. BLOCKS - 1
    BY <2>1, <2>5
  <2>8. IsFiniteSet(A \cup {m}) /\ Cardinality(A \cup {m}) = Cardinality(A) + 1
    BY <1>2, <2>7, FS_AddElement
  <2>9. free_blocks' = BLOCKS - Cardinality(is_allocated')
    BY <1>0, <1>2, <2>6, <2>8
  <2>10. QED BY <1>2, <2>6, <2>7, <2>8, <2>9 DEF FixedInv
<1>5. ASSUME NEW p, Simple!freeFixedBlock(p), ~UNCHANGED <<is_allocated, free_blocks>>
      PROVE  FixedInv'
  <2>1. PICK m : m = Simple!idx(p)
    OBVIOUS
  <2>2. m \in A /\ is_allocated' = A \ {m} /\ free_blocks' = free_blocks + 1
    BY <1>1, <1>5, <2>1 DEF Simple!freeFixedBlock, Simple!fixedVars
  <2>3. IsFiniteSet(A \ {m}) /\ Cardinality(A \ {m}) = Cardinality(A) - 1
    BY <1>2, <2>2, FS_RemoveElement
  <2>4. free_blocks' = BLOCKS - Cardinality(is_allocated')
    BY <1>0, <1>2, <2>2, <2>3
  <2>5. QED BY <1>2, <2>2, <2>3, <2>4 DEF FixedInv
<1>6. QED BY <1>3, <1>4, <1>5 DEF Simple!Next, Simple!allocateFixedBlock, Simple!AllocateNone,
           Simple!fixedVars

VarBlocks == [size : Nat, is_allocated : BOOLEAN, next : Int, prev : Int]
VarEnd(h, b) == b + HEADER + h[b].size

\* The headers of h lie end to end over the memory, linked both ways in that order.
VarList(h) ==
    /\ h \in [DOMAIN h -> VarBlocks]
    /\ DOMAIN h \subseteq 0 .. VARIABLE_SIZE - 1 /\ 0 \in DOMAIN h
    /\ \A b \in DOMAIN h : h[b].next = -1 => VarEnd(h, b) = VARIABLE_SIZE
    /\ \A b \in DOMAIN h : h[b].next # -1 =>
          h[b].next \in DOMAIN h /\ h[b].next = VarEnd(h, b) /\ h[h[b].next].prev = b
    /\ h[0].prev = -1
    /\ \A b \in DOMAIN h : b # 0 => h[b].prev \in DOMAIN h /\ h[h[b].prev].next = b
    /\ \A b, c \in DOMAIN h : b < c => VarEnd(h, b) <= c

LEMMA VarFacts ==
    ASSUME NEW h, VarList(h), NEW b \in DOMAIN h
    PROVE  /\ b \in Nat /\ h[b].size \in Nat /\ HEADER \in Nat \ {0} /\ VARIABLE_SIZE \in Nat
           /\ h[b] \in VarBlocks /\ h[b].next \in Int /\ h[b].prev \in Int
           /\ VarEnd(h, b) \in Nat /\ b < VarEnd(h, b) /\ VarEnd(h, b) <= VARIABLE_SIZE
<1>1. HEADER \in Nat \ {0} /\ VARIABLE_SIZE \in Nat
  BY MemoryAssumption, FirstFitAssumption
<1>2. b \in 0 .. VARIABLE_SIZE - 1 /\ h[b] \in VarBlocks
  BY DEF VarList
<1>3. b \in Nat /\ h[b].size \in Nat /\ h[b].next \in Int /\ h[b].prev \in Int
  BY <1>1, <1>2 DEF VarBlocks
<1>4. VarEnd(h, b) \in Nat /\ b < VarEnd(h, b)
  BY <1>1, <1>3 DEF VarEnd
<1>5. h[b].next # -1 => h[b].next \in 0 .. VARIABLE_SIZE - 1 /\ h[b].next = VarEnd(h, b)
  BY DEF VarList
<1>6. VarEnd(h, b) <= VARIABLE_SIZE
  <2>1. CASE h[b].next = -1
    BY <1>1, <2>1 DEF VarList
  <2>2. CASE h[b].next # -1
    BY <1>1, <1>5, <2>2
  <2>3. QED BY <2>1, <2>2
<1>7. QED BY <1>1, <1>2, <1>3, <1>4, <1>6

\* What a walk from free_list meets.
LEMMA VarWalked ==
    ASSUME NEW h, VarList(h), NEW t, IsWalk(t, h, VARIABLE_SIZE)
    PROVE  /\ \A k \in 0 .. VARIABLE_SIZE : t[k] \in DOMAIN h \cup {-1}
           /\ \A b \in DOMAIN h : \E k \in 0 .. VARIABLE_SIZE : t[k] = b
           /\ \A k \in 0 .. VARIABLE_SIZE : t[k] # -1 =>
                 h[t[k]].prev = IF k = 0 THEN -1 ELSE t[k - 1]
<1>0. PICK N \in Nat : N = VARIABLE_SIZE
  BY MemoryAssumption
<1>1. \A k \in 0 .. N : t[k] = IF k = 0 THEN 0 ELSE IF t[k - 1] = -1 THEN -1 ELSE h[t[k - 1]].next
  BY <1>0 DEF IsWalk, NULL
<1>2. PICK D : D = DOMAIN h
  OBVIOUS
<1>3. D \subseteq 0 .. N - 1 /\ 0 \in D /\ D \subseteq Nat /\ -1 \notin D
  BY <1>0, <1>2 DEF VarList
<1>4. \A k \in 0 .. N : t[k] \in D \cup {-1}
  <2>1. PICK T : T = {k \in 0 .. N : t[k] \notin D \cup {-1}}
    OBVIOUS
  <2> SUFFICES ASSUME T # {} PROVE FALSE
    BY <2>1
  <2>2. T \subseteq Nat
    BY <2>1
  <2>3. PICK k \in T : \A m \in T : k <= m
    BY <2>2, LeastNatural
  <2>4. k \in 0 .. N /\ t[k] \notin D \cup {-1}
    BY <2>1, <2>3
  <2>5. k # 0
    BY <1>1, <1>3, <2>4
  <2>6. k - 1 \in 0 .. N /\ ~(k <= k - 1)
    BY <2>4, <2>5
  <2>7. t[k - 1] \in D \cup {-1}
    BY <2>1, <2>3, <2>6
  <2>8. t[k] = IF t[k - 1] = -1 THEN -1 ELSE h[t[k - 1]].next
    BY <1>1, <2>4, <2>5
  <2>9. \A b \in D : h[b].next # -1 => h[b].next \in D
    BY <1>2 DEF VarList
  <2>10. QED BY <2>4, <2>7, <2>8, <2>9
<1>5. \A b \in D : \E k \in 0 .. b : t[k] = b
  <2>1. PICK T : T = {b \in D : ~ \E k \in 0 .. b : t[k] = b}
    OBVIOUS
  <2> SUFFICES ASSUME T # {} PROVE FALSE
    BY <2>1
  <2>2. T \subseteq Nat
    BY <1>3, <2>1
  <2>3. PICK b \in T : \A m \in T : b <= m
    BY <2>2, LeastNatural
  <2>4. b \in D /\ b \in 0 .. N - 1 /\ ~ \E k \in 0 .. b : t[k] = b
    BY <1>3, <2>1, <2>3
  <2>5. b # 0
    BY <1>0, <1>1, <2>4
  <2>6. PICK c : c = h[b].prev
    OBVIOUS
  <2>7. c \in D /\ h[c].next = b
    BY <1>2, <2>4, <2>5, <2>6 DEF VarList
  <2>8. c \in Nat /\ b \in Nat /\ b # -1 /\ c # -1
    BY <1>3, <2>4, <2>7
  <2>9. b = VarEnd(h, c)
    BY <1>2, <2>7, <2>8 DEF VarList
  <2>10. c < b
    BY <1>2, <2>7, <2>9, VarFacts
  <2>11. ~(b <= c)
    BY <2>8, <2>10
  <2>12. PICK k \in 0 .. c : t[k] = c
    BY <2>1, <2>3, <2>7, <2>11
  <2>13. k + 1 \in 0 .. b /\ k + 1 \in 0 .. N /\ k + 1 # 0 /\ k + 1 - 1 = k
    BY <1>0, <2>4, <2>8, <2>10, <2>12
  <2>14. t[k + 1] = b
    BY <1>1, <2>7, <2>8, <2>12, <2>13
  <2>15. QED BY <2>4, <2>13, <2>14
<1>6. \A b \in D : \E k \in 0 .. N : t[k] = b
  <2> SUFFICES ASSUME NEW b \in D PROVE \E k \in 0 .. N : t[k] = b
    OBVIOUS
  <2>1. PICK k \in 0 .. b : t[k] = b
    BY <1>5
  <2>2. b \in 0 .. N - 1
    BY <1>3
  <2>3. k \in 0 .. N
    BY <1>0, <2>2
  <2>4. QED BY <2>1, <2>3
<1>7. ASSUME NEW k \in 0 .. N, t[k] # -1
      PROVE  h[t[k]].prev = IF k = 0 THEN -1 ELSE t[k - 1]
  <2>1. CASE k = 0
    BY <1>1, <2>1 DEF VarList
  <2>2. CASE k # 0
    <3>1. k - 1 \in 0 .. N
      BY <2>2
    <3>2. t[k] = IF t[k - 1] = -1 THEN -1 ELSE h[t[k - 1]].next
      BY <1>1, <2>2
    <3>3. PICK c : c = t[k - 1]
      OBVIOUS
    <3>4. c \in D /\ h[c].next = t[k] /\ h[c].next # -1
      BY <1>4, <1>7, <3>1, <3>2, <3>3
    <3>5. h[h[c].next].prev = c
      BY <1>2, <3>4 DEF VarList
    <3>6. QED BY <2>2, <3>3, <3>4, <3>5
  <2>3. QED BY <2>1, <2>2
<1>8. QED BY <1>0, <1>2, <1>4, <1>6, <1>7

LEMMA VarWalk == IsWalk(Simple!Walk, variable_list, VARIABLE_SIZE)
<1>0. VARIABLE_SIZE \in Nat
  BY MemoryAssumption
<1>1. PICK t : t = CHOOSE x : IsWalk(x, variable_list, VARIABLE_SIZE)
  OBVIOUS
<1>2. IsWalk(t, variable_list, VARIABLE_SIZE)
  BY <1>0, <1>1, WalkExists
<1>3. Simple!Walk = t
  BY <1>1 DEF Simple!Walk, Simple!NULL, IsWalk, NULL
<1>4. QED BY <1>2, <1>3

LEMMA ListTiled == VarList(variable_list) => Simple!VariableTiled
<1> SUFFICES ASSUME VarList(variable_list) PROVE Simple!VariableTiled
  OBVIOUS
<1>1. PICK t, h : t = Simple!Walk /\ h = variable_list
  OBVIOUS
<1>2. VarList(h) /\ IsWalk(t, h, VARIABLE_SIZE)
  BY <1>1, VarWalk
<1>3. /\ \A k \in 0 .. VARIABLE_SIZE : t[k] \in DOMAIN h \cup {-1}
      /\ \A b \in DOMAIN h : \E k \in 0 .. VARIABLE_SIZE : t[k] = b
      /\ \A k \in 0 .. VARIABLE_SIZE : t[k] # -1 =>
            h[t[k]].prev = IF k = 0 THEN -1 ELSE t[k - 1]
  BY <1>2, VarWalked
<1>4. PICK met : met = {k \in 0 .. VARIABLE_SIZE : t[k] # -1}
  OBVIOUS
<1>5. \A b \in DOMAIN h : b # -1
  BY <1>2, VarFacts
<1>6. {t[k] : k \in met} = DOMAIN h
  BY <1>3, <1>4, <1>5
<1>7. ASSUME NEW k \in met
      PROVE  /\ t[k] + HEADER + h[t[k]].size =
                   IF h[t[k]].next = -1 THEN VARIABLE_SIZE ELSE h[t[k]].next
             /\ h[t[k]].prev = IF k = 0 THEN -1 ELSE t[k - 1]
  <2>1. t[k] \in DOMAIN h
    BY <1>3, <1>4
  <2>2. VarEnd(h, t[k]) = IF h[t[k]].next = -1 THEN VARIABLE_SIZE ELSE h[t[k]].next
    BY <1>2, <2>1 DEF VarList
  <2>3. QED BY <1>3, <1>4, <2>2 DEF VarEnd
<1>8. QED BY <1>1, <1>4, <1>6, <1>7 DEF Simple!VariableTiled, Simple!NULL

\* Handing out a whole block changes its flag only.
LEMMA VarFlagged ==
    ASSUME NEW h, VarList(h), NEW b \in DOMAIN h, NEW g, g = [h EXCEPT ![b].is_allocated = TRUE]
    PROVE  VarList(g)
<1>1. h \in [DOMAIN h -> VarBlocks] /\ h[b] \in VarBlocks
  BY DEF VarList
<1>2. PICK x : x = [h[b] EXCEPT !.is_allocated = TRUE]
  OBVIOUS
<1>3. x \in VarBlocks /\ x.size = h[b].size /\ x.next = h[b].next /\ x.prev = h[b].prev
  BY <1>1, <1>2 DEF VarBlocks
<1>4. g = [h EXCEPT ![b] = x]
  BY <1>1, <1>2
<1>5. DOMAIN g = DOMAIN h /\ g \in [DOMAIN g -> VarBlocks]
  BY <1>1, <1>3, <1>4
<1>6. \A a \in DOMAIN h : g[a].size = h[a].size /\ g[a].next = h[a].next /\ g[a].prev = h[a].prev
  BY <1>1, <1>3, <1>4
<1>7. \A a \in DOMAIN h : VarEnd(g, a) = VarEnd(h, a)
  BY <1>6 DEF VarEnd
<1>8. 0 \in DOMAIN h /\ DOMAIN h \subseteq 0 .. VARIABLE_SIZE - 1 /\ h[0].prev = -1
  BY DEF VarList
<1>9. ASSUME NEW a \in DOMAIN h, g[a].next # -1
      PROVE  g[a].next \in DOMAIN h /\ g[a].next = VarEnd(g, a) /\ g[g[a].next].prev = a
  <2>1. h[a].next \in DOMAIN h /\ h[a].next = VarEnd(h, a) /\ h[h[a].next].prev = a
    BY <1>6, <1>9 DEF VarList
  <2>2. QED BY <1>6, <1>7, <2>1
<1>10. ASSUME NEW a \in DOMAIN h, a # 0
       PROVE  g[a].prev \in DOMAIN h /\ g[g[a].prev].next = a
  <2>1. h[a].prev \in DOMAIN h /\ h[h[a].prev].next = a
    BY <1>10 DEF VarList
  <2>2. QED BY <1>6, <2>1
<1>11. \A a \in DOMAIN h : g[a].next = -1 => VarEnd(g, a) = VARIABLE_SIZE
  BY <1>6, <1>7 DEF VarList
<1>12. \A a, c \in DOMAIN h : a < c => VarEnd(g, a) <= c
  BY <1>7 DEF VarList
<1>13. g[0].prev = -1
  BY <1>6, <1>8
<1>14. QED BY <1>5, <1>8, <1>9, <1>10, <1>11, <1>12, <1>13 DEF VarList

\* What SplitOff does to any list.
VarSplit(h, b, w) ==
    LET new == b + HEADER + w
    IN  [a \in DOMAIN h \cup {new} |->
            CASE a = new -> [size |-> h[b].size - w - HEADER, is_allocated |-> FALSE,
                             next |-> h[b].next, prev |-> b]
              [] a = b -> [h[b] EXCEPT !.size = w, !.next = new, !.is_allocated = TRUE]
              [] a = h[b].next -> [h[a] EXCEPT !.prev = new]
              [] OTHER -> h[a]]

\* The rest of a block that is split off becomes a block of its own.
LEMMA VarSplitOff ==
    ASSUME NEW h, VarList(h), NEW b \in DOMAIN h, NEW w \in Nat, h[b].size > w + HEADER,
           NEW g, g = VarSplit(h, b, w)
    PROVE  VarList(g)
<1>0. PICK N \in Nat : N = VARIABLE_SIZE
  BY MemoryAssumption
<1>1. PICK D, E : D = DOMAIN h /\ E = VarEnd(h, b)
  OBVIOUS
<1>2. PICK new, after, len : new = b + HEADER + w /\ after = h[b].next /\ len = h[b].size
  OBVIOUS
<1>3. /\ b \in Nat /\ len \in Nat /\ HEADER \in Nat \ {0} /\ after \in Int /\ h[b] \in VarBlocks
      /\ E \in Nat /\ E <= N /\ E = b + HEADER + len /\ len > w + HEADER /\ h[b].prev \in Int
  BY <1>0, <1>1, <1>2, VarFacts DEF VarEnd
<1>4. new \in Nat /\ b < new /\ new < E /\ new \in 0 .. N - 1 /\ new # -1 /\ new # b /\ new # 0
  BY <1>0, <1>2, <1>3
<1>5. D \subseteq 0 .. N - 1 /\ 0 \in D /\ D \subseteq Nat /\ -1 \notin D /\ b \in D
  BY <1>0, <1>1 DEF VarList
<1>6. \A x \in D : /\ h[x] \in VarBlocks /\ h[x].size \in Nat /\ h[x].next \in Int
                   /\ h[x].prev \in Int /\ VarEnd(h, x) \in Nat
  BY <1>1, VarFacts
<1>7. \A x, y \in D : x < y => VarEnd(h, x) <= y
  BY <1>1 DEF VarList
<1>8. new \notin D
  <2>1. ASSUME new \in D PROVE FALSE
    <3>1. E <= new
      BY <1>1, <1>4, <1>5, <1>7, <2>1
    <3>2. QED BY <1>3, <1>4, <3>1
  <2>2. QED BY <2>1
<1>9. /\ after = -1 => E = N
      /\ after # -1 => after \in D /\ after = E /\ h[after].prev = b /\ after # b /\ after # 0
                       /\ after # new
  <2>1. after = -1 => E = N
    BY <1>0, <1>1, <1>2 DEF VarList
  <2>2. after # -1 => after \in D /\ after = E /\ h[after].prev = b
    BY <1>1, <1>2 DEF VarList
  <2>3. QED BY <1>3, <1>4, <2>1, <2>2
<1>10. g = [a \in D \cup {new} |->
            CASE a = new -> [size |-> len - w - HEADER, is_allocated |-> FALSE,
                             next |-> after, prev |-> b]
              [] a = b -> [h[b] EXCEPT !.size = w, !.next = new, !.is_allocated = TRUE]
              [] a = after -> [h[a] EXCEPT !.prev = new]
              [] OTHER -> h[a]]
  BY <1>1, <1>2 DEF VarSplit
<1>11. PICK rest, cut : /\ rest = [size |-> len - w - HEADER, is_allocated |-> FALSE,
                                   next |-> after, prev |-> b]
                        /\ cut = [h[b] EXCEPT !.size = w, !.next = new, !.is_allocated = TRUE]
  OBVIOUS
<1>12. /\ rest \in VarBlocks /\ rest.size = len - w - HEADER /\ rest.next = after /\ rest.prev = b
  BY <1>3, <1>11 DEF VarBlocks
<1>13. cut \in VarBlocks /\ cut.size = w /\ cut.next = new /\ cut.prev = h[b].prev
  <2>1. PICK y : y = h[b]
    OBVIOUS
  <2>2. y \in [size : Nat, is_allocated : BOOLEAN, next : Int, prev : Int] /\ new \in Int
    BY <1>3, <1>4, <2>1 DEF VarBlocks
  <2>3. cut = [[[y EXCEPT !.size = w] EXCEPT !.next = new] EXCEPT !.is_allocated = TRUE]
    BY <1>11, <2>1
  <2>4. /\ cut \in [size : Nat, is_allocated : BOOLEAN, next : Int, prev : Int]
        /\ cut.size = w /\ cut.next = new /\ cut.prev = y.prev
    BY <2>2, <2>3
  <2>5. QED BY <2>1, <2>4 DEF VarBlocks
<1>14. DOMAIN g = D \cup {new} /\ g[new] = rest /\ g[b] = cut
  <2>1. DOMAIN g = D \cup {new}
    BY <1>10
  <2>2. g[new] = rest
    <3>1. new \in D \cup {new} /\ new # b /\ new # after
      BY <1>4, <1>9
    <3>2. QED BY <1>10, <1>11, <3>1
  <2>3. g[b] = cut
    <3>1. b \in D \cup {new} /\ b # new /\ b # after
      BY <1>4, <1>5, <1>9
    <3>2. QED BY <1>10, <1>11, <3>1
  <2>4. QED BY <2>1, <2>2, <2>3
<1>15. ASSUME NEW x \in D, x # b
       PROVE  /\ g[x] \in VarBlocks /\ g[x].size = h[x].size /\ g[x].next = h[x].next
              /\ g[x].prev = IF x = after THEN new ELSE h[x].prev
  <2>1. x # new /\ h[x] \in VarBlocks
    BY <1>6, <1>8
  <2>2. CASE x = after
    <3>1. g[x] = [h[x] EXCEPT !.prev = new]
      BY <1>10, <1>15, <2>1, <2>2
    <3>2. QED BY <1>4, <2>1, <2>2, <3>1 DEF VarBlocks
  <2>3. CASE x # after
    <3>1. g[x] = h[x]
      BY <1>10, <1>15, <2>1, <2>3
    <3>2. QED BY <2>1, <2>3, <3>1
  <2>4. QED BY <2>2, <2>3
<1>16. /\ g[new].next = after /\ g[new].prev = b /\ g[b].next = new /\ g[b].prev = h[b].prev
       /\ VarEnd(g, new) = E /\ VarEnd(g, b) = new
       /\ \A x \in D : x # b => VarEnd(g, x) = VarEnd(h, x)
  <2>1. VarEnd(g, new) = E
    BY <1>2, <1>3, <1>4, <1>12, <1>14 DEF VarEnd
  <2>2. VarEnd(g, b) = new
    BY <1>2, <1>13, <1>14 DEF VarEnd
  <2>3. \A x \in D : x # b => VarEnd(g, x) = VarEnd(h, x)
    BY <1>15 DEF VarEnd
  <2>4. QED BY <1>12, <1>13, <1>14, <2>1, <2>2, <2>3
<1>17. g \in [D \cup {new} -> VarBlocks]
  <2>1. \A x \in D \cup {new} : g[x] \in VarBlocks
    BY <1>12, <1>13, <1>14, <1>15
  <2>2. g = [x \in D \cup {new} |-> g[x]]
    BY <1>10
  <2>3. QED BY <2>1, <2>2
<1>18. ASSUME NEW x \in D \cup {new}, g[x].next = -1 PROVE VarEnd(g, x) = N
  <2>1. CASE x = new
    BY <1>9, <1>16, <1>18, <2>1
  <2>2. CASE x = b
    BY <1>4, <1>16, <1>18, <2>2
  <2>3. CASE x \in D /\ x # b
    <3>1. h[x].next = -1
      BY <1>15, <1>18, <2>3
    <3>2. VarEnd(h, x) = N
      BY <1>0, <1>1, <2>3, <3>1 DEF VarList
    <3>3. QED BY <1>16, <2>3, <3>2
  <2>4. QED BY <2>1, <2>2, <2>3
<1>19. ASSUME NEW x \in D \cup {new}, g[x].next # -1
       PROVE  g[x].next \in D \cup {new} /\ g[x].next = VarEnd(g, x) /\ g[g[x].next].prev = x
  <2>1. CASE x = new
    <3>1. after \in D /\ after # b /\ after = E
      BY <1>9, <1>16, <1>19, <2>1
    <3>2. g[after].prev = new
      BY <1>15, <3>1
    <3>3. QED BY <1>16, <2>1, <3>1, <3>2
  <2>2. CASE x = b
    BY <1>16, <2>2
  <2>3. CASE x \in D /\ x # b
    <3>1. PICK y : y = h[x].next
      OBVIOUS
    <3>2. g[x].next = y /\ y # -1
      BY <1>15, <1>19, <2>3, <3>1
    <3>3. y \in D /\ y = VarEnd(h, x) /\ h[y].prev = x
      BY <1>1, <2>3, <3>1, <3>2 DEF VarList
    <3>4. y # after
      BY <1>9, <2>3, <3>2, <3>3
    <3>5. g[y].prev = x
      <4>1. CASE y = b
        BY <1>16, <3>3, <4>1
      <4>2. CASE y # b
        BY <1>15, <3>3, <3>4, <4>2
      <4>3. QED BY <4>1, <4>2
    <3>6. QED BY <1>16, <2>3, <3>2, <3>3, <3>5
  <2>4. QED BY <2>1, <2>2, <2>3
<1>20. g[0].prev = -1
  <2>1. h[0].prev = -1
    BY DEF VarList
  <2>2. CASE b = 0
    BY <1>16, <2>1, <2>2
  <2>3. CASE b # 0
    <3>1. g[0].prev = IF 0 = after THEN new ELSE h[0].prev
      BY <1>5, <1>15, <2>3
    <3>2. 0 # after
      BY <1>9
    <3>3. QED BY <2>1, <3>1, <3>2
  <2>4. QED BY <2>2, <2>3
<1>21. ASSUME NEW x \in D \cup {new}, x # 0 PROVE g[x].prev \in D \cup {new} /\ g[g[x].prev].next = x
  <2>1. CASE x = new
    BY <1>5, <1>16, <2>1
  <2>2. CASE x # new /\ x = after
    <3>1. x # b /\ x \in D
      BY <1>5, <1>9, <1>21, <2>2
    <3>2. g[x].prev = new
      BY <1>15, <2>2, <3>1
    <3>3. QED BY <1>16, <2>2, <3>2
  <2>3. CASE x # new /\ x # after
    <3>1. x \in D
      BY <2>3
    <3>2. PICK p : p = h[x].prev
      OBVIOUS
    <3>3. g[x].prev = p
      BY <1>15, <1>16, <2>3, <3>1, <3>2
    <3>4. p \in D /\ h[p].next = x
      BY <1>1, <1>21, <3>1, <3>2 DEF VarList
    <3>5. p # b
      BY <1>2, <2>3, <3>4
    <3>6. g[p].next = x
      BY <1>15, <3>4, <3>5
    <3>7. QED BY <3>3, <3>4, <3>6
  <2>4. QED BY <2>2, <2>1, <2>3
<1>22. ASSUME NEW x \in D \cup {new}, NEW y \in D \cup {new}, x < y PROVE VarEnd(g, x) <= y
  <2>0. x \in Nat /\ y \in Nat
    BY <1>4, <1>5
  <2>1. CASE x = new /\ y \in D
    <3>1. b < y
      BY <1>3, <1>4, <1>22, <2>0, <2>1
    <3>2. E <= y
      BY <1>1, <1>5, <1>7, <2>1, <3>1
    <3>3. QED BY <1>16, <2>1, <3>2
  <2>2. CASE x = b /\ y \in D
    <3>1. E <= y
      BY <1>1, <1>5, <1>7, <1>22, <2>2
    <3>2. new <= y
      BY <1>3, <1>4, <2>0, <3>1
    <3>3. QED BY <1>16, <2>2, <3>2
  <2>3. CASE x = b /\ y = new
    BY <1>4, <1>16, <2>3
  <2>4. CASE x \in D /\ x # b /\ y = new
    <3>1. ~(b < x)
      <4>1. ASSUME b < x PROVE FALSE
        <5>1. E <= x
          BY <1>1, <1>5, <1>7, <2>4, <4>1
        <5>2. QED BY <1>3, <1>4, <1>22, <2>0, <2>4, <5>1
      <4>2. QED BY <4>1
    <3>2. x < b
      BY <1>3, <2>0, <2>4, <3>1
    <3>3. VarEnd(h, x) <= b /\ VarEnd(h, x) \in Nat
      BY <1>5, <1>6, <1>7, <2>4, <3>2
    <3>4. VarEnd(h, x) <= new
      BY <1>3, <1>4, <3>3
    <3>5. QED BY <1>16, <2>4, <3>4
  <2>5. CASE x \in D /\ x # b /\ y \in D
    BY <1>7, <1>16, <1>22, <2>5
  <2>6. x = new /\ y = new => FALSE
    BY <1>4, <1>22
  <2>7. QED BY <2>1, <2>2, <2>3, <2>4, <2>5, <2>6
<1>23. D \cup {new} \subseteq 0 .. N - 1 /\ 0 \in D \cup {new}
  BY <1>4, <1>5
<1>24. QED BY <1>0, <1>14, <1>17, <1>18, <1>19, <1>20, <1>21, <1>22, <1>23 DEF VarList

\* The block best_fit finds is large enough.
LEMMA BestFits ==
    ASSUME VarList(variable_list), NEW w \in Nat, Simple!best_fit(w) # -1
    PROVE  /\ Simple!best_fit(w) \in DOMAIN variable_list
           /\ variable_list[Simple!best_fit(w)].size >= w
<1>1. PICK t, h : t = Simple!Walk /\ h = variable_list
  OBVIOUS
<1>2. VarList(h) /\ IsWalk(t, h, VARIABLE_SIZE)
  BY <1>1, VarWalk
<1>3. \A k \in 0 .. VARIABLE_SIZE : t[k] \in DOMAIN h \cup {-1}
  BY <1>2, VarWalked
<1>4. PICK fits : fits = {k \in 0 .. VARIABLE_SIZE :
                             t[k] # -1 /\ ~h[t[k]].is_allocated /\ h[t[k]].size >= w}
  OBVIOUS
<1>5. PICK least : least = {k \in fits : \A l \in fits : h[t[k]].size <= h[t[l]].size}
  OBVIOUS
<1>6. Simple!best_fit(w) = IF fits = {} THEN -1 ELSE t[Simple!Min(least)]
  BY <1>1, <1>4, <1>5 DEF Simple!best_fit, Simple!Fits, Simple!NULL
<1>7. fits # {} /\ Simple!best_fit(w) = t[Simple!Min(least)]
  BY <1>6
<1>8. \A k \in fits : t[k] \in DOMAIN h /\ h[t[k]].size >= w /\ h[t[k]].size \in Nat
  BY <1>2, <1>3, <1>4, VarFacts
<1>9. least # {}
  <2>1. PICK T : T = {h[t[k]].size : k \in fits}
    OBVIOUS
  <2>2. T \subseteq Nat /\ T # {}
    BY <1>7, <1>8, <2>1
  <2>3. PICK x \in T : \A y \in T : x <= y
    BY <2>2, LeastNatural
  <2>4. PICK k \in fits : x = h[t[k]].size
    BY <2>1
  <2>5. k \in least
    BY <1>5, <2>1, <2>3, <2>4
  <2>6. QED BY <2>5
<1>10. least \subseteq Nat
  BY <1>4, <1>5, MemoryAssumption
<1>11. \E x \in least : \A y \in least : x <= y
  BY <1>9, <1>10, LeastNatural
<1>12. Simple!Min(least) \in least
  BY <1>11 DEF Simple!Min
<1>13. QED BY <1>1, <1>5, <1>7, <1>8, <1>12

LEMMA VarStep == VarList(variable_list) /\ Simple!Next => VarList(variable_list')
<1> SUFFICES ASSUME VarList(variable_list), Simple!Next PROVE VarList(variable_list')
  OBVIOUS
<1>1. CASE variable_list' = variable_list
  BY <1>1
<1>2. ASSUME NEW w \in Sizes, Simple!allocateVariableBlock(w) PROVE VarList(variable_list')
  <2>0. w \in Nat /\ HEADER \in Nat /\ LEAST \in Nat
    BY MemoryAssumption, FirstFitAssumption
  <2>1. PICK b, h, g : b = Simple!best_fit(w) /\ h = variable_list /\ g = variable_list'
    OBVIOUS
  <2>2. b # -1
    BY <1>2, <2>1 DEF Simple!allocateVariableBlock, Simple!NULL
  <2>3. VarList(h) /\ b \in DOMAIN h /\ h[b].size >= w
    BY <2>0, <2>1, <2>2, BestFits
  <2>4. h[b].size \in Nat
    BY <2>3, VarFacts
  <2>5. g = IF h[b].size > w + HEADER + LEAST THEN Simple!SplitOff(b, w)
            ELSE [h EXCEPT ![b].is_allocated = TRUE]
    BY <1>2, <2>1 DEF Simple!allocateVariableBlock
  <2>6. Simple!SplitOff(b, w) = VarSplit(h, b, w)
    BY <2>1 DEF Simple!SplitOff, VarSplit
  <2>7. CASE h[b].size > w + HEADER + LEAST
    <3>1. h[b].size > w + HEADER
      BY <2>0, <2>4, <2>7
    <3>2. g = VarSplit(h, b, w)
      BY <2>5, <2>6, <2>7
    <3>3. VarList(g)
      BY <2>0, <2>3, <3>1, <3>2, VarSplitOff
    <3>4. QED BY <2>1, <3>3
  <2>8. CASE ~(h[b].size > w + HEADER + LEAST)
    <3>1. VarList(g)
      BY <2>3, <2>5, <2>8, VarFlagged
    <3>2. QED BY <2>1, <3>1
  <2>9. QED BY <2>7, <2>8
<1>3. QED BY <1>1, <1>2 DEF Simple!Next

LEMMA SimpleStart == Simple!Init => FixedInv /\ VarList(variable_list)
<1> SUFFICES ASSUME Simple!Init PROVE FixedInv /\ VarList(variable_list)
  OBVIOUS
<1>0. /\ BLOCKS \in Nat /\ HEADER \in Nat \ {0} /\ VARIABLE_SIZE \in Nat /\ VARIABLE_SIZE >= HEADER
  BY MemoryAssumption, FirstFitAssumption
<1>1. FixedInv
  <2>1. is_allocated = {} /\ free_blocks = BLOCKS
    BY DEF Simple!Init, Simple!initFixedAllocator
  <2>2. IsFiniteSet({}) /\ Cardinality({}) = 0
    BY FS_EmptySet
  <2>3. QED BY <1>0, <2>1, <2>2 DEF FixedInv
<1>2. PICK h, x : /\ h = variable_list
                  /\ x = [size |-> VARIABLE_SIZE - HEADER, is_allocated |-> FALSE, next |-> -1, prev |-> -1]
  OBVIOUS
<1>3. h = [a \in {0} |-> x]
  BY <1>2 DEF Simple!Init, Simple!initVariableAllocator, Simple!NULL
<1>4. x \in VarBlocks /\ x.next = -1 /\ x.prev = -1 /\ x.size = VARIABLE_SIZE - HEADER
  BY <1>0, <1>2 DEF VarBlocks
<1>5. DOMAIN h = {0} /\ h[0] = x /\ h \in [DOMAIN h -> VarBlocks] /\ 0 \in 0 .. VARIABLE_SIZE - 1
  BY <1>0, <1>3, <1>4
<1>6. VarEnd(h, 0) = VARIABLE_SIZE
  BY <1>0, <1>4, <1>5 DEF VarEnd
<1>7. VarList(h)
  BY <1>4, <1>5, <1>6 DEF VarList
<1>8. QED BY <1>1, <1>2, <1>7

\* For every size of the memory, the blocks and the requests: the partitions of the three
\* strategies lie end to end and count what is free, the pool's list threads exactly the
\* blocks nobody holds, whatever the clients write into theirs, and the two allocators of
\* Memory_Allocators.c keep their count and their list.
THEOREM AllocatorsKept == MCSpec => []AllocatorsSound
<1> DEFINE I == /\ program = "partition" => PartitionInv
                /\ program = "pool" => PoolInv
                /\ program = "simple" => FixedInv /\ VarList(variable_list)
<1>1. MCInit => I
  BY PartitionStart, PoolStart, SimpleStart DEF MCInit
<1>2. I /\ [MCNext]_allVars => I'
  <2> SUFFICES ASSUME I, [MCNext]_allVars PROVE I'
    OBVIOUS
  <2>1. program' = program
    BY DEF MCNext, allVars
  <2>2. program = "partition" => [Partition!Next]_partitionVars
    BY DEF MCNext, allVars
  <2>3. program = "pool" => [Pool!Next]_poolVars
    BY DEF MCNext, allVars
  <2>4. program = "simple" => Simple!Next \/ UNCHANGED simpleVars
    BY DEF MCNext, allVars
  <2>5. program = "simple" => (FixedInv /\ VarList(variable_list))'
    <3>1. CASE UNCHANGED simpleVars
      BY <3>1 DEF simpleVars, FixedInv, VarList, VarEnd
    <3>2. CASE Simple!Next
      <4>1. program = "simple" => FixedInv' /\ VarList(variable_list')
        BY <3>2, FixedStep, VarStep
      <4>2. VarList(variable_list') => VarList(variable_list)'
        BY DEF VarList, VarEnd
      <4>3. QED BY <4>1, <4>2
    <3>3. QED BY <2>4, <3>1, <3>2
  <2>6. QED BY <2>1, <2>2, <2>3, <2>5, PartitionStep, PoolStep
<1>3. I => AllocatorsSound
  <2>1. FixedInv => Simple!FixedExact
    BY SimpleCardinality DEF FixedInv, Simple!FixedExact
  <2>2. QED BY <2>1, PartitionsTile, ThreadsWalked, ListTiled DEF AllocatorsSound
<1>4. QED BY <1>1, <1>2, <1>3, PTL DEF MCSpec

-----------------------------------------------------------------------------
(* Custom_Memory_Allocator.c: the two lists of the heap *)

HeapBlocks == [size : Nat \ {0}, is_free : BOOLEAN, next : Nat, prev : Nat]

\* The blocks L of the heap b form a list from first, linked both ways.  The rank falls
\* along it, so that it has no circle.
Linked(b, L, first, rank) ==
    /\ first = 0 \/ (first \in L /\ b[first].prev = 0)
    /\ \A x \in L : b[x].prev = 0 => x = first
    /\ \A x \in L : b[x].next # 0 =>
          b[x].next \in L /\ b[b[x].next].prev = x /\ rank[b[x].next] < rank[x]
    /\ \A x \in L : b[x].prev # 0 => b[x].prev \in L /\ b[b[x].prev].next = x

\* The blocks D of the heap b lie side by side and fill the words 1 to total.
Paved(b, D, total) ==
    /\ \A x \in D : x + b[x].size - 1 <= total
    /\ \A x, y \in D : x < y => x + b[x].size <= y
    /\ \A w \in 1 .. total : \E x \in D : x <= w /\ w < x + b[x].size

\* The free blocks F, listed from free, and the used ones U, from used, share the heap.
Shared(b, F, U, free, used, rank, top, total) ==
    /\ total \in Nat /\ free \in Nat /\ used \in Nat /\ top \in Nat
    /\ F \subseteq Nat \ {0} /\ U \subseteq Nat \ {0} /\ F \cap U = {}
    /\ b \in [F \cup U -> HeapBlocks]
    /\ rank \in [F \cup U -> 1 .. top]
    /\ \A x \in F \cup U : b[x].is_free <=> x \in F
    /\ Linked(b, F, free, rank) /\ Linked(b, U, used, rank)
    /\ Paved(b, F \cup U, total)

\* A walk from a block of the list, without what lies behind it, is a sequence of
\* blocks of the list; from is what find_best_fit's loop meets.
IsFrom(from, b, S) ==
    from = [x \in S |-> IF x = 0 THEN <<>> ELSE <<x>> \o from[b[x].next]]

\* Blocks of rank at most m and the null pointer.
Low(D, rank, m) == {x \in D : rank[x] <= m} \cup {0}

LEMMA FromExists ==
    ASSUME NEW b, NEW F, NEW U, NEW free, NEW used, NEW rank, NEW top, NEW total,
           Shared(b, F, U, free, used, rank, top, total)
    PROVE  \E from : IsFrom(from, b, F \cup U \cup {0})
<1> DEFINE D == F \cup U
           T == {m \in 0 .. top : ~ \E from : IsFrom(from, b, Low(D, rank, m))}
<1>0. /\ top \in Nat /\ D \subseteq Nat \ {0} /\ rank \in [D -> 1 .. top]
      /\ \A x \in D : b[x].next # 0 => b[x].next \in D /\ rank[b[x].next] < rank[x]
      /\ \A x \in D : rank[x] \in Nat /\ rank[x] > 0 /\ rank[x] <= top /\ x # 0
  BY DEF Shared, Linked
<1>a. \A m, x : x \in Low(D, rank, m) <=> (x \in D /\ rank[x] <= m) \/ x = 0
  BY DEF Low
<1> HIDE DEF D
<1>1. CASE T = {}
  <2>1. PICK from : IsFrom(from, b, Low(D, rank, top))
    BY <1>0, <1>1
  <2>2. Low(D, rank, top) = F \cup U \cup {0}
    BY <1>0 DEF Low, D
  <2>3. QED BY <2>1, <2>2
<1>2. CASE T # {}
  <2>1. PICK m \in T : \A k \in T : m <= k
    <3>1. T \subseteq Nat
      OBVIOUS
    <3> HIDE DEF T
    <3>2. QED BY <1>2, <3>1, LeastNatural
  <2>2. CASE m = 0
    <3>1. Low(D, rank, 0) = {0}
      <4>1. \A x \in D : ~(rank[x] <= 0)
        BY <1>0
      <4>2. \A x : x \in Low(D, rank, 0) <=> x = 0
        BY <1>a, <4>1
      <4>3. QED BY <4>2
    <3>2. IsFrom([x \in {0} |-> <<>>], b, {0})
      BY DEF IsFrom
    <3>3. QED BY <2>1, <2>2, <3>1, <3>2
  <2>3. CASE m # 0
    <3>1. m \in Nat /\ m - 1 \in 0 .. top /\ ~(m <= m - 1)
      BY <1>0, <2>1, <2>3
    <3>2. PICK g : IsFrom(g, b, Low(D, rank, m - 1))
      BY <2>1, <3>1
    <3> DEFINE S == Low(D, rank, m)
               R == Low(D, rank, m - 1)
               f == [x \in S |-> IF x \in R THEN g[x] ELSE <<x>> \o g[b[x].next]]
    <3>3. \A x \in S : x # 0 => x \in D /\ rank[x] <= m /\ b[x].next \in R
      <4>1. \A x \in S : x # 0 => x \in D /\ rank[x] <= m
        BY <1>a
      <4>2. ASSUME NEW x \in D, rank[x] <= m, b[x].next # 0 PROVE rank[b[x].next] <= m - 1
        <5>1. b[x].next \in D /\ rank[b[x].next] < rank[x]
          BY <1>0, <4>2
        <5>2. rank[x] \in Nat /\ rank[b[x].next] \in Nat
          BY <1>0, <5>1
        <5>3. QED BY <3>1, <4>2, <5>1, <5>2
      <4>3. ASSUME NEW x \in D, rank[x] <= m PROVE b[x].next \in R
        <5>1. CASE b[x].next = 0
          BY <1>a, <5>1
        <5>2. CASE b[x].next # 0
          BY <1>0, <1>a, <4>2, <4>3, <5>2
        <5>3. QED BY <5>1, <5>2
      <4>4. QED BY <4>1, <4>3
    <3>4. R \subseteq S
      <4>1. \A x \in D : rank[x] <= m - 1 => rank[x] <= m
        BY <1>0, <3>1
      <4>2. QED BY <1>a, <4>1
    <3>5. \A x \in R : g[x] = IF x = 0 THEN <<>> ELSE <<x>> \o g[b[x].next]
      BY <3>2 DEF IsFrom
    <3>6. 0 \in R
      BY DEF Low
    <3>7. \A x \in R : f[x] = g[x]
      BY <3>4
    <3>8. \A x \in S \ R : f[x] = <<x>> \o g[b[x].next]
      OBVIOUS
    <3>9. f = [x \in S |-> f[x]]
      OBVIOUS
    <3> HIDE DEF f, S, R
    <3>10. ASSUME NEW x \in S PROVE f[x] = IF x = 0 THEN <<>> ELSE <<x>> \o f[b[x].next]
      <4>1. CASE x = 0
        BY <3>5, <3>6, <3>7, <4>1
      <4>2. CASE x # 0
        <5>1. f[b[x].next] = g[b[x].next]
          BY <3>3, <3>7, <4>2
        <5>2. CASE x \in R
          BY <3>5, <3>7, <4>2, <5>1, <5>2
        <5>3. CASE x \notin R
          BY <3>8, <4>2, <5>1, <5>3
        <5>4. QED BY <5>2, <5>3
      <4>3. QED BY <4>1, <4>2
    <3>11. IsFrom(f, b, S)
      BY <3>9, <3>10, Zenon DEF IsFrom
    <3>12. QED BY <2>1, <3>11 DEF S
  <2>4. QED BY <2>2, <2>3
<1>3. QED BY <1>1, <1>2

\* The walk from the head of a list is a sequence of exactly the list's blocks.
LEMMA WalkMeetsList ==
    ASSUME NEW b, NEW F, NEW U, NEW free, NEW used, NEW rank, NEW top, NEW total,
           Shared(b, F, U, free, used, rank, top, total),
           NEW from, IsFrom(from, b, F \cup U \cup {0}),
           NEW L, NEW first, (L = F /\ first = free) \/ (L = U /\ first = used)
    PROVE  from[first] \in Seq(L) /\ Heap!Range(from[first]) = L
<1>0. /\ top \in Nat /\ L \subseteq Nat \ {0} /\ \A x \in L : rank[x] \in 1 .. top
      /\ first = 0 \/ (first \in L /\ b[first].prev = 0)
      /\ \A x \in L : b[x].prev = 0 => x = first
      /\ \A x \in L : b[x].next # 0 => b[x].next \in L /\ rank[b[x].next] < rank[x]
      /\ \A x \in L : b[x].prev # 0 => b[x].prev \in L /\ b[b[x].prev].next = x
      /\ \A x \in L : b[x].next \in Nat /\ b[x].prev \in Nat
  BY DEF Shared, Linked, HeapBlocks
<1>1. /\ from[0] = <<>>
      /\ \A x \in L : from[x] = <<x>> \o from[b[x].next]
  <2>1. \A x \in F \cup U \cup {0} :
          from[x] = IF x = 0 THEN <<>> ELSE <<x>> \o from[b[x].next]
    BY DEF IsFrom
  <2>2. \A x \in L : x \in F \cup U \cup {0} /\ x # 0
    BY <1>0
  <2>3. QED BY <2>1, <2>2
<1> DEFINE Met(x) == Heap!Range(from[x])
<1>2. \A x \in L \cup {0} : from[x] \in Seq(L)
  <2> DEFINE Bad == {x \in L : from[x] \notin Seq(L)}
             T == {rank[x] : x \in Bad}
  <2>0. from[0] \in Seq(L)
    BY <1>1
  <2>1. CASE Bad = {}
    BY <2>0, <2>1
  <2>2. CASE Bad # {}
    <3>1. PICK m \in T : \A k \in T : m <= k
      <4>1. T \subseteq Nat /\ T # {}
        BY <1>0, <2>2
      <4> HIDE DEF T
      <4>2. QED BY <4>1, LeastNatural
    <3>2. PICK x \in Bad : m = rank[x]
      BY <3>1
    <3>3. b[x].next # 0 => b[x].next \notin Bad
      <4>1. b[x].next # 0 => rank[b[x].next] < rank[x] /\ rank[x] \in Nat /\ b[x].next \in L
        BY <1>0
      <4>2. \A y \in Bad : rank[x] <= rank[y] /\ rank[y] \in Nat
        BY <1>0, <3>1, <3>2
      <4>3. QED BY <4>1, <4>2
    <3>4. from[b[x].next] \in Seq(L)
      BY <1>0, <2>0, <3>3
    <3>5. <<x>> \in Seq(L)
      OBVIOUS
    <3>6. from[x] = <<x>> \o from[b[x].next]
      BY <1>1
    <3>7. from[x] \in Seq(L)
      BY <3>4, <3>5, <3>6
    <3>8. QED BY <3>7
  <2>3. QED BY <2>1, <2>2
<1>3. \A x \in L : Met(x) = {x} \cup Met(b[x].next)
  <2> SUFFICES ASSUME NEW x \in L PROVE Met(x) = {x} \cup Met(b[x].next)
    OBVIOUS
  <2> DEFINE s == from[b[x].next]
  <2>1. s \in Seq(L) /\ Len(s) \in Nat /\ DOMAIN s = 1 .. Len(s)
    BY <1>0, <1>2
  <2>2. from[x] = <<x>> \o s
    BY <1>1
  <2>3. /\ DOMAIN from[x] = 1 .. Len(s) + 1 /\ from[x][1] = x
        /\ \A k \in 2 .. Len(s) + 1 : from[x][k] = s[k - 1]
    <3>1. <<x>> \in Seq(L) /\ Len(<<x>>) = 1 /\ <<x>>[1] = x
      OBVIOUS
    <3> HIDE DEF s
    <3>2. /\ Len(<<x>> \o s) = Len(s) + 1
          /\ \A k \in 1 .. Len(s) + 1 : (<<x>> \o s)[k] = IF k <= 1 THEN <<x>>[k] ELSE s[k - 1]
      BY <2>1, <3>1
    <3>3. <<x>> \o s \in Seq(L)
      BY <2>1, <3>1
    <3>4. QED BY <2>1, <2>2, <3>1, <3>2, <3>3
  <2> HIDE DEF s
  <2>4. ASSUME NEW y \in Met(x) PROVE y \in {x} \cup Heap!Range(s)
    <3>1. PICK k \in DOMAIN from[x] : y = from[x][k]
      BY DEF Heap!Range
    <3>2. CASE k = 1
      BY <2>3, <3>1, <3>2
    <3>3. CASE k # 1
      <4>1. k \in 2 .. Len(s) + 1 /\ k - 1 \in DOMAIN s
        BY <2>1, <2>3, <3>3
      <4>2. QED BY <2>3, <3>1, <4>1 DEF Heap!Range
    <3>4. QED BY <3>2, <3>3
  <2>5. ASSUME NEW y \in {x} \cup Heap!Range(s) PROVE y \in Met(x)
    <3>1. CASE y = x
      <4>1. 1 \in DOMAIN from[x]
        BY <2>1, <2>3
      <4>2. QED BY <2>3, <3>1, <4>1 DEF Heap!Range
    <3>2. CASE y # x
      <4>1. PICK k \in DOMAIN s : y = s[k]
        BY <3>2 DEF Heap!Range
      <4>2. k + 1 \in 2 .. Len(s) + 1 /\ k + 1 \in DOMAIN from[x] /\ (k + 1) - 1 = k
        BY <2>1, <2>3
      <4>3. from[x][k + 1] = s[k]
        BY <2>3, <4>2
      <4>4. QED BY <4>1, <4>2, <4>3 DEF Heap!Range
    <3>3. QED BY <3>1, <3>2
  <2>6. QED BY <2>4, <2>5 DEF s
<1>4. \A x \in L \cup {0} : Met(x) \subseteq L
  BY <1>2 DEF Heap!Range
<1> HIDE DEF Met
\* A walk that meets a block meets the next one.
<1>5. \A x \in L : \A y \in Met(x) : b[y].next # 0 => b[y].next \in Met(x)
  <2> DEFINE Bad == {x \in L : ~ \A y \in Met(x) : b[y].next # 0 => b[y].next \in Met(x)}
             T == {rank[x] : x \in Bad}
  <2> SUFFICES ASSUME Bad # {} PROVE FALSE
    OBVIOUS
  <2>a. /\ Bad \subseteq L
        /\ \A x \in L \ Bad : \A y \in Met(x) : b[y].next # 0 => b[y].next \in Met(x)
        /\ \A x \in Bad : \E y \in Met(x) : b[y].next # 0 /\ b[y].next \notin Met(x)
    OBVIOUS
  <2> HIDE DEF Bad
  <2>1. PICK m \in T : \A k \in T : m <= k
    <3>1. \A x \in Bad : rank[x] \in Nat
      BY <1>0, <2>a
    <3>a. T \subseteq Nat /\ T # {}
      BY <3>1
    <3> HIDE DEF T
    <3>2. QED BY <3>a, LeastNatural
  <2>2. PICK x \in Bad : m = rank[x]
    BY <2>1
  <2>b. x \in L
    BY <2>a
  <2>3. PICK y \in Met(x) : b[y].next # 0 /\ b[y].next \notin Met(x)
    BY <2>a
  <2>4. y = x \/ y \in Met(b[x].next)
    BY <1>3, <2>b
  <2>5. CASE b[x].next = 0
    <3>1. Met(0) = {}
      BY <1>1 DEF Met, Heap!Range
    <3>2. QED BY <2>3, <2>4, <2>5, <3>1
  <2>6. CASE b[x].next # 0
    <3>1. b[x].next \in L /\ rank[b[x].next] < rank[x]
      BY <1>0, <2>6, <2>b
    <3>2. b[x].next \notin Bad
      <4>1. \A z \in Bad : rank[x] <= rank[z] /\ rank[z] \in Nat
        BY <1>0, <2>1, <2>2, <2>a
      <4>2. QED BY <1>0, <3>1, <4>1, <2>b
    <3>3. b[x].next \in Met(b[x].next)
      BY <1>3, <3>1
    <3>4. b[y].next \in Met(b[x].next)
      BY <2>3, <2>4, <2>a, <3>1, <3>2, <3>3
    <3>5. QED BY <1>3, <2>3, <2>b, <3>4
  <2>7. QED BY <2>5, <2>6
<1>6. \A x \in L : x \in Met(first)
  <2> DEFINE Bad == {x \in L : x \notin Met(first)}
             T == {top - rank[x] : x \in Bad}
  <2> SUFFICES ASSUME Bad # {} PROVE FALSE
    OBVIOUS
  <2>1. PICK m \in T : \A k \in T : m <= k
    <3>1. \A x \in Bad : top - rank[x] \in Nat
      BY <1>0
    <3>a. T \subseteq Nat /\ T # {}
      BY <3>1
    <3> HIDE DEF T
    <3>2. QED BY <3>a, LeastNatural
  <2>2. PICK x \in Bad : m = top - rank[x]
    BY <2>1
  <2>3. x # first
    BY <1>0, <1>3
  <2>4. b[x].prev \in L /\ b[b[x].prev].next = x /\ x # 0
    BY <1>0, <2>3
  <2>5. rank[x] < rank[b[x].prev]
    BY <1>0, <2>4
  <2>6. b[x].prev \in Met(first)
    <3>1. \A z \in Bad : top - rank[x] <= top - rank[z] /\ rank[z] \in Nat
      BY <1>0, <2>1, <2>2
    <3>2. b[x].prev \notin Bad
      BY <1>0, <2>4, <2>5, <3>1
    <3>3. QED BY <2>4, <3>2
  <2>7. first \in L
    <3>1. Met(0) = {}
      BY <1>1 DEF Met, Heap!Range
    <3>2. QED BY <1>0, <2>6, <3>1
  <2>8. x \in Met(first)
    BY <1>5, <2>4, <2>6, <2>7
  <2>9. QED BY <2>8
<1>7. first \in L \cup {0}
  BY <1>0
<1>8. Met(first) = L
  BY <1>4, <1>6, <1>7
<1>9. QED BY <1>2, <1>7, <1>8 DEF Met

\* What Walk, FreeBlocks and UsedBlocks mean.
LEMMA ListsWalked ==
    ASSUME NEW b, NEW F, NEW U, NEW free, NEW used, NEW rank, NEW top, NEW total,
           Shared(b, F, U, free, used, rank, top, total)
    PROVE  /\ Heap!Walk(b, free) \in Seq(F) /\ Heap!Range(Heap!Walk(b, free)) = F
           /\ Heap!Walk(b, used) \in Seq(U) /\ Heap!Range(Heap!Walk(b, used)) = U
<1> DEFINE from == CHOOSE f : IsFrom(f, b, F \cup U \cup {0})
<1>1. IsFrom(from, b, F \cup U \cup {0})
  BY FromExists
<1>2. DOMAIN b = F \cup U
  BY DEF Shared
<1>3. \A x : Heap!Walk(b, x) = from[x]
  BY <1>2 DEF Heap!Walk, Heap!NULL, IsFrom
<1> HIDE DEF from
<1>4. from[free] \in Seq(F) /\ Heap!Range(from[free]) = F
  BY <1>1, WalkMeetsList
<1>5. from[used] \in Seq(U) /\ Heap!Range(from[used]) = U
  BY <1>1, WalkMeetsList
<1>6. QED BY <1>3, <1>4, <1>5

LEMMA AlignedUp ==
    ASSUME NEW s \in Nat
    PROVE  Heap!ALIGN(s) \in Nat /\ Heap!ALIGN(s) >= s
<1>1. HEAP_ALIGNMENT \in Nat /\ HEAP_ALIGNMENT > 0
  BY MemoryAssumption
<1> DEFINE A == HEAP_ALIGNMENT
           q == (s + A - 1) \div A
<1>2. q \in Nat /\ A * q <= s + A - 1 /\ s + A - 1 < A * q + A
  <2>1. s + A - 1 \in Nat
    BY <1>1
  <2> DEFINE m == s + A - 1
  <2>2. m \in Nat
    BY <2>1
  <2> HIDE DEF m, A
  <2>3. A \in Nat /\ A > 0
    BY <1>1 DEF A
  <2>4. m \div A \in Int /\ m = A * (m \div A) + (m % A) /\ m % A \in 0 .. A - 1
    BY <2>2, <2>3
  <2>5. m \div A >= 0
    BY <2>2, <2>3
  <2>6. A * (m \div A) \in Int /\ m % A \in Int
    BY <2>2, <2>3, <2>4
  <2>7. A * (m \div A) <= m /\ m < A * (m \div A) + A
    BY <2>2, <2>3, <2>4, <2>6
  <2>8. QED BY <2>4, <2>5, <2>7 DEF m
<1>3. Heap!ALIGN(s) = q * A
  BY DEF Heap!ALIGN
<1> HIDE DEF q
<1>4. q * A = A * q /\ A * q \in Nat
  BY <1>1, <1>2
<1>5. QED BY <1>1, <1>2, <1>3, <1>4

\* find_best_fit answers with a block of the free list that is large enough.
LEMMA FitIsFree ==
    ASSUME NEW F, NEW U, NEW rank, NEW top,
           Shared(blocks, F, U, heap_list, used_list, rank, top, total_size),
           NEW w \in Nat, Heap!find_best_fit(w) # 0
    PROVE  /\ Heap!find_best_fit(w) \in F
           /\ blocks[Heap!find_best_fit(w)].size >= w
<1> DEFINE walk == Heap!Walk(blocks, heap_list)
           fits == Heap!Suitable(w)
           best == {k \in fits : \A l \in fits : blocks[walk[k]].size <= blocks[walk[l]].size}
           sizes == {blocks[walk[k]].size : k \in fits}
<1>1. walk \in Seq(F) /\ \A x \in F : blocks[x].size \in Nat
  <2>1. walk \in Seq(F)
    BY ListsWalked
  <2>2. QED BY <2>1 DEF Shared, HeapBlocks
<1>2. fits = {k \in DOMAIN walk : blocks[walk[k]].is_free /\ blocks[walk[k]].size >= w}
  BY DEF Heap!Suitable
<1>3. Heap!find_best_fit(w) = IF fits = {} THEN 0 ELSE walk[Heap!Min(best)]
  BY DEF Heap!find_best_fit, Heap!NULL
<1> HIDE DEF walk, fits
<1>4. fits # {}
  BY <1>3
<1>5. \A k \in fits : k \in Nat /\ walk[k] \in F /\ blocks[walk[k]].size >= w
                      /\ blocks[walk[k]].size \in Nat
  BY <1>1, <1>2
<1>6. best # {} /\ best \subseteq fits
  <2>1. sizes \subseteq Nat /\ sizes # {}
    BY <1>4, <1>5
  <2>2. PICK z \in sizes : \A y \in sizes : z <= y
    <3> HIDE DEF sizes
    <3> QED BY <2>1, LeastNatural
  <2>3. QED BY <2>2
<1> HIDE DEF best, sizes
<1>7. Heap!Min(best) \in best
  <2>1. best \subseteq Nat
    BY <1>5, <1>6
  <2>2. \E x \in best : \A y \in best : x <= y
    BY <1>6, <2>1, LeastNatural
  <2>3. QED BY <2>2 DEF Heap!Min
<1>8. QED BY <1>3, <1>4, <1>5, <1>6, <1>7

-----------------------------------------------------------------------------
(* What each part of custom_malloc does to the blocks *)

\* The fields of a block.
Is(r, size, is_free, next, prev) ==
    r.size = size /\ r.is_free = is_free /\ r.next = next /\ r.prev = prev

\* A new block x of n words at the head of the free list.
Grows(b, c, free, x, n) ==
    /\ c \in [DOMAIN b \cup {x} -> HeapBlocks]
    /\ Is(c[x], n, TRUE, free, 0)
    /\ \A y \in DOMAIN b :
          Is(c[y], b[y].size, b[y].is_free, b[y].next, IF y = free THEN x ELSE b[y].prev)

\* The block x keeps w words, the others become the block behind it in the list.
Cuts(b, c, x, w) ==
    /\ c \in [DOMAIN b \cup {x + w} -> HeapBlocks]
    /\ Is(c[x + w], b[x].size - w, TRUE, b[x].next, x)
    /\ Is(c[x], w, b[x].is_free, x + w, b[x].prev)
    /\ \A y \in DOMAIN b \ {x} :
          Is(c[y], b[y].size, b[y].is_free, b[y].next, IF y = b[x].next THEN x + w ELSE b[y].prev)

\* The block x leaves the free list and becomes the head of the used one.
Moves(b, c, used, x) ==
    /\ c \in [DOMAIN b -> HeapBlocks]
    /\ Is(c[x], b[x].size, FALSE, used, 0)
    /\ \A y \in DOMAIN b \ {x} :
          Is(c[y], b[y].size, b[y].is_free,
             IF y = b[x].prev THEN b[x].next ELSE b[y].next,
             IF y = used THEN x ELSE IF y = b[x].next THEN b[x].prev ELSE b[y].prev)

\* SetPrev on blocks.
LEMMA PrevSet ==
    ASSUME NEW D, NEW b \in [D -> HeapBlocks], 0 \notin D, NEW a \in D \cup {0}, NEW p \in Nat
    PROVE  /\ Heap!SetPrev(b, a, p) \in [D -> HeapBlocks]
           /\ \A y \in D : Is(Heap!SetPrev(b, a, p)[y], b[y].size, b[y].is_free, b[y].next,
                              IF y = a THEN p ELSE b[y].prev)
<1>1. CASE a = 0
  BY <1>1 DEF Heap!SetPrev, Heap!NULL, Is
<1>2. CASE a # 0
  <2>1. Heap!SetPrev(b, a, p) = [b EXCEPT ![a].prev = p]
    BY <1>2 DEF Heap!SetPrev, Heap!NULL
  <2>2. \A y \in D : y # a => [b EXCEPT ![a].prev = p][y] = b[y]
    OBVIOUS
  <2>3. a \in D /\ [b EXCEPT ![a].prev = p][a] = [b[a] EXCEPT !.prev = p]
    BY <1>2
  <2>4. [b EXCEPT ![a].prev = p] \in [D -> HeapBlocks]
    BY <1>2 DEF HeapBlocks
  <2>5. Is([b[a] EXCEPT !.prev = p], b[a].size, b[a].is_free, b[a].next, p)
    BY <2>3 DEF HeapBlocks, Is
  <2>6. QED BY <2>1, <2>2, <2>3, <2>4, <2>5 DEF Is
<1>3. QED BY <1>1, <1>2

LEMMA GrownGrows ==
    ASSUME NEW F, NEW U, NEW rank, NEW top,
           Shared(blocks, F, U, heap_list, used_list, rank, top, total_size), NEW w \in Nat \ {0}
    PROVE  Grows(blocks, Heap!Grown(w), heap_list, total_size + 1, Heap!request_size(w))
<1> DEFINE D == F \cup U
           x == total_size + 1
           n == Heap!request_size(w)
           b == [y \in D \cup {x} |->
                    IF y = x THEN [size |-> n, is_free |-> TRUE, next |-> heap_list, prev |-> 0]
                    ELSE blocks[y]]
<1>1. /\ blocks \in [D -> HeapBlocks] /\ DOMAIN blocks = D /\ D \subseteq Nat \ {0}
      /\ total_size \in Nat /\ heap_list \in Nat /\ heap_list \in D \cup {0}
  BY DEF Shared, Linked
<1>2. x \in Nat /\ x # 0 /\ x \notin D
  BY <1>1 DEF Shared, Paved, HeapBlocks
<1>3. n \in Nat \ {0}
  BY MemoryAssumption DEF Heap!request_size
<1>4. b \in [D \cup {x} -> HeapBlocks]
  BY <1>1, <1>2, <1>3 DEF HeapBlocks
<1>5. Heap!Grown(w) = Heap!SetPrev(b, heap_list, x)
  BY <1>1 DEF Heap!Grown, Heap!FreeBlock, Heap!NULL
<1>6. /\ Is(b[x], n, TRUE, heap_list, 0)
      /\ \A y \in D : b[y] = blocks[y] /\ y # x
  BY <1>2 DEF Is
<1>7. 0 \notin D \cup {x} /\ heap_list \in (D \cup {x}) \cup {0} /\ heap_list # x
  BY <1>1, <1>2
<1> HIDE DEF b, D, x, n
<1>8. /\ Heap!Grown(w) \in [D \cup {x} -> HeapBlocks]
      /\ \A y \in D \cup {x} : Is(Heap!Grown(w)[y], b[y].size, b[y].is_free, b[y].next,
                                  IF y = heap_list THEN x ELSE b[y].prev)
  BY <1>2, <1>4, <1>5, <1>7, PrevSet
<1>9. Grows(blocks, Heap!Grown(w), heap_list, x, n)
  <2>1. Is(Heap!Grown(w)[x], n, TRUE, heap_list, 0)
    BY <1>6, <1>7, <1>8 DEF Is
  <2>2. \A y \in D : Is(Heap!Grown(w)[y], blocks[y].size, blocks[y].is_free, blocks[y].next,
                         IF y = heap_list THEN x ELSE blocks[y].prev)
    BY <1>6, <1>8
  <2>3. QED BY <1>1, <1>8, <2>1, <2>2 DEF Grows
<1>10. QED BY <1>9 DEF x, n

LEMMA SplitCuts ==
    ASSUME NEW D, NEW b \in [D -> HeapBlocks], D \subseteq Nat \ {0},
           NEW x \in D, NEW w \in Nat \ {0}, w <= b[x].size, x + w \notin D,
           b[x].next \in D \cup {0}, b[x].next # x
    PROVE  \/ Heap!split_block(b, x, w) = b
           \/ w < b[x].size /\ Cuts(b, Heap!split_block(b, x, w), x, w)
<1>1. CASE b[x].size - w <= HEAP_BLOCK_SIZE + HEAP_ALIGNMENT
  BY <1>1 DEF Heap!split_block
<1>2. CASE ~(b[x].size - w <= HEAP_BLOCK_SIZE + HEAP_ALIGNMENT)
  <2> DEFINE y == x + w
             rest == b[x].size - w
             f == [[size |-> rest, is_free |-> TRUE, next |-> b[x].next, prev |-> 0]
                      EXCEPT !.prev = x]
             g == [b[x] EXCEPT !.size = w, !.next = y]
             c == [z \in D \cup {y} |-> CASE z = y -> f [] z = x -> g [] OTHER -> b[z]]
  <2>0. b[x] \in HeapBlocks
    OBVIOUS
  <2>1. rest \in Nat \ {0} /\ w < b[x].size /\ b[x].size \in Nat
    BY <1>2, <2>0, MemoryAssumption DEF HeapBlocks
  <2>2. y \in Nat \ {0} /\ y \notin D /\ y # x /\ b[x].next \in D \cup {0} /\ b[x].next \in Nat
    BY <2>0 DEF HeapBlocks
  <2>3. Heap!split_block(b, x, w) = Heap!SetPrev(c, b[x].next, y)
    <3>1. DOMAIN b = D
      OBVIOUS
    <3>2. QED BY <1>2, <3>1 DEF Heap!split_block, Heap!FreeBlock, Heap!NULL
  <2>4. Is(f, rest, TRUE, b[x].next, x) /\ f \in HeapBlocks
    <3> DEFINE r == [size |-> rest, is_free |-> TRUE, next |-> b[x].next, prev |-> 0]
    <3> HIDE DEF rest
    <3>1. Is(r, rest, TRUE, b[x].next, 0) /\ r \in HeapBlocks
      BY <2>1, <2>2 DEF Is, HeapBlocks
    <3> HIDE DEF r
    <3>2. Is([r EXCEPT !.prev = x], rest, TRUE, b[x].next, x) /\ [r EXCEPT !.prev = x] \in HeapBlocks
      BY <3>1 DEF Is, HeapBlocks
    <3>3. QED BY <3>2 DEF r
  <2>5. Is(g, w, b[x].is_free, y, b[x].prev) /\ g \in HeapBlocks
    <3> HIDE DEF y
    <3>1. QED BY <2>0, <2>2 DEF Is, HeapBlocks
  <2> HIDE DEF f, g
  <2>6. c[y] = f /\ c[x] = g /\ \A z \in D \ {x} : c[z] = b[z] /\ z # y
    BY <2>2
  <2>7. c \in [D \cup {y} -> HeapBlocks]
    BY <2>4, <2>5, <2>6
  <2>8. 0 \notin D \cup {y} /\ b[x].next \in (D \cup {y}) \cup {0} /\ b[x].next # y
    BY <2>2
  <2> HIDE DEF c, y, rest
  <2>9. /\ Heap!split_block(b, x, w) \in [D \cup {y} -> HeapBlocks]
        /\ \A z \in D \cup {y} : Is(Heap!split_block(b, x, w)[z], c[z].size, c[z].is_free, c[z].next,
                                    IF z = b[x].next THEN y ELSE c[z].prev)
    <3> DEFINE E == D \cup {y}
    <3>1. c \in [E -> HeapBlocks] /\ 0 \notin E /\ b[x].next \in E \cup {0} /\ y \in Nat
      BY <2>2, <2>7, <2>8
    <3> HIDE DEF E
    <3>2. /\ Heap!SetPrev(c, b[x].next, y) \in [E -> HeapBlocks]
          /\ \A z \in E : Is(Heap!SetPrev(c, b[x].next, y)[z], c[z].size, c[z].is_free, c[z].next,
                              IF z = b[x].next THEN y ELSE c[z].prev)
      BY <3>1, PrevSet
    <3>3. QED BY <2>3, <3>2 DEF E
  <2>10. Cuts(b, Heap!split_block(b, x, w), x, w)
    <3>1. DOMAIN b = D
      OBVIOUS
    <3>2. Is(Heap!split_block(b, x, w)[y], rest, TRUE, b[x].next, x)
      BY <2>4, <2>6, <2>8, <2>9 DEF Is
    <3>3. Is(Heap!split_block(b, x, w)[x], w, b[x].is_free, y, b[x].prev)
      BY <2>5, <2>6, <2>9 DEF Is
    <3>4. \A z \in D \ {x} : Is(Heap!split_block(b, x, w)[z], b[z].size, b[z].is_free, b[z].next,
                                IF z = b[x].next THEN y ELSE b[z].prev)
      BY <2>6, <2>9 DEF Is
    <3>5. QED BY <2>9, <3>1, <3>2, <3>3, <3>4 DEF Cuts, y, rest
  <2>11. QED BY <2>1, <2>10
<1>3. QED BY <1>1, <1>2

LEMMA TakenMoves ==
    ASSUME NEW D, NEW b \in [D -> HeapBlocks], D \subseteq Nat \ {0}, NEW x \in D,
           b[x].next \in D \cup {0}, b[x].prev \in D \cup {0}, used_list \in D \cup {0},
           b[x].next # x, b[x].prev # x, used_list # x
    PROVE  Moves(b, Heap!Used(Heap!Unlinked(b, x), x), used_list, x)
<1> DEFINE c == Heap!SetPrev(b, b[x].next, b[x].prev)
           d == Heap!Unlinked(b, x)
           e == [d EXCEPT ![x].is_free = FALSE, ![x].next = used_list, ![x].prev = 0]
<1>0. /\ 0 \notin D /\ b[x].next \in Nat /\ b[x].prev \in Nat /\ used_list \in Nat
      /\ DOMAIN b = D /\ \A y \in D : b[y] \in HeapBlocks
  BY DEF HeapBlocks
<1>1. /\ c \in [D -> HeapBlocks]
      /\ \A y \in D : Is(c[y], b[y].size, b[y].is_free, b[y].next,
                         IF y = b[x].next THEN b[x].prev ELSE b[y].prev)
  <2> DEFINE a == b[x].next
             p == b[x].prev
  <2>1. a \in D \cup {0} /\ p \in Nat /\ b \in [D -> HeapBlocks] /\ 0 \notin D
    BY <1>0
  <2>2. c = Heap!SetPrev(b, a, p)
    OBVIOUS
  <2> HIDE DEF a, p, c
  <2>3. /\ c \in [D -> HeapBlocks]
        /\ \A y \in D : Is(c[y], b[y].size, b[y].is_free, b[y].next,
                           IF y = a THEN p ELSE b[y].prev)
    BY <2>1, <2>2, PrevSet
  <2>4. QED BY <2>3 DEF a, p
<1>2. d = IF b[x].prev = 0 THEN c ELSE [c EXCEPT ![b[x].prev].next = b[x].next]
  BY DEF Heap!Unlinked, Heap!NULL
<1> HIDE DEF c, d
<1>3. /\ d \in [D -> HeapBlocks]
      /\ \A y \in D : Is(d[y], b[y].size, b[y].is_free,
                         IF y = b[x].prev THEN b[x].next ELSE b[y].next,
                         IF y = b[x].next THEN b[x].prev ELSE b[y].prev)
  <2>1. CASE b[x].prev = 0
    BY <1>0, <1>1, <1>2, <2>1 DEF Is
  <2>2. CASE b[x].prev # 0
    <3> DEFINE p == b[x].prev
    <3>1. p \in D /\ d = [c EXCEPT ![p].next = b[x].next]
      BY <1>2, <2>2
    <3> HIDE DEF p
    <3>2. d \in [D -> HeapBlocks]
      BY <1>0, <1>1, <3>1 DEF HeapBlocks
    <3>3. /\ d[p] = [c[p] EXCEPT !.next = b[x].next]
          /\ \A y \in D : y # p => d[y] = c[y]
      BY <1>1, <3>1
    <3>4. Is(d[p], c[p].size, c[p].is_free, b[x].next, c[p].prev)
      BY <1>1, <3>1, <3>3 DEF Is, HeapBlocks
    <3>5. QED BY <1>1, <3>1, <3>2, <3>3, <3>4 DEF p, Is
  <2>3. QED BY <2>1, <2>2
<1>4. /\ e \in [D -> HeapBlocks]
      /\ Is(e[x], b[x].size, FALSE, used_list, 0)
      /\ \A y \in D : y # x => e[y] = d[y]
  <2>1. \A y \in D : y # x => e[y] = d[y]
    BY <1>3
  <2> DEFINE r == d[x]
             s == [[[r EXCEPT !.is_free = FALSE] EXCEPT !.next = used_list] EXCEPT !.prev = 0]
  <2>2. e[x] = s
    BY <1>3
  <2>3. r \in HeapBlocks /\ r.size = b[x].size
    BY <1>3 DEF Is
  <2>4. Is(s, b[x].size, FALSE, used_list, 0) /\ s \in HeapBlocks
    <3> HIDE DEF r
    <3> QED BY <1>0, <2>3 DEF Is, HeapBlocks
  <2> HIDE DEF s, r
  <2>5. e \in [D -> HeapBlocks]
    BY <1>3, <2>1, <2>2, <2>4
  <2>6. QED BY <2>1, <2>2, <2>4, <2>5
<1>5. Heap!Used(d, x) = Heap!SetPrev(e, used_list, x)
  BY DEF Heap!Used, Heap!NULL
<1> HIDE DEF e
<1>6. /\ Heap!Used(d, x) \in [D -> HeapBlocks]
      /\ \A y \in D : Is(Heap!Used(d, x)[y], e[y].size, e[y].is_free, e[y].next,
                         IF y = used_list THEN x ELSE e[y].prev)
  <2>1. /\ Heap!SetPrev(e, used_list, x) \in [D -> HeapBlocks]
        /\ \A y \in D : Is(Heap!SetPrev(e, used_list, x)[y], e[y].size, e[y].is_free, e[y].next,
                            IF y = used_list THEN x ELSE e[y].prev)
    <3>1. x \in Nat /\ 0 \notin D /\ e \in [D -> HeapBlocks]
      BY <1>0, <1>4
    <3>2. QED BY <3>1, PrevSet
  <2>2. QED BY <1>5, <2>1
<1>7. Is(Heap!Used(d, x)[x], b[x].size, FALSE, used_list, 0)
  BY <1>4, <1>6 DEF Is
<1>8. ASSUME NEW y \in D \ {x}
      PROVE  Is(Heap!Used(d, x)[y], b[y].size, b[y].is_free,
                IF y = b[x].prev THEN b[x].next ELSE b[y].next,
                IF y = used_list THEN x ELSE IF y = b[x].next THEN b[x].prev ELSE b[y].prev)
  <2>1. e[y] = d[y]
    BY <1>4
  <2>2. QED BY <1>3, <1>6, <2>1 DEF Is
<1>9. QED BY <1>0, <1>6, <1>7, <1>8 DEF Moves, d

-----------------------------------------------------------------------------
(* The lists share the heap after each part of custom_malloc *)

LEMMA SharedFacts ==
    ASSUME NEW b, NEW F, NEW U, NEW free, NEW used, NEW rank, NEW top, NEW total,
           Shared(b, F, U, free, used, rank, top, total)
    PROVE  /\ total \in Nat /\ free \in Nat /\ used \in Nat /\ top \in Nat
           /\ F \subseteq Nat \ {0} /\ U \subseteq Nat \ {0} /\ F \cap U = {}
           /\ DOMAIN b = F \cup U
           /\ \A y \in F \cup U :
                /\ b[y].size \in Nat \ {0} /\ b[y].next \in Nat /\ b[y].prev \in Nat
                /\ rank[y] \in Nat /\ rank[y] > 0 /\ rank[y] <= top
           /\ free = 0 \/ free \in F
           /\ used = 0 \/ used \in U
BY DEF Shared, Linked, HeapBlocks

LEMMA GrowShares ==
    ASSUME NEW b, NEW F, NEW U, NEW free, NEW used, NEW rank, NEW top, NEW total,
           Shared(b, F, U, free, used, rank, top, total),
           NEW n \in Nat \ {0}, NEW c, Grows(b, c, free, total + 1, n)
    PROVE  \E r : Shared(c, F \cup {total + 1}, U, total + 1, used, r, top + 1, total + n)
<1> DEFINE x == total + 1
           G == F \cup {x}
           r == [y \in G \cup U |-> IF y = x THEN top + 1 ELSE rank[y]]
<1>1. /\ total \in Nat /\ free \in Nat /\ used \in Nat /\ top \in Nat
      /\ F \subseteq Nat \ {0} /\ U \subseteq Nat \ {0} /\ F \cap U = {}
      /\ DOMAIN b = F \cup U
      /\ \A y \in F \cup U : /\ b[y].size \in Nat \ {0} /\ b[y].next \in Nat /\ b[y].prev \in Nat
                             /\ rank[y] \in Nat /\ rank[y] > 0 /\ rank[y] <= top
      /\ free = 0 \/ free \in F
      /\ used = 0 \/ used \in U
  BY SharedFacts, Zenon
<1>2. /\ Linked(b, F, free, rank) /\ Linked(b, U, used, rank) /\ Paved(b, F \cup U, total)
      /\ \A y \in F \cup U : b[y].is_free <=> y \in F
  BY DEF Shared
<1>3. x \in Nat \ {0} /\ x \notin F \cup U /\ \A y \in F \cup U : y < x
  BY <1>1, <1>2 DEF Paved
<1>4. /\ c \in [G \cup U -> HeapBlocks]
      /\ c[x].size = n /\ c[x].is_free = TRUE /\ c[x].next = free /\ c[x].prev = 0
      /\ \A y \in F \cup U :
            /\ c[y].size = b[y].size /\ c[y].is_free = b[y].is_free /\ c[y].next = b[y].next
            /\ c[y].prev = IF y = free THEN x ELSE b[y].prev
  <2>1. (F \cup U) \cup {x} = G \cup U
    OBVIOUS
  <2>2. QED BY <1>1, <2>1 DEF Grows, Is
<1>5. r[x] = top + 1 /\ \A y \in F \cup U : r[y] = rank[y]
  BY <1>3
<1>6. r \in [G \cup U -> 1 .. top + 1]
  BY <1>1, <1>3
<1> HIDE DEF x, r
<1>7. Linked(c, G, x, r)
  <2>1. x \in G /\ c[x].prev = 0
    BY <1>4
  <2>2. ASSUME NEW y \in G, c[y].prev = 0 PROVE y = x
    BY <1>1, <1>2, <1>3, <1>4, <2>2 DEF Linked
  <2>3. ASSUME NEW y \in G, c[y].next # 0
        PROVE  c[y].next \in G /\ c[c[y].next].prev = y /\ r[c[y].next] < r[y]
    <3>1. CASE y = x
      <4>1. free \in F /\ rank[free] <= top /\ rank[free] \in Nat
        BY <1>1, <1>4, <2>3, <3>1
      <4>2. r[free] < r[x]
        BY <1>1, <1>5, <4>1
      <4>3. QED BY <1>4, <3>1, <4>1, <4>2
    <3>2. CASE y # x
      <4>1. y \in F /\ b[y].next # 0 /\ c[y].next = b[y].next
        BY <1>4, <2>3, <3>2
      <4>2. b[y].next \in F /\ b[b[y].next].prev = y /\ rank[b[y].next] < rank[y]
        BY <1>2, <4>1 DEF Linked
      <4>3. b[y].next # free
        BY <1>1, <1>2, <4>1, <4>2 DEF Linked
      <4>4. QED BY <1>4, <1>5, <4>1, <4>2, <4>3
    <3>3. QED BY <3>1, <3>2
  <2>4. ASSUME NEW y \in G, c[y].prev # 0 PROVE c[y].prev \in G /\ c[c[y].prev].next = y
    <3>1. y \in F /\ y # x
      BY <1>4, <2>4
    <3>2. CASE y = free
      BY <1>4, <3>1, <3>2
    <3>3. CASE y # free
      <4>1. c[y].prev = b[y].prev /\ b[y].prev \in F /\ b[b[y].prev].next = y
        BY <1>2, <1>4, <2>4, <3>1, <3>3 DEF Linked
      <4>2. QED BY <1>4, <4>1
    <3>4. QED BY <3>2, <3>3
  <2>5. QED BY <2>1, <2>2, <2>3, <2>4 DEF Linked
<1>8. Linked(c, U, used, r)
  <2>1. \A y \in U : c[y].next = b[y].next /\ c[y].prev = b[y].prev /\ r[y] = rank[y]
    BY <1>1, <1>4, <1>5
  <2>2. QED BY <1>2, <2>1 DEF Linked
<1>9. Paved(c, G \cup U, total + n)
  <2>1. c[x].size = n /\ \A y \in F \cup U : c[y].size = b[y].size
    BY <1>4
  <2>2. ASSUME NEW y \in G \cup U PROVE y + c[y].size - 1 <= total + n
    <3>1. CASE y = x
      BY <1>1, <2>1, <3>1 DEF x
    <3>2. CASE y # x
      <4>1. y \in F \cup U
        BY <3>2
      <4>2. y + b[y].size - 1 <= total /\ y \in Nat /\ b[y].size \in Nat
        BY <1>1, <1>2, <4>1 DEF Paved
      <4>3. QED BY <1>1, <2>1, <4>1, <4>2
    <3>3. QED BY <3>1, <3>2
  <2>3. ASSUME NEW y \in G \cup U, NEW z \in G \cup U, y < z PROVE y + c[y].size <= z
    <3>1. CASE z = x
      <4>1. y \in F \cup U /\ y + b[y].size - 1 <= total /\ y \in Nat /\ b[y].size \in Nat
        BY <1>1, <1>2, <2>3, <3>1 DEF Paved
      <4>2. QED BY <1>1, <2>1, <3>1, <4>1 DEF x
    <3>2. CASE z # x
      <4>1. z \in F \cup U /\ z \in Nat /\ ~(x < z)
        BY <1>1, <1>3, <3>2
      <4>2. y \in F \cup U
        BY <2>3, <4>1
      <4>3. QED BY <1>2, <2>1, <2>3, <4>1, <4>2 DEF Paved
    <3>3. QED BY <3>1, <3>2
  <2>4. ASSUME NEW w \in 1 .. total + n PROVE \E y \in G \cup U : y <= w /\ w < y + c[y].size
    <3>1. CASE w <= total
      <4>1. PICK y \in F \cup U : y <= w /\ w < y + b[y].size
        BY <1>1, <1>2, <3>1 DEF Paved
      <4>2. QED BY <2>1, <4>1
    <3>2. CASE ~(w <= total)
      <4>1. x <= w /\ w < x + n
        BY <1>1, <3>2 DEF x
      <4>2. QED BY <2>1, <4>1
    <3>3. QED BY <3>1, <3>2
  <2>5. QED BY <2>2, <2>3, <2>4 DEF Paved
<1>10. \A y \in G \cup U : c[y].is_free <=> y \in G
  BY <1>1, <1>2, <1>3, <1>4
<1>11. G \subseteq Nat \ {0} /\ G \cap U = {}
  BY <1>1, <1>3
<1>12. Shared(c, G, U, x, used, r, top + 1, total + n)
  BY <1>1, <1>3, <1>4, <1>6, <1>7, <1>8, <1>9, <1>10, <1>11 DEF Shared
<1>13. QED BY <1>12 DEF x

LEMMA CutShares ==
    ASSUME NEW b, NEW F, NEW U, NEW free, NEW used, NEW rank, NEW top, NEW total,
           Shared(b, F, U, free, used, rank, top, total),
           NEW x \in F, NEW w \in Nat \ {0}, w < b[x].size, NEW c, Cuts(b, c, x, w)
    PROVE  \E r : Shared(c, F \cup {x + w}, U, free, used, r, 2 * top, total)
<1> DEFINE z == x + w
           G == F \cup {z}
           r == [y \in G \cup U |-> IF y = z THEN 2 * rank[x] - 1 ELSE 2 * rank[y]]
<1>1. /\ total \in Nat /\ free \in Nat /\ used \in Nat /\ top \in Nat
      /\ F \subseteq Nat \ {0} /\ U \subseteq Nat \ {0} /\ F \cap U = {}
      /\ DOMAIN b = F \cup U
      /\ \A y \in F \cup U : /\ b[y].size \in Nat \ {0} /\ b[y].next \in Nat /\ b[y].prev \in Nat
                             /\ rank[y] \in Nat /\ rank[y] > 0 /\ rank[y] <= top
      /\ free = 0 \/ free \in F
      /\ used = 0 \/ used \in U
  BY SharedFacts, Zenon
<1>2. /\ Linked(b, F, free, rank) /\ Linked(b, U, used, rank) /\ Paved(b, F \cup U, total)
      /\ \A y \in F \cup U : b[y].is_free <=> y \in F
  BY DEF Shared
<1>3. x \in Nat /\ z \in Nat \ {0} /\ x < z /\ z < x + b[x].size /\ b[x].size \in Nat
  BY <1>1
<1>4. z \notin F \cup U /\ \A y \in F \cup U : x < y => z < y /\ x + b[x].size <= y
  BY <1>1, <1>2, <1>3 DEF Paved
<1>5. /\ c \in [G \cup U -> HeapBlocks]
      /\ c[z].size = b[x].size - w /\ c[z].is_free = TRUE /\ c[z].next = b[x].next /\ c[z].prev = x
      /\ c[x].size = w /\ c[x].is_free = b[x].is_free /\ c[x].next = z /\ c[x].prev = b[x].prev
      /\ \A y \in (F \cup U) \ {x} :
            /\ c[y].size = b[y].size /\ c[y].is_free = b[y].is_free /\ c[y].next = b[y].next
            /\ c[y].prev = IF y = b[x].next THEN z ELSE b[y].prev
  <2>1. (F \cup U) \cup {x + w} = G \cup U
    OBVIOUS
  <2>2. QED BY <1>1, <2>1 DEF Cuts, Is
<1>6. r[z] = 2 * rank[x] - 1 /\ \A y \in F \cup U : r[y] = 2 * rank[y]
  BY <1>4
<1>7. r \in [G \cup U -> 1 .. 2 * top]
  <2>1. ASSUME NEW y \in G \cup U PROVE r[y] \in 1 .. 2 * top
    <3>1. CASE y = z
      BY <1>1, <1>6, <3>1
    <3>2. CASE y # z
      BY <1>1, <1>6, <3>2
    <3>3. QED BY <3>1, <3>2
  <2>2. QED BY <2>1
<1> HIDE DEF z, r
<1>8. Linked(c, G, free, r)
  <2>1. free = 0 \/ (free \in G /\ c[free].prev = 0)
    <3>1. CASE free = x
      BY <1>2, <1>3, <1>5, <3>1 DEF Linked
    <3>2. CASE free # x /\ free # 0
      <4>1. free \in F /\ b[free].prev = 0 /\ free # b[x].next
        BY <1>1, <1>2, <3>2 DEF Linked
      <4>2. QED BY <1>5, <3>2, <4>1
    <3>3. QED BY <3>1, <3>2
  <2>2. ASSUME NEW y \in G, c[y].prev = 0 PROVE y = free
    <3>1. y # z /\ (y # x => y # b[x].next)
      BY <1>1, <1>3, <1>5, <2>2
    <3>2. b[y].prev = 0 /\ y \in F
      BY <1>5, <2>2, <3>1
    <3>3. QED BY <1>2, <3>2 DEF Linked
  <2>3. ASSUME NEW y \in G, c[y].next # 0
        PROVE  c[y].next \in G /\ c[c[y].next].prev = y /\ r[c[y].next] < r[y]
    <3>1. CASE y = z
      <4> DEFINE v == b[x].next
      <4>1. v \in F /\ v # x /\ rank[v] < rank[x] /\ rank[v] \in Nat /\ rank[x] \in Nat
        BY <1>1, <1>2, <1>5, <2>3, <3>1 DEF Linked
      <4>2. c[v].prev = z /\ c[z].next = v
        BY <1>5, <4>1
      <4>3. r[v] < r[z]
        BY <1>6, <4>1
      <4>4. QED BY <3>1, <4>1, <4>2, <4>3
    <3>2. CASE y = x
      <4>1. r[z] < r[x]
        BY <1>1, <1>6
      <4>2. QED BY <1>5, <3>2, <4>1
    <3>3. CASE y # x /\ y # z
      <4> DEFINE v == b[y].next
      <4>1. y \in F /\ c[y].next = v /\ v # 0
        BY <1>5, <2>3, <3>3
      <4>2. v \in F /\ b[v].prev = y /\ rank[v] < rank[y] /\ rank[v] \in Nat /\ rank[y] \in Nat
        BY <1>1, <1>2, <4>1 DEF Linked
      <4>3. v # b[x].next
        BY <1>1, <1>2, <3>3, <4>1, <4>2 DEF Linked
      <4>4. c[v].prev = y
        BY <1>5, <4>2, <4>3
      <4>5. r[v] < r[y]
        BY <1>6, <4>1, <4>2
      <4>6. QED BY <4>1, <4>2, <4>4, <4>5
    <3>4. QED BY <3>1, <3>2, <3>3
  <2>4. ASSUME NEW y \in G, c[y].prev # 0 PROVE c[y].prev \in G /\ c[c[y].prev].next = y
    <3>1. CASE y = z
      BY <1>5, <3>1
    <3>2. CASE y = x
      <4>1. b[x].prev \in F /\ b[b[x].prev].next = x /\ c[x].prev = b[x].prev
        BY <1>2, <1>5, <2>4, <3>2 DEF Linked
      <4>2. b[x].prev # x
        BY <1>1, <1>2, <4>1 DEF Linked
      <4>3. QED BY <1>5, <3>2, <4>1, <4>2
    <3>3. CASE y # x /\ y # z /\ y = b[x].next
      BY <1>5, <3>3
    <3>4. CASE y # x /\ y # z /\ y # b[x].next
      <4>1. y \in F /\ c[y].prev = b[y].prev /\ b[y].prev # 0
        BY <1>5, <2>4, <3>4
      <4>2. b[y].prev \in F /\ b[b[y].prev].next = y /\ b[y].prev # x
        BY <1>2, <3>4, <4>1 DEF Linked
      <4>3. QED BY <1>5, <4>1, <4>2
    <3>5. QED BY <3>1, <3>2, <3>3, <3>4
  <2>5. QED BY <2>1, <2>2, <2>3, <2>4 DEF Linked
<1>9. Linked(c, U, used, r)
  <2>1. \A y \in U : y # x /\ y # b[x].next
    <3>1. b[x].next = 0 \/ b[x].next \in F
      BY <1>2 DEF Linked
    <3>2. QED BY <1>1, <3>1
  <2>2. \A y \in U : c[y].next = b[y].next /\ c[y].prev = b[y].prev /\ r[y] = 2 * rank[y]
    BY <1>5, <1>6, <2>1
  <2>3. \A y \in U : b[y].next # 0 => r[b[y].next] < r[y]
    <3>1. SUFFICES ASSUME NEW y \in U, b[y].next # 0 PROVE r[b[y].next] < r[y]
      OBVIOUS
    <3>2. b[y].next \in U /\ rank[b[y].next] < rank[y]
      BY <1>2, <3>1 DEF Linked
    <3>3. rank[b[y].next] \in Nat /\ rank[y] \in Nat
      BY <1>1, <3>2
    <3>4. QED BY <2>2, <3>2, <3>3
  <2>4. QED BY <1>2, <2>2, <2>3 DEF Linked
<1>10. Paved(c, G \cup U, total)
  <2>1. /\ c[z].size = b[x].size - w /\ c[x].size = w
        /\ \A y \in (F \cup U) \ {x} : c[y].size = b[y].size
    BY <1>5
  <2>2. z + c[z].size = x + b[x].size /\ x + c[x].size = z
    BY <1>3, <2>1 DEF z
  <2>3. ASSUME NEW y \in G \cup U PROVE y + c[y].size - 1 <= total
    <3>0. x + b[x].size - 1 <= total
      BY <1>2 DEF Paved
    <3>1. CASE y = z
      <4>1. y + c[y].size = x + b[x].size /\ y \in Nat /\ c[y].size \in Int
        BY <1>3, <2>1, <2>2, <3>1
      <4>2. QED BY <1>1, <1>3, <3>0, <4>1
    <3>2. CASE y = x
      <4>1. y + c[y].size = z /\ y \in Nat /\ c[y].size \in Nat
        BY <1>3, <2>1, <2>2, <3>2
      <4>2. z - 1 <= total
        BY <1>1, <1>3, <3>0
      <4>3. QED BY <1>1, <1>3, <4>1, <4>2
    <3>3. CASE y # x /\ y # z
      BY <1>2, <2>1, <3>3 DEF Paved
    <3>4. QED BY <3>1, <3>2, <3>3
  <2>4. ASSUME NEW y \in G \cup U, NEW v \in G \cup U, y < v PROVE y + c[y].size <= v
    <3>0. y \in Nat /\ v \in Nat
      BY <1>1, <1>3
    <3>1. CASE y = z
      <4>1. v \in F \cup U /\ x < v
        BY <1>3, <2>4, <3>0, <3>1
      <4>2. QED BY <1>4, <2>2, <3>1, <4>1
    <3>2. CASE y = x
      <4>1. v = z \/ (v \in F \cup U /\ z < v)
        BY <1>4, <2>4, <3>2
      <4>2. QED BY <1>3, <2>2, <3>0, <3>2, <4>1
    <3>3. CASE y # x /\ y # z /\ v = z
      <4>1. y \in F \cup U /\ y < x
        <5>1. y \in F \cup U /\ ~(x < y)
          BY <1>3, <1>4, <2>4, <3>0, <3>3
        <5>2. QED BY <1>3, <3>0, <3>3, <5>1
      <4>2. y + b[y].size <= x /\ b[y].size \in Nat
        BY <1>1, <1>2, <4>1 DEF Paved
      <4>3. c[y].size = b[y].size
        BY <2>1, <3>3, <4>1
      <4>4. QED BY <1>3, <3>0, <3>3, <4>2, <4>3
    <3>4. CASE y # x /\ y # z /\ v # z
      BY <1>2, <2>1, <2>4, <3>4 DEF Paved
    <3>5. QED BY <3>1, <3>2, <3>3, <3>4
  <2>5. ASSUME NEW u \in 1 .. total PROVE \E y \in G \cup U : y <= u /\ u < y + c[y].size
    <3>1. PICK y \in F \cup U : y <= u /\ u < y + b[y].size
      BY <1>2 DEF Paved
    <3>2. CASE y = x /\ u < z
      BY <2>2, <3>1, <3>2
    <3>3. CASE y = x /\ ~(u < z)
      <4>1. z <= u /\ u < z + c[z].size
        BY <1>1, <1>3, <2>2, <3>1, <3>3
      <4>2. QED BY <4>1
    <3>4. CASE y # x
      BY <2>1, <3>1, <3>4
    <3>5. QED BY <3>2, <3>3, <3>4
  <2>6. QED BY <2>3, <2>4, <2>5 DEF Paved
<1>11. \A y \in G \cup U : c[y].is_free <=> y \in G
  BY <1>1, <1>2, <1>4, <1>5
<1>12. G \subseteq Nat \ {0} /\ G \cap U = {} /\ 2 * top \in Nat
  <2>1. G \subseteq Nat \ {0}
    BY <1>1, <1>3
  <2>2. G \cap U = {}
    BY <1>1, <1>4
  <2>3. 2 * top \in Nat
    BY <1>1
  <2>4. QED BY <2>1, <2>2, <2>3
<1>13. Shared(c, G, U, free, used, r, 2 * top, total)
  BY <1>1, <1>5, <1>7, <1>8, <1>9, <1>10, <1>11, <1>12 DEF Shared
<1>14. QED BY <1>13 DEF z

LEMMA MoveShares ==
    ASSUME NEW b, NEW F, NEW U, NEW free, NEW used, NEW rank, NEW top, NEW total,
           Shared(b, F, U, free, used, rank, top, total),
           NEW x \in F, NEW c, Moves(b, c, used, x)
    PROVE  \E r : Shared(c, F \ {x}, U \cup {x}, IF b[x].prev = 0 THEN b[x].next ELSE free, x,
                         r, top + 1, total)
<1> DEFINE G == F \ {x}
           V == U \cup {x}
           first == IF b[x].prev = 0 THEN b[x].next ELSE free
           r == [y \in F \cup U |-> IF y = x THEN top + 1 ELSE rank[y]]
<1>1. /\ total \in Nat /\ free \in Nat /\ used \in Nat /\ top \in Nat
      /\ F \subseteq Nat \ {0} /\ U \subseteq Nat \ {0} /\ F \cap U = {}
      /\ DOMAIN b = F \cup U
      /\ \A y \in F \cup U : /\ b[y].size \in Nat \ {0} /\ b[y].next \in Nat /\ b[y].prev \in Nat
                             /\ rank[y] \in Nat /\ rank[y] > 0 /\ rank[y] <= top
      /\ free = 0 \/ free \in F
      /\ used = 0 \/ used \in U
  BY SharedFacts, Zenon
<1>2. /\ Linked(b, F, free, rank) /\ Linked(b, U, used, rank) /\ Paved(b, F \cup U, total)
      /\ \A y \in F \cup U : b[y].is_free <=> y \in F
  BY DEF Shared
<1>3. /\ c \in [F \cup U -> HeapBlocks]
      /\ c[x].size = b[x].size /\ c[x].is_free = FALSE /\ c[x].next = used /\ c[x].prev = 0
      /\ \A y \in (F \cup U) \ {x} :
            /\ c[y].size = b[y].size /\ c[y].is_free = b[y].is_free
            /\ c[y].next = IF y = b[x].prev THEN b[x].next ELSE b[y].next
            /\ c[y].prev = IF y = used THEN x ELSE IF y = b[x].next THEN b[x].prev ELSE b[y].prev
  BY <1>1 DEF Moves, Is
<1>4. r[x] = top + 1 /\ \A y \in (F \cup U) \ {x} : r[y] = rank[y]
  OBVIOUS
<1>5. r \in [F \cup U -> 1 .. top + 1]
  BY <1>1
<1>6. G \cup V = F \cup U /\ G \cap V = {} /\ x \notin U /\ x \in Nat \ {0}
  BY <1>1
\* The neighbours of x, where it has them.
<1>7. /\ b[x].next # 0 => /\ b[x].next \in G /\ b[b[x].next].prev = x
                          /\ rank[b[x].next] < rank[x]
      /\ b[x].prev # 0 => b[x].prev \in G /\ b[b[x].prev].next = x /\ rank[x] < rank[b[x].prev]
      /\ b[x].prev = 0 => x = free
  <2>1. b[x].next # 0 => /\ b[x].next \in F /\ b[b[x].next].prev = x
                         /\ rank[b[x].next] < rank[x]
    BY <1>2 DEF Linked
  <2>2. b[x].next # x
    BY <1>1, <1>6, <2>1
  <2>3. b[x].prev # 0 => b[x].prev \in F /\ b[b[x].prev].next = x
    BY <1>2 DEF Linked
  <2>4. b[x].prev # 0 => rank[x] < rank[b[x].prev]
    BY <1>2, <1>6, <2>3 DEF Linked
  <2>5. b[x].prev # x
    BY <1>1, <1>6, <2>4
  <2>6. b[x].prev = 0 => x = free
    BY <1>2 DEF Linked
  <2>7. QED BY <2>1, <2>2, <2>3, <2>4, <2>5, <2>6
\* The other free blocks lose only x.
<1>8. ASSUME NEW y \in G
      PROVE  /\ c[y].next = IF y = b[x].prev THEN b[x].next ELSE b[y].next
             /\ c[y].prev = IF y = b[x].next THEN b[x].prev ELSE b[y].prev
             /\ r[y] = rank[y] /\ y # used /\ y \in F /\ y # x
  BY <1>1, <1>3, <1>4
<1> HIDE DEF r
<1>9. Linked(c, G, first, r)
  <2>1. first = 0 \/ (first \in G /\ c[first].prev = 0)
    <3>1. CASE b[x].prev = 0
      BY <1>7, <1>8, <3>1
    <3>2. CASE b[x].prev # 0 /\ free # 0
      <4>1. free \in F /\ b[free].prev = 0 /\ free # x /\ free # b[x].next
        BY <1>1, <1>2, <1>6, <1>7, <3>2 DEF Linked
      <4>2. QED BY <1>8, <3>2, <4>1
    <3>3. QED BY <3>1, <3>2
  <2>2. ASSUME NEW y \in G, c[y].prev = 0 PROVE y = first
    <3>1. CASE y = b[x].next
      BY <1>8, <2>2, <3>1
    <3>2. CASE y # b[x].next
      <4>1. b[y].prev = 0 /\ y = free /\ y # x
        BY <1>2, <1>8, <2>2, <3>2 DEF Linked
      <4>2. b[x].prev # 0
        BY <1>7, <4>1
      <4>3. QED BY <4>1, <4>2
    <3>3. QED BY <3>1, <3>2
  <2>3. ASSUME NEW y \in G, c[y].next # 0
        PROVE  c[y].next \in G /\ c[c[y].next].prev = y /\ r[c[y].next] < r[y]
    <3>1. CASE y = b[x].prev
      <4> DEFINE v == b[x].next
      <4>1. c[y].next = v /\ v # 0 /\ v \in G /\ rank[v] < rank[x] /\ rank[x] < rank[y]
        BY <1>1, <1>7, <1>8, <2>3, <3>1
      <4>2. c[v].prev = y /\ r[v] = rank[v] /\ r[y] = rank[y]
        BY <1>8, <3>1, <4>1
      <4>3. rank[v] \in Nat /\ rank[x] \in Nat /\ rank[y] \in Nat
        BY <1>1, <4>1
      <4>4. QED BY <4>1, <4>2, <4>3
    <3>2. CASE y # b[x].prev
      <4> DEFINE v == b[y].next
      <4>1. c[y].next = v /\ v # 0 /\ y \in F
        BY <1>8, <2>3, <3>2
      <4>2. v \in F /\ b[v].prev = y /\ rank[v] < rank[y]
        BY <1>2, <4>1 DEF Linked
      <4>3. v # x /\ v # b[x].next
        BY <1>7, <1>8, <3>2, <4>1, <4>2
      <4>4. c[v].prev = y /\ r[v] = rank[v] /\ r[y] = rank[y]
        BY <1>8, <4>2, <4>3
      <4>5. QED BY <4>1, <4>2, <4>3, <4>4
    <3>3. QED BY <3>1, <3>2
  <2>4. ASSUME NEW y \in G, c[y].prev # 0 PROVE c[y].prev \in G /\ c[c[y].prev].next = y
    <3>1. CASE y = b[x].next
      <4> DEFINE v == b[x].prev
      <4>1. c[y].prev = v /\ v # 0 /\ v \in G
        BY <1>7, <1>8, <2>4, <3>1
      <4>2. c[v].next = y
        BY <1>8, <3>1, <4>1
      <4>3. QED BY <4>1, <4>2
    <3>2. CASE y # b[x].next
      <4> DEFINE v == b[y].prev
      <4>1. c[y].prev = v /\ v # 0 /\ y \in F /\ y # x
        BY <1>8, <2>4, <3>2
      <4>2. v \in F /\ b[v].next = y
        BY <1>2, <4>1 DEF Linked
      <4>3. v # x /\ v # b[x].prev
        BY <1>7, <3>2, <4>1, <4>2
      <4>4. QED BY <1>8, <4>1, <4>2, <4>3
    <3>3. QED BY <3>1, <3>2
  <2>5. QED BY <2>1, <2>2, <2>3, <2>4 DEF Linked
<1>10. Linked(c, V, x, r)
  <2>0. ASSUME NEW y \in U
        PROVE  /\ c[y].next = b[y].next /\ c[y].prev = IF y = used THEN x ELSE b[y].prev
               /\ r[y] = rank[y] /\ y # x
    <3>1. y # b[x].prev /\ y # b[x].next /\ y # x
      BY <1>1, <1>6, <1>7
    <3>2. QED BY <1>3, <1>4, <3>1
  <2>1. x \in V /\ c[x].prev = 0
    BY <1>3
  <2>2. ASSUME NEW y \in V, c[y].prev = 0 PROVE y = x
    BY <1>2, <1>6, <2>0, <2>2 DEF Linked
  <2>3. ASSUME NEW y \in V, c[y].next # 0
        PROVE  c[y].next \in V /\ c[c[y].next].prev = y /\ r[c[y].next] < r[y]
    <3>1. CASE y = x
      <4>1. c[x].next = used /\ used \in U /\ c[used].prev = x
        BY <1>1, <1>3, <2>0, <2>3, <3>1
      <4>2. r[used] < r[x]
        BY <1>1, <1>4, <2>0, <4>1
      <4>3. QED BY <3>1, <4>1, <4>2
    <3>2. CASE y # x
      <4> DEFINE v == b[y].next
      <4>1. y \in U /\ c[y].next = v /\ v # 0
        BY <2>0, <2>3, <3>2
      <4>2. v \in U /\ b[v].prev = y /\ rank[v] < rank[y]
        BY <1>2, <4>1 DEF Linked
      <4>3. v # used
        BY <1>1, <1>2, <4>1, <4>2 DEF Linked
      <4>4. QED BY <2>0, <4>1, <4>2, <4>3
    <3>3. QED BY <3>1, <3>2
  <2>4. ASSUME NEW y \in V, c[y].prev # 0 PROVE c[y].prev \in V /\ c[c[y].prev].next = y
    <3>1. y \in U /\ y # x
      BY <1>3, <2>4
    <3>2. CASE y = used
      BY <1>3, <2>0, <3>1, <3>2
    <3>3. CASE y # used
      <4>1. c[y].prev = b[y].prev /\ b[y].prev \in U /\ b[b[y].prev].next = y
        BY <1>2, <2>0, <2>4, <3>1, <3>3 DEF Linked
      <4>2. QED BY <2>0, <4>1
    <3>4. QED BY <3>2, <3>3
  <2>5. QED BY <2>1, <2>2, <2>3, <2>4 DEF Linked
<1>11. Paved(c, G \cup V, total)
  <2>1. \A y \in F \cup U : c[y].size = b[y].size
    BY <1>3
  <2>2. QED BY <1>2, <1>6, <2>1 DEF Paved
<1>12. \A y \in G \cup V : c[y].is_free <=> y \in G
  BY <1>1, <1>2, <1>3, <1>6
<1>13. first \in Nat /\ G \subseteq Nat \ {0} /\ V \subseteq Nat \ {0} /\ top + 1 \in Nat
  BY <1>1
<1>14. c \in [G \cup V -> HeapBlocks] /\ r \in [G \cup V -> 1 .. top + 1]
  BY <1>3, <1>5, <1>6
<1> HIDE DEF G, V, first
<1>15. Shared(c, G, V, first, x, r, top + 1, total)
  BY <1>1, <1>6, <1>9, <1>10, <1>11, <1>12, <1>13, <1>14 DEF Shared
<1>16. QED BY <1>15 DEF G, V, first

-----------------------------------------------------------------------------
(* The words given out *)

OutWords(b, U) == UNION {x .. x + b[x].size - 1 : x \in U}

LEMMA WordsOut ==
    ASSUME NEW b, NEW U
    PROVE  \A v : v \in OutWords(b, U) <=> \E x \in U : v \in x .. x + b[x].size - 1
BY DEF OutWords

LEMMA OutSame ==
    ASSUME NEW b, NEW c, NEW U, \A x \in U : c[x].size = b[x].size
    PROVE  OutWords(c, U) = OutWords(b, U)
<1>1. \A v : v \in OutWords(c, U) <=> v \in OutWords(b, U)
  <2>1. \A v : v \in OutWords(c, U) <=> \E x \in U : v \in x .. x + b[x].size - 1
    BY WordsOut
  <2>2. QED BY <2>1, WordsOut
<1>2. QED BY <1>1

LEMMA HeapCardinality == \A S : Heap!Cardinality(S) = Cardinality(S)
BY DEF Heap!Cardinality, Cardinality

LEMMA OutGrows ==
    ASSUME NEW b, NEW F, NEW U, NEW free, NEW used, NEW rank, NEW top, NEW total,
           Shared(b, F, U, free, used, rank, top, total), NEW x \in F
    PROVE  Cardinality(OutWords(b, U \cup {x})) = Cardinality(OutWords(b, U)) + b[x].size
<1> DEFINE new == x .. x + b[x].size - 1
           old == OutWords(b, U)
<1>1. /\ total \in Nat /\ F \subseteq Nat \ {0} /\ U \subseteq Nat \ {0} /\ x \notin U
      /\ \A y \in F \cup U : b[y].size \in Nat \ {0}
  BY SharedFacts
<1>2. Paved(b, F \cup U, total)
  BY DEF Shared
<1>3. OutWords(b, U \cup {x}) = old \cup new
  <2>1. \A v : v \in OutWords(b, U \cup {x}) <=> v \in old \/ v \in new
    <3>1. \A v : v \in OutWords(b, U \cup {x}) <=> \E y \in U \cup {x} : v \in y .. y + b[y].size - 1
      BY WordsOut
    <3>2. \A v : v \in OutWords(b, U) <=> \E y \in U : v \in y .. y + b[y].size - 1
      BY WordsOut
    <3>3. QED BY <3>1, <3>2
  <2>2. QED BY <2>1
<1>4. old \subseteq 1 .. total
  <2>1. ASSUME NEW y \in U, NEW v \in y .. y + b[y].size - 1 PROVE v \in 1 .. total
    <3>1. y \in Nat /\ y > 0 /\ b[y].size \in Nat
      BY <1>1
    <3>2. y + b[y].size - 1 <= total
      BY <1>2 DEF Paved
    <3>3. QED BY <1>1, <3>1, <3>2
  <2>2. QED BY <2>1, WordsOut
<1>5. old \cap new = {}
  <2>1. ASSUME NEW y \in U, NEW v \in y .. y + b[y].size - 1, v \in new PROVE FALSE
    <3>1. /\ y \in Nat /\ b[y].size \in Nat /\ x \in Nat /\ b[x].size \in Nat /\ y # x
          /\ v \in Int /\ y <= v /\ v < y + b[y].size /\ x <= v /\ v < x + b[x].size
      BY <1>1, <2>1
    <3>2. (y < x => y + b[y].size <= x) /\ (x < y => x + b[x].size <= y)
      BY <1>2 DEF Paved
    <3>3. QED BY <3>1, <3>2
  <2>2. QED BY <2>1, WordsOut
<1>6. IsFiniteSet(new) /\ Cardinality(new) = b[x].size
  <2>1. x \in Nat /\ b[x].size \in Nat \ {0} /\ x + b[x].size - 1 \in Int
        /\ ~(x > x + b[x].size - 1) /\ (x + b[x].size - 1) - x + 1 = b[x].size
    BY <1>1
  <2> DEFINE e == x + b[x].size - 1
  <2>2. x \in Int /\ e \in Int /\ ~(x > e) /\ e - x + 1 = b[x].size /\ new = x .. e
    BY <2>1
  <2> HIDE DEF e, new
  <2>3. IsFiniteSet(x .. e) /\ Cardinality(x .. e) = IF x > e THEN 0 ELSE e - x + 1
    BY <2>2, FS_Interval
  <2>4. QED BY <2>2, <2>3
<1>7. IsFiniteSet(old)
  <2>1. IsFiniteSet(1 .. total)
    BY <1>1, FS_Interval
  <2>2. QED BY <1>4, <2>1, FS_Subset
<1> HIDE DEF old, new
<1>8. Cardinality(old) \in Nat /\ b[x].size \in Nat /\ Cardinality({}) = 0
  BY <1>1, <1>7, FS_CardinalityType, FS_EmptySet
<1>9. Cardinality(old \cup new) = Cardinality(old) + Cardinality(new) - Cardinality({})
  BY <1>5, <1>6, <1>7, FS_Union
<1>10. Cardinality(old \cup new) = Cardinality(old) + b[x].size
  BY <1>6, <1>8, <1>9
<1>11. QED BY <1>3, <1>10 DEF old

-----------------------------------------------------------------------------
(* The heap after every step *)

HeapLists(F, U, rank, top) ==
    /\ Shared(blocks, F, U, heap_list, used_list, rank, top, total_size)
    /\ heap_used = Cardinality(OutWords(blocks, U))
    /\ allocations \in Seq(U)
    /\ \A j, k \in DOMAIN allocations : allocations[j] = allocations[k] => j = k

ListsInv == \E F, U, rank, top : HeapLists(F, U, rank, top)

\* split_block, taking the block out of one list and putting it at the head of the other.
LEMMA TakeShares ==
    ASSUME NEW b, NEW F, NEW U, NEW free, NEW rank, NEW top, NEW total,
           Shared(b, F, U, free, used_list, rank, top, total),
           heap_used = Cardinality(OutWords(b, U)),
           NEW x \in F, NEW w \in Nat \ {0}, w <= b[x].size,
           Heap!Take(b, free, x, w)
    PROVE  /\ used_list' = x
           /\ \E G, r, t :
                /\ Shared(blocks', G, U \cup {x}, heap_list', x, r, t, total)
                /\ heap_used' = Cardinality(OutWords(blocks', U \cup {x}))
<1> DEFINE s == Heap!split_block(b, x, w)
<1>1. /\ total \in Nat /\ F \subseteq Nat \ {0} /\ U \subseteq Nat \ {0} /\ F \cap U = {}
      /\ DOMAIN b = F \cup U
      /\ \A y \in F \cup U : b[y].size \in Nat \ {0} /\ rank[y] \in Nat
      /\ b \in [F \cup U -> HeapBlocks]
  <2>1. /\ total \in Nat /\ free \in Nat /\ used_list \in Nat /\ top \in Nat
        /\ F \subseteq Nat \ {0} /\ U \subseteq Nat \ {0} /\ F \cap U = {}
        /\ DOMAIN b = F \cup U
        /\ \A y \in F \cup U :
              /\ b[y].size \in Nat \ {0} /\ b[y].next \in Nat /\ b[y].prev \in Nat
              /\ rank[y] \in Nat /\ rank[y] > 0 /\ rank[y] <= top
        /\ free = 0 \/ free \in F
        /\ used_list = 0 \/ used_list \in U
    BY SharedFacts, Zenon
  <2>2. b \in [F \cup U -> HeapBlocks]
    BY DEF Shared
  <2>3. QED BY <2>1, <2>2
<1>2. Linked(b, F, free, rank) /\ Paved(b, F \cup U, total)
  BY DEF Shared
<1>3. b[x].next \in (F \cup U) \cup {0} /\ b[x].next # x
  <2>1. b[x].next # 0 => b[x].next \in F /\ rank[b[x].next] < rank[x]
    BY <1>2 DEF Linked
  <2>2. x # 0
    BY <1>1
  <2>3. b[x].next \in F => b[x].next # x \/ b[x].next = 0
    <3>1. rank[x] \in Nat
      BY <1>1
    <3>2. QED BY <2>1, <3>1
  <2>4. QED BY <2>1, <2>2, <2>3
<1>4. s = b \/ (w < b[x].size /\ Cuts(b, s, x, w))
  <2>1. CASE w = b[x].size
    <3>1. b[x].size - w <= HEAP_BLOCK_SIZE + HEAP_ALIGNMENT
      BY <2>1, MemoryAssumption
    <3>2. QED BY <3>1 DEF Heap!split_block
  <2>2. CASE w # b[x].size
    <3>1. w < b[x].size /\ b[x].size \in Nat /\ x \in Nat
      BY <1>1, <2>2
    <3>2. \A y \in F \cup U : x < y => x + b[x].size <= y
      BY <1>2 DEF Paved
    <3>3. x + w \notin F \cup U
      <4>1. x < x + w /\ ~(x + b[x].size <= x + w)
        BY <3>1
      <4>2. QED BY <3>2, <4>1
    <3>4. F \cup U \subseteq Nat \ {0} /\ x \in F \cup U
      BY <1>1
    <3> DEFINE D == F \cup U
    <3> HIDE DEF D, s
    <3>5. b \in [D -> HeapBlocks] /\ D \subseteq Nat \ {0} /\ x \in D /\ x + w \notin D
          /\ b[x].next \in D \cup {0} /\ b[x].next # x
      BY <1>1, <1>3, <3>3, <3>4 DEF D
    <3>6. \/ Heap!split_block(b, x, w) = b
          \/ w < b[x].size /\ Cuts(b, Heap!split_block(b, x, w), x, w)
      BY <3>5, SplitCuts
    <3>7. QED BY <3>6 DEF s
  <2>3. QED BY <2>1, <2>2
<1> HIDE DEF s
<1>5. PICK G, r, t : /\ Shared(s, G, U, free, used_list, r, t, total) /\ x \in G
                     /\ \A y \in U : s[y].size = b[y].size
  <2>1. CASE s = b
    BY <2>1
  <2>2. CASE w < b[x].size /\ Cuts(b, s, x, w)
    <3>1. \E r : Shared(s, F \cup {x + w}, U, free, used_list, r, 2 * top, total)
      BY <2>2, CutShares
    <3>2. \A y \in U : y \in DOMAIN b \ {x}
      BY <1>1
    <3>3. \A y \in U : s[y].size = b[y].size
      BY <2>2, <3>2 DEF Cuts, Is
    <3>4. QED BY <3>1, <3>3
  <2>3. QED BY <1>4, <2>1, <2>2
<1>6. /\ blocks' = Heap!Used(Heap!Unlinked(s, x), x)
      /\ heap_list' = IF s[x].prev = 0 THEN s[x].next ELSE free
      /\ used_list' = x /\ heap_used' = heap_used + s[x].size
  BY DEF Heap!Take, Heap!NULL, s
<1>7. /\ G \subseteq Nat \ {0} /\ U \subseteq Nat \ {0} /\ G \cap U = {}
      /\ s \in [G \cup U -> HeapBlocks] /\ DOMAIN s = G \cup U
      /\ \A y \in G \cup U : s[y].size \in Nat \ {0} /\ r[y] \in Nat
      /\ used_list = 0 \/ used_list \in U
      /\ Linked(s, G, free, r)
  <2>1. /\ total \in Nat /\ free \in Nat /\ used_list \in Nat /\ t \in Nat
        /\ G \subseteq Nat \ {0} /\ U \subseteq Nat \ {0} /\ G \cap U = {}
        /\ DOMAIN s = G \cup U
        /\ \A y \in G \cup U :
              /\ s[y].size \in Nat \ {0} /\ s[y].next \in Nat /\ s[y].prev \in Nat
              /\ r[y] \in Nat /\ r[y] > 0 /\ r[y] <= t
        /\ free = 0 \/ free \in G
        /\ used_list = 0 \/ used_list \in U
    BY <1>5, SharedFacts, Zenon
  <2>2. s \in [G \cup U -> HeapBlocks] /\ Linked(s, G, free, r)
    BY <1>5 DEF Shared
  <2>3. QED BY <2>1, <2>2
<1>8. Moves(s, blocks', used_list, x)
  <2> DEFINE D == G \cup U
  <2>1. s[x].next # 0 => s[x].next \in G /\ r[s[x].next] < r[x]
    BY <1>5, <1>7 DEF Linked
  <2>2. s[x].prev # 0 => s[x].prev \in G /\ s[s[x].prev].next = x
    BY <1>5, <1>7 DEF Linked
  <2>3. s[x].prev # 0 => r[x] < r[s[x].prev]
    BY <1>5, <1>7, <2>2 DEF Linked
  <2>4. x # 0 /\ r[x] \in Nat /\ used_list # x /\ used_list \in D \cup {0}
    BY <1>5, <1>7
  <2>5. s[x].next # x /\ s[x].prev # x
    BY <2>1, <2>3, <2>4
  <2>6. /\ s \in [D -> HeapBlocks] /\ D \subseteq Nat \ {0} /\ x \in D
        /\ s[x].next \in D \cup {0} /\ s[x].prev \in D \cup {0}
    BY <1>5, <1>7, <2>1, <2>2
  <2> HIDE DEF D
  <2>7. Moves(s, Heap!Used(Heap!Unlinked(s, x), x), used_list, x)
    BY <2>4, <2>5, <2>6, TakenMoves
  <2>8. QED BY <1>6, <2>7
<1>9. \E q : Shared(blocks', G \ {x}, U \cup {x}, heap_list', x, q, t + 1, total)
  BY <1>5, <1>6, <1>8, MoveShares
<1>10. heap_used' = Cardinality(OutWords(blocks', U \cup {x}))
  <2>1. \A y \in U \cup {x} : blocks'[y].size = s[y].size
    BY <1>5, <1>7, <1>8 DEF Moves, Is
  <2>2. OutWords(blocks', U \cup {x}) = OutWords(s, U \cup {x})
    BY <2>1, OutSame
  <2>3. OutWords(s, U) = OutWords(b, U)
    BY <1>5, OutSame
  <2>4. Cardinality(OutWords(s, U \cup {x})) = Cardinality(OutWords(s, U)) + s[x].size
    BY <1>5, OutGrows
  <2>5. QED BY <1>6, <2>2, <2>3, <2>4
<1>11. QED BY <1>6, <1>9, <1>10

LEMMA MallocShares ==
    ASSUME NEW F, NEW U, NEW rank, NEW top, HeapLists(F, U, rank, top),
           NEW size \in HEAP_REQUESTS, Heap!custom_malloc(size)
    PROVE  \E G, r, t :
              /\ Shared(blocks', G, U \cup {used_list'}, heap_list', used_list', r, t, total_size')
              /\ heap_used' = Cardinality(OutWords(blocks', U \cup {used_list'}))
              /\ used_list' \notin U
<1> DEFINE w == Heap!ALIGN(size + HEAP_BLOCK_SIZE)
           fit == Heap!find_best_fit(w)
           n == Heap!request_size(w)
<1>1. w \in Nat \ {0}
  <2>1. size + HEAP_BLOCK_SIZE \in Nat /\ size + HEAP_BLOCK_SIZE > 0
    BY MemoryAssumption
  <2>2. Heap!ALIGN(size + HEAP_BLOCK_SIZE) \in Nat
        /\ Heap!ALIGN(size + HEAP_BLOCK_SIZE) >= size + HEAP_BLOCK_SIZE
    BY <2>1, AlignedUp
  <2> HIDE DEF w
  <2>3. w \in Nat /\ w >= size + HEAP_BLOCK_SIZE
    BY <2>2 DEF w
  <2>4. QED BY <2>1, <2>3
<1>2. /\ Shared(blocks, F, U, heap_list, used_list, rank, top, total_size)
      /\ heap_used = Cardinality(OutWords(blocks, U))
  BY DEF HeapLists
<1>3. Heap!MallocFits(size) \/ Heap!MallocGrows(size)
  BY DEF Heap!custom_malloc
<1>4. CASE Heap!MallocFits(size)
  <2>1. fit # 0 /\ Heap!Take(blocks, heap_list, fit, w) /\ total_size' = total_size
    BY <1>4 DEF Heap!MallocFits, Heap!NULL
  <2> HIDE DEF w
  <2>2. fit \in F /\ blocks[fit].size >= w
    BY <1>1, <1>2, <2>1, FitIsFree
  <2> HIDE DEF fit
  <2>3. blocks[fit].size \in Nat /\ fit \notin U
    BY <1>2, <2>2, SharedFacts
  <2>4. w <= blocks[fit].size
    BY <1>1, <2>2, <2>3
  <2>5. /\ used_list' = fit
        /\ \E G, r, t :
             /\ Shared(blocks', G, U \cup {fit}, heap_list', fit, r, t, total_size)
             /\ heap_used' = Cardinality(OutWords(blocks', U \cup {fit}))
    BY <1>1, <1>2, <2>1, <2>2, <2>4, TakeShares
  <2>6. QED BY <2>1, <2>3, <2>5
<1>5. CASE Heap!MallocGrows(size)
  <2> DEFINE x == total_size + 1
             c == Heap!Grown(w)
  <2>1. Heap!Take(c, x, x, w) /\ total_size' = total_size + n
    BY <1>5 DEF Heap!MallocGrows
  <2>2. n \in Nat \ {0} /\ w <= n
    <3> HIDE DEF w
    <3>1. HEAP_PAGE \in Nat \ {0}
      BY MemoryAssumption
    <3>2. QED BY <1>1, <3>1 DEF Heap!request_size
  <2> HIDE DEF w
  <2>3. Grows(blocks, c, heap_list, x, n)
    BY <1>1, <1>2, GrownGrows
  <2> HIDE DEF c, n, x
  <2>4. PICK r : Shared(c, F \cup {x}, U, x, used_list, r, top + 1, total_size + n)
    <3>1. Grows(blocks, c, heap_list, total_size + 1, n)
      BY <2>3 DEF x
    <3>2. \E r : Shared(c, F \cup {total_size + 1}, U, total_size + 1, used_list, r, top + 1, total_size + n)
      BY <1>2, <2>2, <3>1, GrowShares
    <3>3. QED BY <3>2 DEF x
  <2>5. DOMAIN blocks = F \cup U /\ x \notin U
    <3>1. DOMAIN blocks = F \cup U
      BY <1>2, SharedFacts
    <3>2. (F \cup {x}) \cap U = {}
      BY <2>4 DEF Shared
    <3>3. QED BY <3>1, <3>2
  <2>6. c[x].size = n /\ \A y \in U : c[y].size = blocks[y].size
    BY <2>3, <2>5 DEF Grows, Is
  <2>7. heap_used = Cardinality(OutWords(c, U))
    BY <1>2, <2>6, OutSame
  <2>8. x \in F \cup {x} /\ w <= c[x].size
    BY <2>2, <2>6
  <2> DEFINE H == F \cup {x}
             m == total_size + n
             u == top + 1
  <2>9. /\ Shared(c, H, U, x, used_list, r, u, m) /\ x \in H
    BY <2>4
  <2> HIDE DEF H, m, u
  <2>10. /\ used_list' = x
         /\ \E G, q, t :
              /\ Shared(blocks', G, U \cup {x}, heap_list', x, q, t, m)
              /\ heap_used' = Cardinality(OutWords(blocks', U \cup {x}))
    BY <1>1, <2>1, <2>7, <2>8, <2>9, TakeShares
  <2>11. QED BY <2>1, <2>5, <2>10 DEF m
<1>6. QED BY <1>3, <1>4, <1>5

LEMMA ListsStart == Heap!Init => ListsInv
<1> SUFFICES ASSUME Heap!Init PROVE ListsInv
  OBVIOUS
<1>1. PICK n : n = Heap!ALIGN(HEAP_SIZE)
  OBVIOUS
<1>2. n \in Nat \ {0}
  <2>1. HEAP_SIZE \in Nat \ {0}
    BY MemoryAssumption
  <2>2. n \in Nat /\ n >= HEAP_SIZE
    BY <1>1, <2>1, AlignedUp
  <2>3. QED BY <2>1, <2>2
<1>3. PICK e : e = [size |-> n, is_free |-> TRUE, next |-> 0, prev |-> 0]
  OBVIOUS
<1>4. e \in HeapBlocks /\ e.size = n /\ e.is_free = TRUE /\ e.next = 0 /\ e.prev = 0
  BY <1>2, <1>3 DEF HeapBlocks
<1>5. /\ blocks = [a \in {1} |-> e] /\ heap_list = 1 /\ used_list = 0 /\ total_size = n
      /\ heap_used = 0 /\ allocations = <<>>
  BY <1>1, <1>3 DEF Heap!Init, Heap!init_heap, Heap!FreeBlock, Heap!NULL
<1> DEFINE rank == [a \in {1} |-> 1]
<1>6. {1} \cup {} = {1} /\ blocks \in [{1} -> HeapBlocks] /\ blocks[1] = e
  BY <1>4, <1>5
<1>7. rank \in [{1} -> 1 .. 1]
  OBVIOUS
<1>8. Linked(blocks, {1}, 1, rank) /\ Linked(blocks, {}, 0, rank)
  BY <1>4, <1>6 DEF Linked
<1>9. Paved(blocks, {1}, n)
  <2>1. \A x \in {1} : x + blocks[x].size - 1 <= n
    BY <1>2, <1>4, <1>6
  <2>2. \A v \in 1 .. n : 1 <= v /\ v < 1 + blocks[1].size
    BY <1>2, <1>4, <1>6
  <2>3. QED BY <2>1, <2>2 DEF Paved
<1> HIDE DEF rank
<1>10. Shared(blocks, {1}, {}, 1, 0, rank, 1, n)
  <2>1. \A x \in {1} \cup {} : blocks[x].is_free <=> x \in {1}
    BY <1>4, <1>6
  <2>2. {1} \subseteq Nat \ {0} /\ {} \subseteq Nat \ {0} /\ {1} \cap {} = {} /\ 1 \in Nat /\ 0 \in Nat
    OBVIOUS
  <2>3. QED BY <1>2, <1>6, <1>7, <1>8, <1>9, <2>1, <2>2 DEF Shared
<1>11. heap_used = Cardinality(OutWords(blocks, {}))
  <2>1. OutWords(blocks, {}) = {}
    BY DEF OutWords
  <2>2. QED BY <1>5, <2>1, FS_EmptySet
<1>12. HeapLists({1}, {}, rank, 1)
  BY <1>5, <1>10, <1>11 DEF HeapLists
<1>13. QED BY <1>12 DEF ListsInv

LEMMA ListsStep == ListsInv /\ [Heap!Next]_heapVars => ListsInv'
<1> SUFFICES ASSUME ListsInv, [Heap!Next]_heapVars PROVE ListsInv'
  OBVIOUS
<1>1. PICK F, U, rank, top : HeapLists(F, U, rank, top)
  BY DEF ListsInv
<1>2. CASE UNCHANGED heapVars
  BY <1>1, <1>2 DEF heapVars, ListsInv, HeapLists
<1>3. ASSUME NEW size \in HEAP_REQUESTS, Heap!custom_malloc(size),
             allocations' = allocations \/ allocations' = Append(allocations, used_list')
      PROVE  ListsInv'
  <2>0. PICK V : V = U \cup {used_list'}
    OBVIOUS
  <2>1. PICK G, r, t :
              /\ Shared(blocks', G, V, heap_list', used_list', r, t, total_size')
              /\ heap_used' = Cardinality(OutWords(blocks', V))
              /\ used_list' \notin U
    BY <1>1, <1>3, <2>0, MallocShares
  <2>2. /\ allocations \in Seq(U)
        /\ \A j, k \in DOMAIN allocations : allocations[j] = allocations[k] => j = k
    BY <1>1 DEF HeapLists
  <2>3. /\ allocations' \in Seq(V)
        /\ \A j, k \in DOMAIN allocations' : allocations'[j] = allocations'[k] => j = k
    <3>1. \A k \in DOMAIN allocations : allocations[k] # used_list'
      BY <2>1, <2>2
    <3>2. allocations \in Seq(V) /\ Len(allocations) \in Nat
          /\ DOMAIN allocations = 1 .. Len(allocations) /\ used_list' \in V
      BY <2>0, <2>2
    <3>3. CASE allocations' = allocations
      BY <2>2, <3>2, <3>3
    <3>4. CASE allocations' = Append(allocations, used_list')
      <4> DEFINE l == Len(allocations)
                 a == used_list'
                 s == Append(allocations, a)
      <4>1. s \in Seq(V) /\ DOMAIN s = 1 .. l + 1 /\ s[l + 1] = a
            /\ \A k \in 1 .. l : s[k] = allocations[k]
        BY <3>2
      <4>2. \A j, k \in DOMAIN s : s[j] = s[k] => j = k
        <5> HIDE DEF s, l
        <5>0. l \in Nat /\ DOMAIN allocations = 1 .. l /\ \A k \in 1 .. l : s[k] # a
          BY <3>1, <3>2, <4>1 DEF l
        <5>1. \A k \in 1 .. l + 1 : k \in 1 .. l \/ k = l + 1
          BY <5>0
        <5>2. QED BY <2>2, <4>1, <5>0, <5>1
      <4>3. QED BY <3>4, <4>1, <4>2
    <3>5. QED BY <1>3, <3>3, <3>4
  <2>4. HeapLists(G, V, r, t)'
    BY <2>1, <2>3 DEF HeapLists
  <2>5. QED BY <2>4 DEF ListsInv
<1>4. ASSUME NEW block, Heap!custom_free(block),
             \/ allocations' = allocations
             \/ \E k \in DOMAIN allocations :
                   allocations' = [j \in 1 .. Len(allocations) - 1 |->
                                      allocations[IF j < k THEN j ELSE j + 1]]
      PROVE  ListsInv'
  <2>1. UNCHANGED <<blocks, heap_list, used_list, total_size, heap_used>>
    BY <1>4 DEF Heap!custom_free
  <2>2. /\ allocations \in Seq(U)
        /\ \A j, k \in DOMAIN allocations : allocations[j] = allocations[k] => j = k
    BY <1>1 DEF HeapLists
  <2>3. /\ allocations' \in Seq(U)
        /\ \A j, k \in DOMAIN allocations' : allocations'[j] = allocations'[k] => j = k
    <3>1. CASE allocations' = allocations
      BY <2>2, <3>1
    <3>2. ASSUME NEW k \in DOMAIN allocations,
                 allocations' = [j \in 1 .. Len(allocations) - 1 |->
                                      allocations[IF j < k THEN j ELSE j + 1]]
          PROVE  /\ allocations' \in Seq(U)
                 /\ \A j, m \in DOMAIN allocations' : allocations'[j] = allocations'[m] => j = m
      <4> DEFINE l == Len(allocations)
                 At(j) == IF j < k THEN j ELSE j + 1
      <4>1. l \in Nat /\ DOMAIN allocations = 1 .. l /\ k \in 1 .. l /\ l - 1 \in Nat
            /\ \A j \in 1 .. l : allocations[j] \in U
        BY <2>2
      <4>2. \A j \in 1 .. l - 1 : At(j) \in 1 .. l
        BY <4>1
      <4>3. \A j, m \in 1 .. l - 1 : At(j) = At(m) => j = m
        BY <4>1
      <4>4. DOMAIN allocations' = 1 .. l - 1 /\ \A j \in 1 .. l - 1 : allocations'[j] = allocations[At(j)]
        BY <3>2
      <4>5. allocations' = [j \in 1 .. l - 1 |-> allocations'[j]]
        BY <3>2
      <4> HIDE DEF At, l
      <4>6. allocations' \in [1 .. l - 1 -> U]
        BY <4>1, <4>2, <4>4, <4>5
      <4>7. allocations' \in Seq(U)
        BY <4>1, <4>6
      <4>8. QED BY <2>2, <4>1, <4>2, <4>3, <4>4, <4>7
    <3>3. QED BY <1>4, <3>1, <3>2
  <2>4. HeapLists(F, U, rank, top)'
    BY <1>1, <2>1, <2>3 DEF HeapLists
  <2>5. QED BY <2>4 DEF ListsInv
<1>5. CASE Heap!Next
  <2>1. CASE \E size \in HEAP_REQUESTS : \/ Heap!debug_malloc(size)
                                         \/ Heap!custom_malloc(size) /\ UNCHANGED allocations
    BY <1>3, <2>1 DEF Heap!debug_malloc
  <2>2. CASE \E block \in DOMAIN blocks :
                Heap!debug_free(block) \/ (Heap!custom_free(block) /\ UNCHANGED allocations)
    BY <1>4, <2>2 DEF Heap!debug_free
  <2>3. QED BY <1>5, <2>1, <2>2 DEF Heap!Next
<1>6. QED BY <1>2, <1>5

LEMMA ListsTile == ListsInv => Heap!HeapSound
<1> SUFFICES ASSUME ListsInv PROVE Heap!HeapSound
  OBVIOUS
<1>1. PICK F, U, rank, top : HeapLists(F, U, rank, top)
  BY DEF ListsInv
<1>2. Shared(blocks, F, U, heap_list, used_list, rank, top, total_size)
  BY <1>1 DEF HeapLists
<1>3. Heap!FreeBlocks = F /\ Heap!UsedBlocks = U
  BY <1>2, ListsWalked DEF Heap!FreeBlocks, Heap!UsedBlocks
<1>4. /\ total_size \in Nat /\ F \subseteq Nat \ {0} /\ U \subseteq Nat \ {0} /\ F \cap U = {}
      /\ DOMAIN blocks = F \cup U
      /\ \A y \in F \cup U : blocks[y].size \in Nat \ {0}
      /\ heap_list = 0 \/ heap_list \in F
      /\ used_list = 0 \/ used_list \in U
  BY <1>2, SharedFacts
<1>5. /\ Linked(blocks, F, heap_list, rank) /\ Linked(blocks, U, used_list, rank)
      /\ Paved(blocks, F \cup U, total_size)
      /\ \A y \in F \cup U : blocks[y].is_free <=> y \in F
  BY <1>2 DEF Shared
<1>6. Heap!ListsExact
  <2>1. \A a \in DOMAIN blocks : blocks[a].prev = 0 <=> a \in {heap_list, used_list}
    <3>1. \A a \in F : blocks[a].prev = 0 <=> a = heap_list
      BY <1>4, <1>5 DEF Linked
    <3>2. \A a \in U : blocks[a].prev = 0 <=> a = used_list
      BY <1>4, <1>5 DEF Linked
    <3>3. (\A a \in F : a # used_list) /\ (\A a \in U : a # heap_list)
      BY <1>4
    <3>4. QED BY <1>4, <3>1, <3>2, <3>3
  <2>2. \A a \in DOMAIN blocks : blocks[a].next # 0 => blocks[blocks[a].next].prev = a
    BY <1>4, <1>5 DEF Linked
  <2>3. \A a \in DOMAIN blocks : blocks[a].is_free <=> a \in F
    BY <1>4, <1>5
  <2>4. F \cap U = {} /\ F \cup U = DOMAIN blocks
    BY <1>4
  <2>5. QED BY <1>3, <2>1, <2>2, <2>3, <2>4 DEF Heap!ListsExact, Heap!NULL
<1>7. \A a \in DOMAIN blocks : /\ a \in Nat \ {0} /\ blocks[a].size \in Nat \ {0}
                               /\ Heap!Words(a) = a .. a + blocks[a].size - 1
  BY <1>4 DEF Heap!Words
<1>8. ASSUME NEW a \in DOMAIN blocks, NEW c \in DOMAIN blocks, a # c
      PROVE  Heap!Words(a) \cap Heap!Words(c) = {}
  <2>1. /\ a < c => a + blocks[a].size <= c
        /\ c < a => c + blocks[c].size <= a
    BY <1>4, <1>5 DEF Paved
  <2>2. a \in Nat /\ c \in Nat /\ blocks[a].size \in Nat /\ blocks[c].size \in Nat
    BY <1>7
  <2>3. \A v : ~(v \in a .. a + blocks[a].size - 1 /\ v \in c .. c + blocks[c].size - 1)
    BY <1>8, <2>1, <2>2
  <2>4. QED BY <1>7, <2>3
<1>9. UNION {Heap!Words(a) : a \in DOMAIN blocks} = 1 .. total_size
  <2>1. ASSUME NEW a \in DOMAIN blocks, NEW v \in Heap!Words(a) PROVE v \in 1 .. total_size
    <3>1. a + blocks[a].size - 1 <= total_size
      BY <1>4, <1>5 DEF Paved
    <3>2. QED BY <1>4, <1>7, <3>1
  <2>2. ASSUME NEW v \in 1 .. total_size PROVE \E a \in DOMAIN blocks : v \in Heap!Words(a)
    <3>1. PICK a \in DOMAIN blocks : a <= v /\ v < a + blocks[a].size
      BY <1>4, <1>5 DEF Paved
    <3>2. v \in a .. a + blocks[a].size - 1
      BY <1>7, <3>1
    <3>3. QED BY <1>7, <3>2
  <2>3. QED BY <2>1, <2>2
<1>10. heap_used = Heap!Cardinality(UNION {Heap!Words(a) : a \in Heap!UsedBlocks})
  <2>1. {Heap!Words(a) : a \in U} = {a .. a + blocks[a].size - 1 : a \in U}
    BY DEF Heap!Words
  <2>2. UNION {Heap!Words(a) : a \in Heap!UsedBlocks} = OutWords(blocks, U)
    BY <1>3, <2>1 DEF OutWords
  <2>3. QED BY <1>1, <2>2, HeapCardinality DEF HeapLists
<1>11. Heap!IsInjective(allocations) /\ Heap!Range(allocations) \subseteq Heap!UsedBlocks
  <2>1. /\ allocations \in Seq(U)
        /\ \A j, k \in DOMAIN allocations : allocations[j] = allocations[k] => j = k
    BY <1>1 DEF HeapLists
  <2>2. \A k \in DOMAIN allocations : allocations[k] \in U
    BY <2>1
  <2>3. QED BY <1>3, <2>1, <2>2 DEF Heap!IsInjective, Heap!Range
<1>12. QED BY <1>6, <1>8, <1>9, <1>10, <1>11 DEF Heap!HeapSound

\* For every size of the heap, of the headers and of the requests: however often blocks
\* are split and the heap is grown, its two lists stay linked both ways and tile it, and
\* used_size counts the words given out.
THEOREM HeapShared == MCSpec => []HeapSound
<1> DEFINE I == program = "heap" => ListsInv
<1>1. MCInit => I
  BY ListsStart DEF MCInit
<1>2. I /\ [MCNext]_allVars => I'
  <2>1. [MCNext]_allVars => program' = program /\ (program = "heap" => [Heap!Next]_heapVars)
    BY DEF MCNext, allVars
  <2>2. QED BY <2>1, ListsStep
<1>3. I => HeapSound
  BY ListsTile DEF HeapSound
<1>4. QED BY <1>1, <1>2, <1>3, PTL DEF MCSpec
=============================================================================
