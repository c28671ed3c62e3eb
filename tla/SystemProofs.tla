---------------------------- MODULE SystemProofs ----------------------------
(***************************************************************************)
(* The four invariants of MCSystem for every number of processes, blocks,    *)
(* descriptors, names and buffers and every limit of the code: for each of   *)
(* its nine programs an inductive invariant (SchedInv, BlocksInv, FilesInv,  *)
(* LogInv, PrefetchInv, BufferInv, RegionInv, IndexInv and DirInv), which    *)
(* its initial states have (...Start), every step keeps (...Step) and which  *)
(* has the property (...End).                                                *)
(***************************************************************************)
EXTENDS MCSystem, SequenceTheorems, FiniteSetTheorems, WellFoundedInduction, TLAPS

-----------------------------------------------------------------------------
(* Loops and sums *)

\* Every non-empty set of naturals has a least member.
LEMMA LeastNatural ==
    ASSUME NEW T, T \subseteq Nat, T # {}
    PROVE  \E x \in T : \A y \in T : x <= y
<1>1. PICK x \in T : \A y \in T : ~(<<y, x>> \in OpToRel(<, Nat))
  BY WFMin, NatLessThanWellFounded
<1>2. \A y \in T : ~(y < x)
  BY <1>1 DEF OpToRel
<1>3. \A y \in T : x <= y
  BY <1>2
<1>4. QED BY <1>3

\* A set of naturals that has 0 and with k - 1 also k has all of them up to N.
LEMMA Upwards ==
    ASSUME NEW N \in Nat, NEW S, 0 \in S, \A k \in 1 .. N : k - 1 \in S => k \in S
    PROVE  0 .. N \subseteq S
<1> DEFINE T == (0 .. N) \ S
<1>1. SUFFICES ASSUME T # {} PROVE FALSE
  OBVIOUS
<1>2. T \subseteq Nat
  OBVIOUS
<1>3. PICK m \in T : \A y \in T : m <= y
  BY <1>1, <1>2, LeastNatural
<1>4. m \in 1 .. N
  BY <1>3
<1>5. m - 1 \in 0 .. N /\ m - 1 \notin T
  BY <1>3, <1>4
<1>6. m \in S
  BY <1>4, <1>5
<1>7. QED BY <1>3, <1>6

\* What every turn of a loop keeps holds after each of them: W[k] are the values
\* the loop may have after k turns.
LEMMA LoopKeeps ==
    ASSUME NEW N \in Nat, NEW f, NEW W, f[0] \in W[0],
           \A k \in 1 .. N : f[k - 1] \in W[k - 1] => f[k] \in W[k]
    PROVE  \A k \in 0 .. N : f[k] \in W[k]
<1> DEFINE S == {k \in 0 .. N : f[k] \in W[k]}
<1>1. 0 \in S
  OBVIOUS
<1>2. \A k \in 1 .. N : k - 1 \in S => k \in S
  OBVIOUS
<1> HIDE DEF S
<1>3. 0 .. N \subseteq S
  BY <1>1, <1>2, Upwards
<1>4. QED BY <1>3 DEF S

\* f[k] is the value after k turns of a loop, where F[k] is what its k-th turn makes
\* of the values W[k - 1].
Runs(f, N, base, F, W) ==
    /\ f = [k \in 0 .. N |-> f[k]] /\ f[0] = base
    /\ \A k \in 1 .. N : f[k] = F[k][f[k - 1]]
    /\ \A k \in 0 .. N : f[k] \in W[k]

LEMMA LoopRuns ==
    ASSUME NEW N \in Nat, NEW base, NEW F, NEW W, base \in W[0],
           \A k \in 1 .. N : \A v \in W[k - 1] : F[k][v] \in W[k]
    PROVE  \E f : Runs(f, N, base, F, W)
<1> DEFINE S == {m \in 0 .. N : \E f : Runs(f, m, base, F, W)}
<1>1. 0 \in S
  <2> DEFINE f == [k \in 0 .. 0 |-> base]
  <2>1. Runs(f, 0, base, F, W)
    BY DEF Runs
  <2>2. \E g : Runs(g, 0, base, F, W)
    BY <2>1
  <2>3. QED BY <2>2
<1>2. ASSUME NEW m \in 1 .. N, m - 1 \in S PROVE m \in S
  <2>1. PICK g : Runs(g, m - 1, base, F, W)
    BY <1>2
  <2> DEFINE f == [k \in 0 .. m |-> IF k = m THEN F[m][g[m - 1]] ELSE g[k]]
  <2>2. g[m - 1] \in W[m - 1]
    BY <2>1 DEF Runs
  <2>3. F[m][g[m - 1]] \in W[m]
    BY <2>2
  <2>4. f[m] = F[m][g[m - 1]] /\ \A k \in 0 .. m - 1 : f[k] = g[k]
    OBVIOUS
  <2>5. f = [k \in 0 .. m |-> f[k]]
    OBVIOUS
  <2> HIDE DEF f
  <2>6. f[0] = base
    BY <2>1, <2>4 DEF Runs
  <2>7. ASSUME NEW k \in 1 .. m PROVE f[k] = F[k][f[k - 1]]
    <3>1. CASE k = m
      BY <2>4, <3>1
    <3>2. CASE k # m
      <4>1. k \in 1 .. m - 1 /\ k \in 0 .. m - 1 /\ k - 1 \in 0 .. m - 1
        BY <3>2
      <4>2. g[k] = F[k][g[k - 1]]
        BY <2>1, <4>1 DEF Runs
      <4>3. QED BY <2>4, <4>1, <4>2
    <3>3. QED BY <3>1, <3>2
  <2>8. ASSUME NEW k \in 0 .. m PROVE f[k] \in W[k]
    BY <2>1, <2>3, <2>4 DEF Runs
  <2>9. Runs(f, m, base, F, W)
    BY <2>5, <2>6, <2>7, <2>8 DEF Runs
  <2>10. \E h : Runs(h, m, base, F, W)
    BY <2>9
  <2>11. m \in 0 .. N
    OBVIOUS
  <2>12. QED BY <2>10, <2>11
<1>3. N \in S
  <2> HIDE DEF S
  <2>1. 0 .. N \subseteq S
    BY <1>1, <1>2, Upwards
  <2>2. QED BY <2>1
<1>4. QED BY <1>3

\* The sum of the first N members of t.
Total(t, N) ==
    LET sum[k \in 0 .. N] == IF k = 0 THEN 0 ELSE sum[k - 1] + t[k]
    IN  sum[N]

\* g is that sum, after each of its turns.
IsSum(g, t, N) == g = [k \in 0 .. N |-> IF k = 0 THEN 0 ELSE g[k - 1] + t[k]]

LEMMA SumExists ==
    ASSUME NEW N \in Nat, NEW t, \A k \in 1 .. N : t[k] \in Int
    PROVE  \E g : IsSum(g, t, N)
<1> DEFINE F == [k \in 1 .. N |-> [v \in Int |-> v + t[k]]]
           W == [k \in 0 .. N |-> Int]
<1>1. 0 \in W[0]
  OBVIOUS
<1>2. \A k \in 1 .. N : \A v \in Int : F[k][v] \in Int /\ F[k][v] = v + t[k]
  OBVIOUS
<1>2a. \A k \in 1 .. N : \A v \in W[k - 1] : F[k][v] \in W[k]
  BY <1>2
<1>3. PICK g : Runs(g, N, 0, F, W)
  <2> HIDE DEF F, W
  <2>1. QED BY <1>1, <1>2a, LoopRuns
<1> HIDE DEF F
<1>4. /\ g = [k \in 0 .. N |-> g[k]] /\ g[0] = 0
      /\ \A k \in 1 .. N : g[k] = F[k][g[k - 1]] /\ g[k - 1] \in Int
  <2>1. \A k \in 0 .. N : W[k] = Int
    OBVIOUS
  <2> HIDE DEF W
  <2>2. \A k \in 1 .. N : g[k - 1] \in W[k - 1] /\ W[k - 1] = Int
    BY <1>3, <2>1 DEF Runs
  <2>3. QED BY <1>3, <2>2 DEF Runs
<1> HIDE DEF W
<1>5. IsSum(g, t, N)
  <2>1. \A k \in 0 .. N : g[k] = IF k = 0 THEN 0 ELSE g[k - 1] + t[k]
    <3> TAKE k \in 0 .. N
    <3>1. CASE k = 0
      BY <1>4, <3>1
    <3>2. CASE k \in 1 .. N
      BY <1>2, <1>4, <3>2
    <3>3. QED BY <3>1, <3>2
  <2>2. QED BY <1>4, <2>1 DEF IsSum
<1>6. QED BY <1>5

LEMMA SumTurn ==
    ASSUME NEW N \in Nat, NEW t, NEW g, IsSum(g, t, N)
    PROVE  g[0] = 0 /\ \A k \in 1 .. N : g[k] = g[k - 1] + t[k]
BY DEF IsSum

\* Two sums of the same members are equal.
LEMMA SumAgrees ==
    ASSUME NEW N \in Nat, NEW t, NEW g, IsSum(g, t, N),
           NEW M \in 0 .. N, NEW u, NEW h, IsSum(h, u, M), \A k \in 1 .. M : t[k] = u[k]
    PROVE  \A k \in 0 .. M : g[k] = h[k]
<1> DEFINE W == [k \in 0 .. M |-> {h[k]}]
<1>1. g[0] = 0 /\ \A k \in 1 .. N : g[k] = g[k - 1] + t[k]
  BY SumTurn
<1>2. h[0] = 0 /\ \A k \in 1 .. M : h[k] = h[k - 1] + u[k]
  BY SumTurn
<1>3. g[0] \in W[0] /\ \A k \in 1 .. M : g[k - 1] \in W[k - 1] => g[k] \in W[k]
  BY <1>1, <1>2
<1>4. \A k \in 0 .. M : g[k] \in W[k]
  <2> HIDE DEF W
  <2>1. QED BY <1>3, LoopKeeps
<1>5. QED BY <1>4

LEMMA TotalIs ==
    ASSUME NEW N \in Nat, NEW t, \A k \in 1 .. N : t[k] \in Int
    PROVE  \E g : IsSum(g, t, N) /\ Total(t, N) = g[N] /\ \A k \in 0 .. N : g[k] \in Int
<1> DEFINE g == CHOOSE h : IsSum(h, t, N)
           W == [k \in 0 .. N |-> Int]
<1>1. IsSum(g, t, N)
  BY SumExists
<1>2. Total(t, N) = g[N]
  BY DEF Total, IsSum
<1> HIDE DEF g
<1>3. g[0] = 0 /\ \A k \in 1 .. N : g[k] = g[k - 1] + t[k]
  BY <1>1, SumTurn
<1>4. g[0] \in W[0] /\ \A k \in 1 .. N : g[k - 1] \in W[k - 1] => g[k] \in W[k]
  BY <1>3
<1>5. \A k \in 0 .. N : g[k] \in W[k]
  <2> HIDE DEF W
  <2>1. QED BY <1>4, LoopKeeps
<1>6. QED BY <1>1, <1>2, <1>5

LEMMA TotalNone ==
    ASSUME NEW t
    PROVE  Total(t, 0) = 0
<1>1. PICK g : IsSum(g, t, 0) /\ Total(t, 0) = g[0]
  BY TotalIs
<1>2. QED BY <1>1, SumTurn

LEMMA TotalInt ==
    ASSUME NEW N \in Nat, NEW t, \A k \in 1 .. N : t[k] \in Int
    PROVE  Total(t, N) \in Int
<1>1. PICK g : IsSum(g, t, N) /\ Total(t, N) = g[N] /\ \A k \in 0 .. N : g[k] \in Int
  BY TotalIs
<1>2. QED BY <1>1

LEMMA TotalStep ==
    ASSUME NEW N \in Nat, NEW t, \A k \in 1 .. N + 1 : t[k] \in Int
    PROVE  Total(t, N + 1) = Total(t, N) + t[N + 1]
<1>1. PICK g : IsSum(g, t, N + 1) /\ Total(t, N + 1) = g[N + 1]
  BY TotalIs
<1>2. \A k \in 1 .. N : t[k] \in Int
  OBVIOUS
<1>3. PICK h : IsSum(h, t, N) /\ Total(t, N) = h[N]
  BY <1>2, TotalIs
<1>4. g[N + 1] = g[N] + t[N + 1]
  <2>1. \A k \in 1 .. N + 1 : g[k] = g[k - 1] + t[k]
    BY <1>1, SumTurn
  <2>2. N + 1 \in 1 .. N + 1 /\ (N + 1) - 1 = N
    OBVIOUS
  <2>3. QED BY <2>1, <2>2
<1>5. g[N] = h[N]
  <2>1. N + 1 \in Nat /\ N \in 0 .. N + 1
    OBVIOUS
  <2>2. \A k \in 0 .. N : g[k] = h[k]
    BY <1>1, <1>3, <2>1, SumAgrees
  <2>3. QED BY <2>2
<1>6. QED BY <1>1, <1>3, <1>4, <1>5

LEMMA TotalSame ==
    ASSUME NEW N \in Nat, NEW t, NEW u, \A k \in 1 .. N : t[k] \in Int /\ t[k] = u[k]
    PROVE  Total(t, N) = Total(u, N)
<1>1. PICK g : IsSum(g, t, N) /\ Total(t, N) = g[N]
  BY TotalIs
<1>2. PICK h : IsSum(h, u, N) /\ Total(u, N) = h[N]
  BY TotalIs
<1>3. N \in 0 .. N
  OBVIOUS
<1>4. \A k \in 0 .. N : g[k] = h[k]
  BY <1>1, <1>2, <1>3, SumAgrees
<1>5. QED BY <1>1, <1>2, <1>3, <1>4

\* What RemoveAt makes of a sequence.
LEMMA Removed ==
    ASSUME NEW S, NEW s \in Seq(S), NEW p \in 1 .. Len(s), NEW z,
           z = SubSeq(s, 1, p - 1) \o SubSeq(s, p + 1, Len(s))
    PROVE  /\ z \in Seq(S) /\ Len(z) = Len(s) - 1
           /\ \A k \in 1 .. Len(s) - 1 : z[k] = IF k < p THEN s[k] ELSE s[k + 1]
<1>1. Len(s) \in Nat /\ \A k \in 1 .. Len(s) : s[k] \in S
  BY ElementOfSeq
<1>2. PICK a : a = SubSeq(s, 1, p - 1)
  OBVIOUS
<1>3. PICK b : b = SubSeq(s, p + 1, Len(s))
  OBVIOUS
<1>4. a \in Seq(S) /\ Len(a) = p - 1 /\ \A k \in 1 .. p - 1 : a[k] = s[k]
  <2>1. p - 1 \in Int /\ \A k \in 1 .. p - 1 : s[k] \in S
    BY <1>1
  <2>2. /\ a \in Seq(S) /\ Len(a) = IF 1 <= p - 1 THEN p - 1 - 1 + 1 ELSE 0
        /\ \A k \in 1 .. p - 1 - 1 + 1 : a[k] = s[1 + k - 1]
    BY <1>2, <2>1, SubSeqProperties
  <2>3. p \in Nat /\ p - 1 - 1 + 1 = p - 1 /\ Len(a) = p - 1
    BY <1>1, <2>2
  <2>4. \A k \in 1 .. p - 1 : 1 + k - 1 = k
    BY <2>3
  <2>5. QED BY <2>2, <2>3, <2>4
<1>5. b \in Seq(S) /\ Len(b) = Len(s) - p /\ \A k \in 1 .. Len(s) - p : b[k] = s[p + k]
  <2>1. p + 1 \in Int /\ Len(s) \in Int /\ \A k \in p + 1 .. Len(s) : s[k] \in S
    BY <1>1
  <2>2. /\ b \in Seq(S) /\ Len(b) = IF p + 1 <= Len(s) THEN Len(s) - (p + 1) + 1 ELSE 0
        /\ \A k \in 1 .. Len(s) - (p + 1) + 1 : b[k] = s[p + 1 + k - 1]
    BY <1>3, <2>1, SubSeqProperties
  <2>3. Len(b) = Len(s) - p
    BY <1>1, <2>2
  <2>4. ASSUME NEW k \in 1 .. Len(s) - p PROVE b[k] = s[p + k]
    <3>1. k \in 1 .. Len(s) - (p + 1) + 1 /\ p + 1 + k - 1 = p + k
      BY <1>1
    <3>2. QED BY <2>2, <3>1
  <2>5. QED BY <2>2, <2>3, <2>4
<1>6. /\ a \o b \in Seq(S) /\ Len(a \o b) = Len(a) + Len(b)
      /\ \A k \in 1 .. Len(a) + Len(b) :
            (a \o b)[k] = IF k <= Len(a) THEN a[k] ELSE b[k - Len(a)]
  BY <1>4, <1>5, ConcatProperties
<1>7. z = a \o b
  BY <1>2, <1>3
<1>8. Len(z) = Len(s) - 1
  <2>1. Len(z) = Len(a) + Len(b)
    BY <1>6, <1>7
  <2>2. Len(z) = (p - 1) + (Len(s) - p)
    BY <1>4, <1>5, <2>1
  <2>3. p \in Int
    BY <1>1
  <2>4. (p - 1) + (Len(s) - p) = Len(s) - 1
    BY <1>1, <2>3
  <2>5. QED BY <2>2, <2>4, Zenon
<1>9. ASSUME NEW k \in 1 .. Len(s) - 1 PROVE z[k] = IF k < p THEN s[k] ELSE s[k + 1]
  <2>1. k \in 1 .. Len(a) + Len(b)
    BY <1>1, <1>4, <1>5
  <2>2. CASE k < p
    <3>1. k <= Len(a) /\ k \in 1 .. p - 1
      BY <1>4, <2>2
    <3>2. QED BY <1>4, <1>6, <1>7, <2>1, <2>2, <3>1
  <2>3. CASE ~(k < p)
    <3>1. ~(k <= Len(a)) /\ k - Len(a) \in 1 .. Len(s) - p /\ p + (k - Len(a)) = k + 1
      BY <1>1, <1>4, <2>3
    <3>2. z[k] = b[k - Len(a)]
      BY <1>6, <1>7, <2>1, <3>1
    <3>3. b[k - Len(a)] = s[p + (k - Len(a))]
      BY <1>5, <3>1
    <3>4. QED BY <2>3, <3>1, <3>2, <3>3
  <2>4. QED BY <2>2, <2>3
<1>10. QED BY <1>6, <1>7, <1>8, <1>9

-----------------------------------------------------------------------------
(* buffering_system.c *)

\* The bytes of the buffer that are not read yet.
Unread == IF position < Len(data) THEN Len(data) - position ELSE 0

\* All bytes of g are those of the file; or the first ones are, and the others came
\* after a failed read.
FromFile(g) == \A k \in 1 .. Len(g) : g[k] = k
Delivered(g, f) ==
    \E m \in 0 .. Len(g) :
        /\ \A k \in 1 .. m : g[k] = k
        /\ m < Len(g) => f /\ \A k \in m + 1 .. Len(g) : g[k] = Buffered!Stale

\* Until a read fails or something is written, the buffer holds the bytes before the
\* file's offset, and those the client did not get are the unread ones.  A dirty buffer
\* was written to before a read failed, if one did.
BufferInv ==
    /\ data \in Seq(Int) /\ position \in Nat /\ offset \in Nat /\ left \in Nat
    /\ got \in Seq(Int) /\ mixed \in BOOLEAN /\ failed \in BOOLEAN
    /\ Delivered(got, failed)
    /\ (~failed \/ dirty) => FromFile(got)
    /\ dirty => mixed
    /\ ~mixed => call # "write"
    /\ (~mixed /\ ~failed) =>
          /\ offset <= FILE_SIZE
          /\ \A k \in 1 .. Len(data) : data[k] = offset - Len(data) + k
          /\ Len(got) = offset - Unread

LEMMA AllDelivered ==
    ASSUME NEW g \in Seq(Int), NEW f, FromFile(g)
    PROVE  Delivered(g, f)
<1>1. Len(g) \in 0 .. Len(g) /\ ~(Len(g) < Len(g))
  OBVIOUS
<1>2. QED BY <1>1 DEF FromFile, Delivered

LEMMA BufferSame ==
    ASSUME BufferInv, UNCHANGED <<got, failed, dirty, mixed>>
    PROVE  /\ got' \in Seq(Int) /\ mixed' \in BOOLEAN /\ failed' \in BOOLEAN
           /\ Delivered(got, failed)'
           /\ ((~failed \/ dirty) => FromFile(got))'
           /\ (dirty => mixed)'
BY DEF BufferInv, Delivered, FromFile

LEMMA BufferStart == Buffered!Init => BufferInv
<1> SUFFICES ASSUME Buffered!Init PROVE BufferInv
  OBVIOUS
<1>1. /\ data = <<>> /\ got = <<>> /\ position = 0 /\ offset = 0 /\ left = 0 /\ mixed = FALSE
      /\ call = "none" /\ failed = FALSE /\ dirty = FALSE
  BY DEF Buffered!Init, Buffered!create_buffered_file
<1>2. data \in Seq(Int) /\ got \in Seq(Int) /\ Len(data) = 0 /\ Len(got) = 0
  BY <1>1, EmptySeq
<1>3. FILE_SIZE \in Nat
  BY SystemAssumption
<1>4. Unread = 0
  BY <1>1, <1>2 DEF Unread
<1>5. /\ position \in Nat /\ offset \in Nat /\ offset <= FILE_SIZE /\ left \in Nat
      /\ (\A k \in 1 .. Len(got) : got[k] = k)
      /\ (\A k \in 1 .. Len(data) : data[k] = offset - Len(data) + k)
      /\ Len(got) = offset - Unread
  BY <1>1, <1>2, <1>3, <1>4
<1>6. FromFile(got) /\ Delivered(got, failed)
  BY <1>2, <1>5, AllDelivered DEF FromFile
<1>7. QED BY <1>1, <1>2, <1>5, <1>6 DEF BufferInv

LEMMA BufferCopies ==
    ASSUME BufferInv, Buffered!CopyOut
    PROVE  BufferInv'
<1>1. PICK c : c = Buffered!Least(left, Len(data) - position)
  OBVIOUS
<1>2. /\ data \in Seq(Int) /\ position \in Nat /\ offset \in Nat /\ left \in Nat /\ left > 0
      /\ got \in Seq(Int) /\ position < Len(data) /\ ~failed /\ mixed \in BOOLEAN
      /\ data' = data /\ offset' = offset /\ mixed' = mixed /\ call' = call
      /\ dirty' = dirty /\ failed' = failed /\ failed \in BOOLEAN
      /\ position' = position + c /\ left' = left - c
      /\ got' = IF mixed THEN got ELSE got \o SubSeq(data, position + 1, position + c)
  BY <1>1, SystemAssumption DEF BufferInv, Buffered!CopyOut, Buffered!Reading
<1>3. c \in Nat /\ c <= left /\ c <= Len(data) - position
  BY <1>1, <1>2 DEF Buffered!Least
<1>4. CASE mixed
  <2>1. UNCHANGED <<got, failed, dirty, mixed>>
    BY <1>2, <1>4
  <2>2. position' \in Nat /\ left' \in Nat
    BY <1>2, <1>3
  <2>3. QED BY <1>2, <1>4, <2>1, <2>2, BufferSame DEF BufferInv
<1>5. CASE ~mixed
  <2>1. PICK s : s = SubSeq(data, position + 1, position + c)
    OBVIOUS
  <2>2. s \in Seq(Int) /\ Len(s) = c /\ \A k \in 1 .. c : s[k] = data[position + k]
    <3>1. \A k \in position + 1 .. position + c : data[k] \in Int
      BY <1>2, <1>3, ElementOfSeq
    <3>2. position + 1 \in Int /\ position + c \in Int
      BY <1>2, <1>3
    <3>3. /\ s \in Seq(Int)
          /\ Len(s) = IF position + 1 <= position + c THEN (position + c) - (position + 1) + 1 ELSE 0
          /\ \A k \in 1 .. (position + c) - (position + 1) + 1 : s[k] = data[(position + 1) + k - 1]
      BY <2>1, <3>1, <3>2, SubSeqProperties
    <3>4. Len(s) = c /\ (position + c) - (position + 1) + 1 = c
      BY <1>2, <1>3, <3>3
    <3>5. \A k \in 1 .. c : (position + 1) + k - 1 = position + k
      BY <1>2, <1>3
    <3>6. QED BY <3>3, <3>4, <3>5
  <2>3. /\ Len(got) = offset - (Len(data) - position)
        /\ \A k \in 1 .. Len(data) : data[k] = offset - Len(data) + k
        /\ \A k \in 1 .. Len(got) : got[k] = k
        /\ offset <= FILE_SIZE /\ call # "write" /\ ~dirty
    BY <1>2, <1>5 DEF BufferInv, Unread, FromFile
  <2>4. got' = got \o s
    BY <1>2, <1>5, <2>1
  <2>5. /\ got' \in Seq(Int) /\ Len(got') = Len(got) + c
        /\ \A k \in 1 .. Len(got) + c : got'[k] = IF k <= Len(got) THEN got[k] ELSE s[k - Len(got)]
    <3>1. got \in Seq(Int) /\ s \in Seq(Int) /\ Len(s) = c
      BY <1>2, <2>2
    <3>2. /\ got \o s \in Seq(Int) /\ Len(got \o s) = Len(got) + Len(s)
          /\ \A k \in 1 .. Len(got) + Len(s) :
                (got \o s)[k] = IF k <= Len(got) THEN got[k] ELSE s[k - Len(got)]
      BY <3>1, ConcatProperties
    <3>3. QED BY <2>4, <3>1, <3>2
  <2>6. ASSUME NEW k \in 1 .. Len(got') PROVE got'[k] = k
    <3>1. k \in 1 .. Len(got) + c /\ Len(got) \in Nat
      BY <1>2, <2>5
    <3>2. CASE k <= Len(got)
      BY <2>3, <2>5, <3>1, <3>2
    <3>3. CASE k > Len(got)
      <4>1. PICK j : j = k - Len(got)
        OBVIOUS
      <4>2. j \in 1 .. c /\ got'[k] = s[j]
        BY <1>3, <2>5, <3>1, <3>3, <4>1
      <4>3. position + j \in 1 .. Len(data)
        BY <1>2, <1>3, <4>2
      <4>4. s[j] = offset - Len(data) + (position + j)
        BY <2>2, <2>3, <4>2, <4>3
      <4>5. /\ Len(data) \in Nat /\ Len(got) \in Nat /\ offset \in Nat /\ position \in Nat
            /\ Len(got) = offset - (Len(data) - position)
        BY <1>2, <2>3
      <4>6. QED BY <3>1, <4>1, <4>2, <4>4, <4>5
    <3>4. QED BY <3>1, <3>2, <3>3
  <2>7. Len(got') = offset' - Unread'
    <3>1. Len(data) \in Nat /\ Len(data') = Len(data)
      BY <1>2
    <3>2. Unread' = Len(data) - (position + c)
      BY <1>2, <1>3, <3>1 DEF Unread
    <3>3. QED BY <1>2, <1>3, <2>3, <2>5, <3>1, <3>2
  <2>8. FromFile(got') /\ Delivered(got', failed')
    BY <2>5, <2>6, AllDelivered DEF FromFile
  <2>9. position' \in Nat /\ left' \in Nat
    BY <1>2, <1>3
  <2>10. QED BY <1>2, <1>5, <2>3, <2>5, <2>7, <2>8, <2>9 DEF BufferInv
<1>6. QED BY <1>2, <1>4, <1>5

\* What is served after a failed read is marked as such.
LEMMA BufferStale ==
    ASSUME BufferInv, Buffered!CopyStale
    PROVE  BufferInv'
<1>1. /\ failed /\ position \in Nat /\ left \in Nat /\ got \in Seq(Int) /\ mixed \in BOOLEAN
      /\ data \in Seq(Int) /\ offset \in Nat /\ failed \in BOOLEAN
      /\ Delivered(got, failed) /\ (dirty => FromFile(got)) /\ (dirty => mixed)
      /\ (~mixed => call # "write")
      /\ UNCHANGED <<data, dirty, failed, offset, call, mixed>>
      /\ position' = position + left /\ left' = 0
      /\ got' = IF mixed THEN got ELSE got \o [k \in 1 .. left |-> Buffered!Stale]
  BY DEF BufferInv, Buffered!CopyStale, Buffered!Reading
<1>2. CASE mixed
  <2>1. UNCHANGED <<got, failed, dirty, mixed>>
    BY <1>1, <1>2
  <2>2. data' \in Seq(Int) /\ position' \in Nat /\ offset' \in Nat /\ left' \in Nat /\ mixed'
    BY <1>1, <1>2
  <2>3. QED BY <2>1, <2>2, BufferSame DEF BufferInv
<1>3. CASE ~mixed
  <2>1. PICK s : s = [k \in 1 .. left |-> Buffered!Stale]
    OBVIOUS
  <2>2. s \in Seq(Int) /\ Len(s) = left /\ \A k \in 1 .. left : s[k] = Buffered!Stale
    BY <1>1, <2>1 DEF Buffered!Stale
  <2>3. /\ got' \in Seq(Int) /\ Len(got') = Len(got) + left
        /\ \A k \in 1 .. Len(got) + left :
              got'[k] = IF k <= Len(got) THEN got[k] ELSE s[k - Len(got)]
    <3>1. got' = got \o s
      BY <1>1, <1>3, <2>1
    <3>2. /\ got \o s \in Seq(Int) /\ Len(got \o s) = Len(got) + Len(s)
          /\ \A k \in 1 .. Len(got) + Len(s) :
                (got \o s)[k] = IF k <= Len(got) THEN got[k] ELSE s[k - Len(got)]
      BY <1>1, <2>2, ConcatProperties
    <3>3. QED BY <2>2, <3>1, <3>2
  <2>4. PICK m \in 0 .. Len(got) :
            /\ \A k \in 1 .. m : got[k] = k
            /\ m < Len(got) => \A k \in m + 1 .. Len(got) : got[k] = Buffered!Stale
    BY <1>1 DEF Delivered
  <2>5. m \in 0 .. Len(got') /\ \A k \in 1 .. m : got'[k] = k
    BY <1>1, <2>3, <2>4
  <2>6. ASSUME NEW k \in m + 1 .. Len(got') PROVE got'[k] = Buffered!Stale
    <3>1. k \in 1 .. Len(got) + left /\ Len(got) \in Nat
      BY <1>1, <2>3, <2>4
    <3>2. CASE k <= Len(got)
      BY <2>3, <2>4, <2>6, <3>1, <3>2
    <3>3. CASE ~(k <= Len(got))
      <4>1. k - Len(got) \in 1 .. left
        BY <1>1, <3>1, <3>3
      <4>2. QED BY <2>2, <2>3, <3>1, <3>3, <4>1
    <3>4. QED BY <3>2, <3>3
  <2>7. Delivered(got', failed')
    BY <1>1, <2>5, <2>6 DEF Delivered
  <2>8. position' \in Nat /\ left' \in Nat
    BY <1>1
  <2>9. QED BY <1>1, <1>3, <2>3, <2>7, <2>8 DEF BufferInv
<1>4. QED BY <1>1, <1>2, <1>3

LEMMA BufferStep == BufferInv /\ Buffered!Next => BufferInv'
<1> SUFFICES ASSUME BufferInv, Buffered!Next PROVE BufferInv'
  OBVIOUS
<1>0. /\ data \in Seq(Int) /\ position \in Nat /\ offset \in Nat /\ left \in Nat
      /\ got \in Seq(Int) /\ mixed \in BOOLEAN /\ failed \in BOOLEAN /\ FILE_SIZE \in Nat
      /\ Delivered(got, failed)
      /\ (~failed \/ dirty) => FromFile(got)
      /\ dirty => mixed
      /\ ~mixed => call # "write"
      /\ (~mixed /\ ~failed) =>
            /\ offset <= FILE_SIZE
            /\ \A k \in 1 .. Len(data) : data[k] = offset - Len(data) + k
            /\ Len(got) = offset - Unread
  <2>1. FILE_SIZE \in Nat
    BY SystemAssumption
  <2>2. QED BY <2>1 DEF BufferInv
<1>1. ASSUME NEW c \in COUNTS, NEW f \in {"read", "write"}, Buffered!Call(f, c) PROVE BufferInv'
  <2>1. /\ UNCHANGED <<data, position, dirty, failed, offset, got>>
        /\ left' = c /\ call' = f /\ mixed' = (mixed \/ f = "write")
    BY <1>1 DEF Buffered!Call
  <2>2. left' \in Nat
    <3>1. c \in Nat
      BY SystemAssumption
    <3>2. QED BY <2>1, <3>1
  <2>3. Unread' = Unread /\ mixed' \in BOOLEAN /\ (~mixed' => ~mixed /\ call' # "write")
    BY <1>0, <2>1 DEF Unread
  <2>4. /\ Delivered(got, failed)' /\ ((~failed \/ dirty) => FromFile(got))'
        /\ (dirty => mixed)'
    BY <1>0, <2>1 DEF Delivered, FromFile
  <2>5. QED BY <1>0, <2>1, <2>2, <2>3, <2>4 DEF BufferInv
<1>2. CASE Buffered!Return
  <2>1. /\ UNCHANGED <<data, position, dirty, failed, offset, left, got, mixed>>
        /\ call' = "none"
    BY <1>2 DEF Buffered!Return
  <2>2. Unread' = Unread /\ UNCHANGED <<got, failed, dirty, mixed>>
    BY <2>1 DEF Unread
  <2>3. QED BY <1>0, <2>1, <2>2, BufferSame DEF BufferInv
<1>3. CASE Buffered!Fill
  <2>1. PICK m \in 1 .. Buffered!Least(BUFFER_SIZE, FILE_SIZE - offset) :
            data' = [k \in 1 .. m |-> offset + k] /\ offset' = offset + m
    BY <1>3 DEF Buffered!Fill
  <2>2. m \in Nat /\ m > 0 /\ offset + m <= FILE_SIZE
    <3>1. BUFFER_SIZE \in Nat
      BY SystemAssumption
    <3>2. QED BY <1>0, <3>1 DEF Buffered!Least
  <2>3. data' \in Seq(Int) /\ Len(data') = m /\ \A k \in 1 .. m : data'[k] = offset + k
    BY <1>0, <2>1, <2>2
  <2>4. /\ position >= Len(data) /\ position' = 0 /\ left' = left /\ got' = got
        /\ mixed' = mixed /\ call' = call /\ call = "read" /\ ~failed
        /\ UNCHANGED <<got, failed, dirty, mixed>>
    BY <1>3 DEF Buffered!Fill, Buffered!Reading, Buffered!Empty
  <2>5. ~mixed => Len(got) = offset
    BY <1>0, <2>4 DEF BufferInv, Unread
  <2>6. Unread' = m
    BY <2>2, <2>3, <2>4 DEF Unread
  <2>7. offset' \in Nat /\ offset' <= FILE_SIZE /\ position' \in Nat
    BY <1>0, <2>1, <2>2, <2>4
  <2>8. \A k \in 1 .. Len(data') : data'[k] = offset' - Len(data') + k
    BY <1>0, <2>1, <2>2, <2>3
  <2>9. ~mixed' => Len(got') = offset' - Unread'
    BY <1>0, <2>1, <2>2, <2>4, <2>5, <2>6
  <2>10. QED BY <1>0, <2>3, <2>4, <2>7, <2>8, <2>9, BufferSame DEF BufferInv
<1>4. CASE Buffered!FillEnd
  <2>1. /\ position >= Len(data) /\ data' = <<>> /\ left' = 0
        /\ UNCHANGED <<position, offset, call, got, mixed>> /\ call = "read"
        /\ UNCHANGED <<got, failed, dirty, mixed>> /\ ~failed
    BY <1>4 DEF Buffered!FillEnd, Buffered!Reading, Buffered!Empty
  <2>2. ~mixed => Len(got) = offset
    BY <1>0, <2>1 DEF BufferInv, Unread
  <2>3. data' \in Seq(Int) /\ Len(data') = 0
    BY <2>1
  <2>4. Unread' = 0
    BY <1>0, <2>1, <2>3 DEF Unread
  <2>5. \A k \in 1 .. Len(data') : data'[k] = offset' - Len(data') + k
    BY <2>3
  <2>6. left' \in Nat /\ Len(got) \in Nat
    BY <1>0, <2>1
  <2>7. QED BY <1>0, <2>1, <2>2, <2>3, <2>4, <2>5, <2>6, BufferSame DEF BufferInv
<1>5. CASE Buffered!FillFailed
  <2>1. /\ failed' = TRUE /\ position' = 0 /\ ~failed
        /\ UNCHANGED <<data, dirty, offset, call, left, got, mixed>>
    BY <1>5 DEF Buffered!FillFailed, Buffered!Empty
  <2>2. FromFile(got') /\ got' \in Seq(Int)
    BY <1>0, <2>1
  <2>3. Delivered(got', failed')
    BY <2>2, AllDelivered
  <2>4. position' \in Nat
    BY <2>1
  <2>5. QED BY <1>0, <2>1, <2>2, <2>3, <2>4 DEF BufferInv
<1>6. CASE Buffered!CopyOut
  BY <1>6, BufferCopies
<1>7. CASE Buffered!buffer_write
  <2>1. mixed
    BY <1>7 DEF BufferInv, Buffered!buffer_write, Buffered!FlushFull, Buffered!CopyIn,
                Buffered!Writing
  <2>2. mixed' = mixed /\ got' = got /\ call' = call
    BY <1>7 DEF Buffered!buffer_write, Buffered!FlushFull, Buffered!CopyIn
  <2>3. CASE Buffered!FlushFull
    <3>0. <<>> \in Seq(Int) /\ Len(data) \in Nat
      BY <1>0, EmptySeq
    <3>1. CASE Buffered!FlushClean
      <4>1. /\ data' = <<>> /\ position' = 0 /\ UNCHANGED <<dirty, failed, left>>
            /\ offset' \in Nat
        BY <1>0, <3>0, <3>1 DEF Buffered!FlushClean
      <4>2. UNCHANGED <<got, failed, dirty, mixed>> /\ position' \in Nat
        BY <2>2, <4>1
      <4>3. QED BY <1>0, <2>1, <2>2, <3>0, <4>1, <4>2, BufferSame DEF BufferInv
    <3>2. CASE Buffered!FlushFailed
      <4>1. left' = 0 /\ UNCHANGED <<data, position, dirty, failed, offset>>
        BY <3>2 DEF Buffered!FlushFailed
      <4>2. UNCHANGED <<got, failed, dirty, mixed>> /\ left' \in Nat
        BY <2>2, <4>1
      <4>3. QED BY <1>0, <2>1, <2>2, <4>1, <4>2, BufferSame DEF BufferInv
    <3>3. CASE Buffered!FlushDirty
      <4>1. dirty /\ UNCHANGED <<position, dirty, offset>> /\ FromFile(got)
        BY <1>0, <3>3 DEF Buffered!FlushDirty
      <4>2. /\ data' \in Seq(Int) /\ left' \in Nat /\ failed' \in BOOLEAN
        <5>1. CASE failed
          <6>1. PICK c : c = Buffered!Least(left, BUFFER_SIZE + 1)
            OBVIOUS
          <6>2. /\ data' = [k \in 1 .. c - 1 |-> 0] /\ failed' = FALSE /\ left' = left - c
            BY <3>3, <5>1, <6>1 DEF Buffered!FlushDirty
          <6>3. left \in Nat /\ left > 0 /\ BUFFER_SIZE \in Nat
            BY <1>0, <2>3, SystemAssumption DEF Buffered!FlushFull, Buffered!Writing
          <6>4. c \in Nat /\ c <= left /\ c > 0
            BY <6>1, <6>3 DEF Buffered!Least
          <6>5. [k \in 1 .. c - 1 |-> 0] \in Seq(Int)
            <7>1. c - 1 \in Nat
              BY <6>4
            <7>2. QED BY <7>1
          <6>6. left' \in Nat
            BY <6>2, <6>3, <6>4
          <6>7. data' \in Seq(Int) /\ failed' \in BOOLEAN
            BY <6>2, <6>5
          <6>8. QED BY <6>6, <6>7
        <5>2. CASE ~failed
          <6>1. UNCHANGED <<data, failed, left>>
            BY <3>3, <5>2 DEF Buffered!FlushDirty
          <6>2. QED BY <1>0, <6>1
        <5>3. QED BY <5>1, <5>2
      <4>3. FromFile(got') /\ Delivered(got', failed')
        BY <1>0, <2>2, <4>1, AllDelivered
      <4>4. QED BY <1>0, <2>1, <2>2, <4>1, <4>2, <4>3 DEF BufferInv
    <3>4. QED BY <2>3, <3>1, <3>2, <3>3 DEF Buffered!FlushFull
  <2>4. CASE Buffered!CopyIn
    <3>1. PICK c : c = Buffered!Least(left, BUFFER_SIZE - Len(data))
      OBVIOUS
    <3>2. c \in Nat /\ c <= left
      BY <1>0, <2>4, <3>1, SystemAssumption DEF Buffered!Least, Buffered!CopyIn
    <3>3. /\ data' = data \o [k \in 1 .. c |-> 0] /\ left' = left - c
          /\ UNCHANGED <<position, failed, offset>> /\ ~failed
      BY <2>4, <3>1 DEF Buffered!CopyIn
    <3>4. [k \in 1 .. c |-> 0] \in Seq(Int)
      BY <3>2
    <3>5. data' \in Seq(Int)
      BY <1>0, <3>3, <3>4
    <3>6. FromFile(got') /\ Delivered(got', failed')
      BY <1>0, <2>2, <3>3, AllDelivered
    <3>7. left' \in Nat
      BY <1>0, <3>2, <3>3
    <3>8. QED BY <1>0, <2>1, <2>2, <3>3, <3>5, <3>6, <3>7 DEF BufferInv
  <2>5. QED BY <1>7, <2>3, <2>4 DEF Buffered!buffer_write
<1>8. CASE Buffered!CopyStale
  BY <1>8, BufferStale
<1>9. QED
  BY <1>1, <1>2, <1>3, <1>4, <1>5, <1>6, <1>7, <1>8 DEF Buffered!Next, Buffered!buffer_read

LEMMA BufferEnd == BufferInv => Buffered!BytesInOrder
BY DEF BufferInv, Delivered, Buffered!BytesInOrder

-----------------------------------------------------------------------------
(* recovery.c *)

LogEntries == [transaction_id : Int, block_num : Int, buffers : Nat]

\* Everything logged so far, printed or pending.
LoggedAll == committed \o Log!Pending

\* The pending entries are numbered from 0 on.
LogInv ==
    /\ journal_count \in 0 .. JOURNAL_CAPACITY
    /\ journal_entries \in [0 .. JOURNAL_CAPACITY - 1 -> LogEntries]
    /\ committed \in Seq(LogEntries) /\ logged \in Seq(Int \X Nat) /\ destroyed \in BOOLEAN
    /\ \A k \in 1 .. journal_count : journal_entries[k - 1].transaction_id = k - 1
    /\ Log!OnceInOrder /\ Log!IdsRestart /\ Log!BuffersFreed

LEMMA BuffersTotal ==
    ASSUME NEW s \in Seq(LogEntries)
    PROVE  Log!Buffers(s) = Total([k \in 1 .. Len(s) |-> s[k].buffers], Len(s))
<1>1. PICK N : N = Len(s)
  OBVIOUS
<1>2. N \in Nat /\ \A k \in 1 .. N : s[k] \in LogEntries
  BY <1>1, ElementOfSeq
<1> DEFINE t == [k \in 1 .. N |-> s[k].buffers]
<1>3. \A k \in 1 .. N : t[k] \in Int /\ t[k] = s[k].buffers
  BY <1>2 DEF LogEntries
<1> HIDE DEF t
<1>4. PICK g : IsSum(g, t, N) /\ Total(t, N) = g[N]
  BY <1>2, <1>3, TotalIs
<1> DEFINE Is(h) == h = [k \in 0 .. N |-> IF k = 0 THEN 0 ELSE h[k - 1] + s[k].buffers]
<1>5. \A h : Is(h) <=> IsSum(h, t, N)
  <2> SUFFICES ASSUME NEW h PROVE Is(h) <=> IsSum(h, t, N)
    OBVIOUS
  <2>1. \A k \in 0 .. N : (IF k = 0 THEN 0 ELSE h[k - 1] + s[k].buffers)
                          = (IF k = 0 THEN 0 ELSE h[k - 1] + t[k])
    BY <1>2, <1>3
  <2>2. [k \in 0 .. N |-> IF k = 0 THEN 0 ELSE h[k - 1] + s[k].buffers]
          = [k \in 0 .. N |-> IF k = 0 THEN 0 ELSE h[k - 1] + t[k]]
    BY <2>1
  <2>3. QED BY <2>2, Zenon DEF IsSum
<1>6. Log!Buffers(s) = (CHOOSE h : Is(h))[N]
  BY <1>1 DEF Log!Buffers
<1>7. IsSum(CHOOSE h : Is(h), t, N)
  <2>1. Is(g)
    BY <1>4, <1>5
  <2>2. Is(CHOOSE h : Is(h))
    BY <2>1
  <2>3. QED BY <1>5, <2>2
<1>8. PICK h : h = CHOOSE x : Is(x)
  OBVIOUS
<1>9. h[N] = g[N]
  <2>1. IsSum(h, t, N) /\ N \in 0 .. N
    BY <1>2, <1>7, <1>8
  <2>2. \A k \in 0 .. N : h[k] = g[k]
    BY <1>2, <1>4, <2>1, SumAgrees
  <2>3. QED BY <2>1, <2>2
<1>10. QED BY <1>1, <1>4, <1>6, <1>8, <1>9 DEF t

LEMMA BuffersNone == Log!Buffers(<<>>) = 0
<1>1. <<>> \in Seq(LogEntries) /\ Len(<<>>) = 0
  BY EmptySeq
<1>2. Log!Buffers(<<>>) = Total([k \in 1 .. Len(<<>>) |-> <<>>[k].buffers], Len(<<>>))
  BY <1>1, BuffersTotal
<1>3. QED BY <1>1, <1>2, TotalNone

LEMMA BuffersAppend ==
    ASSUME NEW s \in Seq(LogEntries), NEW e \in LogEntries
    PROVE  Log!Buffers(Append(s, e)) = Log!Buffers(s) + e.buffers
<1>1. PICK N : N = Len(s)
  OBVIOUS
<1>2. PICK z : z = Append(s, e)
  OBVIOUS
<1>3. /\ N \in Nat /\ z \in Seq(LogEntries) /\ Len(z) = N + 1 /\ z[N + 1] = e
      /\ \A k \in 1 .. N : z[k] = s[k] /\ s[k] \in LogEntries
  BY <1>1, <1>2
<1> DEFINE t == [k \in 1 .. N |-> s[k].buffers]
           u == [k \in 1 .. N + 1 |-> z[k].buffers]
<1>4. /\ \A k \in 1 .. N : t[k] \in Int /\ t[k] = u[k]
      /\ \A k \in 1 .. N + 1 : u[k] \in Int
      /\ u[N + 1] = e.buffers
  <2>1. \A x \in LogEntries : x.buffers \in Int
    BY DEF LogEntries
  <2>2. \A k \in 1 .. N : t[k] = s[k].buffers /\ u[k] = s[k].buffers
    BY <1>3
  <2>3. u[N + 1] = e.buffers
    BY <1>3
  <2>4. \A k \in 1 .. N + 1 : k \in 1 .. N \/ k = N + 1
    BY <1>3
  <2> HIDE DEF t, u
  <2>5. QED BY <1>3, <2>1, <2>2, <2>3, <2>4
<1> HIDE DEF t, u
<1>5. Total(u, N + 1) = Total(u, N) + u[N + 1]
  BY <1>3, <1>4, TotalStep
<1>6. Total(t, N) = Total(u, N)
  BY <1>3, <1>4, TotalSame
<1>7. Log!Buffers(s) = Total(t, N)
  BY <1>1, BuffersTotal DEF t
<1>8. Log!Buffers(z) = Total(u, N + 1)
  <2>1. Log!Buffers(z) = Total([k \in 1 .. Len(z) |-> z[k].buffers], Len(z))
    BY <1>3, BuffersTotal
  <2>2. QED BY <1>3, <2>1 DEF u
<1>9. QED BY <1>2, <1>4, <1>5, <1>6, <1>7, <1>8

LEMMA BuffersInt ==
    ASSUME NEW s \in Seq(LogEntries)
    PROVE  Log!Buffers(s) \in Int
<1> DEFINE t == [k \in 1 .. Len(s) |-> s[k].buffers]
<1>1. Len(s) \in Nat /\ \A k \in 1 .. Len(s) : t[k] \in Int
  <2>1. \A x \in LogEntries : x.buffers \in Int
    BY DEF LogEntries
  <2>2. Len(s) \in Nat /\ \A k \in 1 .. Len(s) : s[k] \in LogEntries
    BY ElementOfSeq
  <2>3. QED BY <2>1, <2>2
<1>2. Log!Buffers(s) = Total(t, Len(s))
  BY BuffersTotal
<1> HIDE DEF t
<1>3. QED BY <1>1, <1>2, TotalInt

LEMMA PendingIs ==
    ASSUME LogInv
    PROVE  /\ Log!Pending \in Seq(LogEntries) /\ Len(Log!Pending) = journal_count
           /\ \A k \in 1 .. journal_count : /\ Log!Pending[k] = journal_entries[k - 1]
                                            /\ Log!Pending[k].transaction_id = k - 1
<1>1. journal_count \in Nat /\ \A k \in 1 .. journal_count : journal_entries[k - 1] \in LogEntries
  BY SystemAssumption DEF LogInv
<1>2. Log!Pending = [k \in 1 .. journal_count |-> journal_entries[k - 1]]
  BY DEF Log!Pending
<1>3. Log!Pending \in Seq(LogEntries) /\ Len(Log!Pending) = journal_count
  BY <1>1, <1>2
<1>4. QED BY <1>2, <1>3 DEF LogInv

LEMMA LogStart == Log!Init => LogInv
<1> SUFFICES ASSUME Log!Init PROVE LogInv
  OBVIOUS
<1>1. /\ journal_entries = [e \in 0 .. JOURNAL_CAPACITY - 1 |-> Log!Unset] /\ journal_count = 0
      /\ live = 0 /\ destroyed = FALSE /\ committed = <<>> /\ logged = <<>>
  BY DEF Log!Init, Log!init_recovery_manager
<1>2. Log!Unset \in LogEntries
  BY DEF Log!Unset, LogEntries
<1>3. committed \in Seq(LogEntries) /\ logged \in Seq(Int \X Nat) /\ Len(logged) = 0
  BY <1>1, EmptySeq
<1>4. Log!Pending = <<>>
  BY <1>1 DEF Log!Pending
<1>5. LoggedAll = <<>> /\ Len(LoggedAll) = 0 /\ DOMAIN LoggedAll = {}
  BY <1>1, <1>4 DEF LoggedAll
<1>6. Log!OnceInOrder /\ Log!IdsRestart
  BY <1>3, <1>5 DEF Log!OnceInOrder, Log!IdsRestart, LoggedAll
<1>7. Log!BuffersFreed
  BY <1>1, <1>4, BuffersNone DEF Log!BuffersFreed
<1>8. /\ journal_count \in 0 .. JOURNAL_CAPACITY
      /\ journal_entries \in [0 .. JOURNAL_CAPACITY - 1 -> LogEntries]
      /\ \A k \in 1 .. journal_count : journal_entries[k - 1].transaction_id = k - 1
  BY <1>1, <1>2, SystemAssumption
<1>9. QED BY <1>1, <1>3, <1>6, <1>7, <1>8 DEF LogInv

\* A call of log_transaction appends its entry to what is logged, whether a
\* checkpoint comes before it or not.
LEMMA LogAppends ==
    ASSUME LogInv, ~destroyed, NEW b \in BLOCK_NUMS, NEW c \in 0 .. 2, Log!log_transaction(b, c)
    PROVE  LogInv'
<1> DEFINE full == journal_count >= JOURNAL_CAPACITY
           x == IF full THEN 0 ELSE journal_count
<1>1. PICK e : e = [transaction_id |-> x, block_num |-> b, buffers |-> c]
  OBVIOUS
<1>2. /\ journal_count \in 0 .. JOURNAL_CAPACITY /\ JOURNAL_CAPACITY \in Nat \ {0}
      /\ journal_entries \in [0 .. JOURNAL_CAPACITY - 1 -> LogEntries]
      /\ committed \in Seq(LogEntries) /\ logged \in Seq(Int \X Nat)
  BY SystemAssumption DEF LogInv
<1>3. /\ e \in LogEntries /\ e.transaction_id = x /\ e.block_num = b /\ e.buffers = c
      /\ x \in 0 .. JOURNAL_CAPACITY - 1 /\ <<b, c>> \in Int \X Nat
  BY <1>1, <1>2, SystemAssumption DEF LogEntries
<1>4. /\ committed' = IF full THEN committed \o Log!Pending ELSE committed
      /\ live' = (IF full THEN live - Log!Buffers(Log!Pending) ELSE live) + c
      /\ journal_count' = x + 1
      /\ journal_entries' = [journal_entries EXCEPT ![x] = e]
      /\ logged' = Append(logged, <<b, c>>) /\ destroyed' = destroyed
  BY <1>1 DEF Log!log_transaction, Log!Checkpointed
<1>5. PICK P : P = Log!Pending
  OBVIOUS
<1>6. /\ P \in Seq(LogEntries) /\ Len(P) = journal_count
      /\ \A k \in 1 .. journal_count : P[k] = journal_entries[k - 1] /\ P[k].transaction_id = k - 1
  BY <1>5, PendingIs
<1>7. /\ journal_count' \in 0 .. JOURNAL_CAPACITY
      /\ journal_entries' \in [0 .. JOURNAL_CAPACITY - 1 -> LogEntries]
      /\ journal_entries'[x] = e
      /\ \A k \in 0 .. x - 1 : journal_entries'[k] = journal_entries[k]
  BY <1>2, <1>3, <1>4
<1>8. \A k \in 1 .. journal_count' : journal_entries'[k - 1].transaction_id = k - 1
  <2> TAKE k \in 1 .. journal_count'
  <2>1. CASE k = x + 1
    BY <1>3, <1>7, <2>1
  <2>2. CASE k # x + 1
    <3>1. k - 1 \in 0 .. x - 1 /\ x = journal_count /\ k \in 1 .. journal_count
      BY <1>2, <1>3, <1>4, <2>2
    <3>2. QED BY <1>6, <1>7, <3>1
  <2>3. QED BY <2>1, <2>2
<1>9. PICK A : A = LoggedAll
  OBVIOUS
<1>10. /\ A \in Seq(LogEntries) /\ Len(A) = Len(committed) + journal_count
       /\ \A k \in 1 .. Len(committed) + journal_count :
            A[k] = IF k <= Len(committed) THEN committed[k] ELSE P[k - Len(committed)]
  <2>1. /\ committed \o P \in Seq(LogEntries) /\ Len(committed \o P) = Len(committed) + Len(P)
        /\ \A k \in 1 .. Len(committed) + Len(P) :
            (committed \o P)[k] = IF k <= Len(committed) THEN committed[k] ELSE P[k - Len(committed)]
    BY <1>2, <1>6, ConcatProperties
  <2>2. QED BY <1>5, <1>6, <1>9, <2>1 DEF LoggedAll
<1>11. Log!Pending' = [k \in 1 .. x + 1 |-> journal_entries'[k - 1]]
  BY <1>4 DEF Log!Pending
<1>12. /\ committed' \in Seq(LogEntries) /\ LoggedAll' = Append(A, e)
       /\ Log!BuffersFreed'
  <2>1. CASE full
    <3>1. x = 0 /\ committed' = A
      BY <1>4, <1>5, <1>9, <2>1 DEF LoggedAll
    <3>2. Log!Pending' = <<e>>
      <4>1. journal_entries'[0] = e
        BY <1>7, <3>1
      <4>2. Log!Pending' = [k \in 1 .. 1 |-> journal_entries'[k - 1]]
        BY <1>11, <3>1
      <4>3. Log!Pending' = [k \in 1 .. 1 |-> e]
        BY <4>1, <4>2
      <4>4. QED BY <4>3
    <3>3. LoggedAll' = A \o <<e>>
      BY <3>1, <3>2 DEF LoggedAll
    <3>4. A \o <<e>> = Append(A, e)
      BY <1>3, <1>10
    <3>5. live = Log!Buffers(P)
      BY <1>5 DEF LogInv, Log!BuffersFreed
    <3>6. Log!Buffers(P) \in Int
      BY <1>6, BuffersInt
    <3>7. live' = c
      BY <1>4, <1>5, <2>1, <3>5, <3>6
    <3>8. Log!Buffers(<<e>>) = c
      <4>1. <<>> \in Seq(LogEntries) /\ <<e>> = Append(<<>>, e)
        BY EmptySeq
      <4>2. Log!Buffers(Append(<<>>, e)) = Log!Buffers(<<>>) + e.buffers
        BY <1>3, <4>1, BuffersAppend
      <4>3. QED BY <1>3, <4>1, <4>2, BuffersNone
    <3>9. live' = Log!Buffers(Log!Pending')
      BY <3>2, <3>7, <3>8
    <3>10. QED BY <1>4, <1>10, <3>1, <3>3, <3>4, <3>9 DEF Log!BuffersFreed
  <2>2. CASE ~full
    <3>1. x = journal_count /\ committed' = committed
      BY <1>4, <2>2
    <3>2. Log!Pending' = Append(P, e)
      <4>1. \A k \in 1 .. x + 1 : journal_entries'[k - 1] = Append(P, e)[k]
        <5> TAKE k \in 1 .. x + 1
        <5>1. CASE k = x + 1
          BY <1>3, <1>6, <1>7, <3>1, <5>1
        <5>2. CASE k # x + 1
          <6>1. k \in 1 .. journal_count /\ k - 1 \in 0 .. x - 1
            BY <1>2, <3>1, <5>2
          <6>2. QED BY <1>3, <1>6, <1>7, <6>1
        <5>3. QED BY <5>1, <5>2
      <4>2. Append(P, e) \in Seq(LogEntries) /\ Len(Append(P, e)) = x + 1
        BY <1>3, <1>6, <3>1
      <4>3. Append(P, e) = [k \in 1 .. x + 1 |-> Append(P, e)[k]]
        <5>1. Append(P, e) \in [1 .. Len(Append(P, e)) -> LogEntries]
          BY <4>2, LenProperties
        <5>2. QED BY <4>2, <5>1
      <4>4. QED BY <1>11, <4>1, <4>3
    <3>3. LoggedAll' = committed \o Append(P, e)
      BY <3>1, <3>2 DEF LoggedAll
    <3>4. committed \o Append(P, e) = Append(committed \o P, e)
      BY <1>2, <1>3, <1>6
    <3>5. LoggedAll' = Append(A, e)
      BY <1>5, <1>9, <3>3, <3>4 DEF LoggedAll
    <3>6. live = Log!Buffers(P)
      BY <1>5 DEF LogInv, Log!BuffersFreed
    <3>7. Log!Buffers(Append(P, e)) = live + c
      BY <1>3, <1>6, <3>6, BuffersAppend
    <3>8. live' = Log!Buffers(Log!Pending')
      BY <1>4, <2>2, <3>2, <3>7
    <3>9. QED BY <1>2, <1>4, <3>1, <3>5, <3>8 DEF Log!BuffersFreed
  <2>3. QED BY <2>1, <2>2
<1>13. Len(A) = Len(logged) /\ \A k \in 1 .. Len(A) : <<A[k].block_num, A[k].buffers>> = logged[k]
  <2>1. DOMAIN A = 1 .. Len(A)
    BY <1>10
  <2>2. Log!OnceInOrder
    BY DEF LogInv
  <2>3. QED BY <1>9, <2>1, <2>2 DEF Log!OnceInOrder, LoggedAll
<1>14. \A k \in 1 .. Len(A) : A[k].transaction_id = IF k = 1 \/ A[k].transaction_id = 0 THEN 0
                                                  ELSE A[k - 1].transaction_id + 1
  <2>1. DOMAIN A = 1 .. Len(A)
    BY <1>10
  <2>2. Log!IdsRestart
    BY DEF LogInv
  <2>3. QED BY <1>9, <2>1, <2>2 DEF Log!IdsRestart, LoggedAll
<1>15. PICK Z : Z = LoggedAll'
  OBVIOUS
<1>16. /\ Z \in Seq(LogEntries) /\ Len(Z) = Len(A) + 1 /\ Z[Len(A) + 1] = e
       /\ \A k \in 1 .. Len(A) : Z[k] = A[k]
       /\ DOMAIN Z = 1 .. Len(A) + 1 /\ Len(A) \in Nat
  BY <1>3, <1>10, <1>12, <1>15
<1>17. logged' \in Seq(Int \X Nat) /\ Len(logged') = Len(logged) + 1
       /\ logged'[Len(logged) + 1] = <<b, c>> /\ \A k \in 1 .. Len(logged) : logged'[k] = logged[k]
  BY <1>2, <1>3, <1>4
<1>18. Log!OnceInOrder'
  <2>1. ASSUME NEW k \in 1 .. Len(A) + 1 PROVE <<Z[k].block_num, Z[k].buffers>> = logged'[k]
    <3>1. CASE k = Len(A) + 1
      BY <1>3, <1>13, <1>16, <1>17, <3>1
    <3>2. CASE k \in 1 .. Len(A)
      BY <1>13, <1>16, <1>17, <3>2
    <3>3. QED BY <1>16, <3>1, <3>2
  <2>2. QED BY <1>13, <1>15, <1>16, <1>17, <2>1 DEF Log!OnceInOrder, LoggedAll
<1>19. Log!IdsRestart'
  <2>1. ASSUME NEW k \in 1 .. Len(A) + 1
        PROVE  Z[k].transaction_id = IF k = 1 \/ Z[k].transaction_id = 0 THEN 0
                                     ELSE Z[k - 1].transaction_id + 1
    <3>1. CASE k \in 1 .. Len(A)
      <4>1. Z[k] = A[k] /\ (k # 1 => Z[k - 1] = A[k - 1])
        BY <1>16, <3>1
      <4>2. QED BY <1>14, <3>1, <4>1
    <3>2. CASE k = Len(A) + 1 /\ x = 0
      BY <1>3, <1>16, <3>2
    <3>3. CASE k = Len(A) + 1 /\ x # 0
      <4>1. x = journal_count /\ x > 0 /\ Len(A) = Len(committed) + x /\ Len(committed) \in Nat
        BY <1>2, <1>10, <3>3
      <4>2. Len(A) \in 1 .. Len(A) /\ Len(A) \in 1 .. Len(committed) + journal_count
            /\ ~(Len(A) <= Len(committed)) /\ Len(A) - Len(committed) = journal_count
        <5>1. journal_count \in Nat /\ journal_count > 0
          BY <1>2, <4>1
        <5>2. Len(A) = Len(committed) + journal_count
          BY <4>1
        <5>3. QED BY <4>1, <5>1, <5>2
      <4>3. A[Len(A)] = P[journal_count]
        BY <1>10, <4>2
      <4>4. P[journal_count].transaction_id = x - 1
        BY <1>2, <1>6, <4>1
      <4>5. Z[k - 1] = A[Len(A)] /\ k # 1 /\ Z[k].transaction_id = x
        BY <1>3, <1>16, <3>3, <4>2
      <4>6. x \in Nat
        BY <1>3
      <4>7. QED BY <3>3, <4>3, <4>4, <4>5, <4>6
    <3>4. QED BY <1>16, <3>1, <3>2, <3>3
  <2>2. QED BY <1>15, <1>16, <2>1 DEF Log!IdsRestart, LoggedAll
<1>20. QED BY <1>4, <1>7, <1>8, <1>12, <1>17, <1>18, <1>19 DEF LogInv

LEMMA LogStep == LogInv /\ Log!Next => LogInv'
<1> SUFFICES ASSUME LogInv, Log!Next PROVE LogInv'
  OBVIOUS
<1>1. ~destroyed
  BY DEF Log!Next
<1>2. CASE Log!create_checkpoint
  <2>1. /\ committed' = LoggedAll /\ live' = live - Log!Buffers(Log!Pending) /\ journal_count' = 0
        /\ journal_entries' = journal_entries /\ destroyed' = destroyed /\ logged' = logged
    BY <1>2 DEF Log!create_checkpoint, Log!Checkpointed, LoggedAll
  <2>2. Log!Pending' = <<>>
    BY <2>1 DEF Log!Pending
  <2>3. committed \in Seq(LogEntries) /\ Log!Pending \in Seq(LogEntries)
    BY PendingIs DEF LogInv
  <2>4. LoggedAll \in Seq(LogEntries)
    BY <2>3, ConcatProperties DEF LoggedAll
  <2>5. LoggedAll' = LoggedAll
    BY <2>1, <2>2, <2>4, ConcatEmptySeq DEF LoggedAll
  <2>6. Log!OnceInOrder' /\ Log!IdsRestart'
    BY <2>1, <2>5 DEF LogInv, Log!OnceInOrder, Log!IdsRestart, LoggedAll
  <2>7. Log!Buffers(Log!Pending) \in Int /\ live = Log!Buffers(Log!Pending)
    BY <1>1, <2>3, BuffersInt DEF LogInv, Log!BuffersFreed
  <2>8. live' = 0
    BY <2>1, <2>7
  <2>9. Log!BuffersFreed'
    BY <2>2, <2>8, BuffersNone DEF Log!BuffersFreed
  <2>10. journal_count' \in 0 .. JOURNAL_CAPACITY /\ 1 .. journal_count' = {}
    BY <2>1, SystemAssumption
  <2>11. QED BY <2>1, <2>4, <2>6, <2>9, <2>10 DEF LogInv
<1>3. CASE Log!destroy_recovery_manager
  <2>1. /\ live' = live - Log!Buffers(Log!Pending) /\ destroyed' = TRUE
        /\ UNCHANGED <<journal_entries, journal_count, committed, logged>>
    BY <1>3 DEF Log!destroy_recovery_manager
  <2>2. Log!Buffers(Log!Pending) \in Int /\ live = Log!Buffers(Log!Pending)
    BY <1>1, PendingIs, BuffersInt DEF LogInv, Log!BuffersFreed
  <2>3. live' = 0
    BY <2>1, <2>2
  <2>4. Log!BuffersFreed'
    BY <2>1, <2>3 DEF Log!BuffersFreed
  <2>5. Log!Pending' = Log!Pending
    BY <2>1 DEF Log!Pending
  <2>6. Log!OnceInOrder' /\ Log!IdsRestart'
    BY <2>1, <2>5 DEF LogInv, Log!OnceInOrder, Log!IdsRestart
  <2>7. QED BY <2>1, <2>4, <2>6 DEF LogInv
<1>4. ASSUME NEW b \in BLOCK_NUMS, NEW c \in 0 .. 2, Log!log_transaction(b, c) PROVE LogInv'
  BY <1>1, <1>4, LogAppends
<1>5. QED BY <1>2, <1>3, <1>4 DEF Log!Next

LEMMA LogEnd == LogInv => Log!LogKept
BY DEF LogInv, Log!LogKept

-----------------------------------------------------------------------------
(* performance_optimization.c *)

\* The last PREFETCH of a sequence.
Latest(s) == SubSeq(s, IF Len(s) > PREFETCH THEN Len(s) - PREFETCH + 1 ELSE 1, Len(s))

LEMMA LatestIs ==
    ASSUME NEW s \in Seq(Int), NEW L \in Nat,
           L = IF Len(s) > PREFETCH THEN PREFETCH ELSE Len(s)
    PROVE  /\ Latest(s) \in Seq(Int) /\ Len(Latest(s)) = L
           /\ \A k \in 1 .. L : Latest(s)[k] = s[Len(s) - L + k]
<1>1. PREFETCH \in Nat \ {0}
  BY SystemAssumption
<1>2. PICK lo : lo = IF Len(s) > PREFETCH THEN Len(s) - PREFETCH + 1 ELSE 1
  OBVIOUS
<1>3. lo \in 1 .. Len(s) + 1 /\ lo = Len(s) - L + 1 /\ Len(s) \in Nat
  BY <1>1, <1>2
<1>4. PICK z : z = SubSeq(s, lo, Len(s))
  OBVIOUS
<1>5. \A k \in lo .. Len(s) : s[k] \in Int
  BY <1>3, ElementOfSeq
<1>6. /\ z \in Seq(Int)
      /\ Len(z) = IF lo <= Len(s) THEN Len(s) - lo + 1 ELSE 0
      /\ \A k \in 1 .. Len(s) - lo + 1 : z[k] = s[lo + k - 1]
  <2>1. lo \in Int /\ Len(s) \in Int
    BY <1>3
  <2>2. QED BY <1>4, <1>5, <2>1, SubSeqProperties
<1>7. Len(z) = L
  BY <1>3, <1>6
<1>8. ASSUME NEW k \in 1 .. L PROVE z[k] = s[Len(s) - L + k]
  <2>1. k \in 1 .. Len(s) - lo + 1 /\ lo + k - 1 = Len(s) - L + k
    BY <1>3
  <2>2. QED BY <1>6, <2>1
<1>9. Latest(s) = z
  BY <1>2, <1>4 DEF Latest
<1>10. QED BY <1>6, <1>7, <1>8, <1>9

\* queue_prefetch of one more block.
LEMMA LatestAppend ==
    ASSUME NEW s \in Seq(Int), NEW b \in Int
    PROVE  Prefetch!queue_prefetch(Latest(s), b) = Latest(Append(s, b))
<1>1. PREFETCH \in Nat \ {0}
  BY SystemAssumption
<1>2. PICK z : z = Append(s, b)
  OBVIOUS
<1>3. /\ z \in Seq(Int) /\ Len(z) = Len(s) + 1 /\ Len(s) \in Nat /\ z[Len(s) + 1] = b
      /\ \A k \in 1 .. Len(s) : z[k] = s[k]
  BY <1>2
<1>4. PICK L \in Nat : L = IF Len(s) > PREFETCH THEN PREFETCH ELSE Len(s)
  BY <1>1, <1>3
<1>5. PICK M \in Nat : M = IF Len(z) > PREFETCH THEN PREFETCH ELSE Len(z)
  BY <1>1, <1>3
<1>6. PICK q : q = Latest(s)
  OBVIOUS
<1>7. q \in Seq(Int) /\ Len(q) = L /\ \A k \in 1 .. L : q[k] = s[Len(s) - L + k]
  BY <1>4, <1>6, LatestIs
<1>8. PICK r : r = Latest(z)
  OBVIOUS
<1>9. r \in Seq(Int) /\ Len(r) = M /\ \A k \in 1 .. M : r[k] = z[Len(z) - M + k]
  BY <1>3, <1>5, <1>8, LatestIs
<1>10. PICK c : c = IF Len(q) >= PREFETCH THEN Tail(q) ELSE q
  OBVIOUS
<1>11. c \in Seq(Int) /\ Len(c) = M - 1 /\ \A k \in 1 .. M - 1 : c[k] = r[k]
  <2>1. CASE L >= PREFETCH
    <3>1. q # <<>> /\ L = PREFETCH /\ M = PREFETCH
      BY <1>1, <1>3, <1>4, <1>5, <1>7, <2>1
    <3>2. c \in Seq(Int) /\ Len(c) = L - 1 /\ \A k \in 1 .. L - 1 : c[k] = q[k + 1]
      BY <1>7, <1>10, <2>1, <3>1, HeadTailProperties
    <3>3. ASSUME NEW k \in 1 .. M - 1 PROVE c[k] = r[k]
      <4>1. k + 1 \in 1 .. L /\ k \in 1 .. L - 1 /\ k \in 1 .. M
        BY <1>4, <3>1
      <4>2. c[k] = s[Len(s) - L + (k + 1)]
        BY <1>7, <3>2, <4>1
      <4>3. r[k] = z[Len(z) - M + k]
        BY <1>9, <4>1
      <4>4. Len(z) - M + k = Len(s) - L + (k + 1) /\ Len(s) - L + (k + 1) \in 1 .. Len(s)
        <5>1. L = M /\ Len(z) = Len(s) + 1 /\ L \in Nat /\ Len(s) \in Nat /\ L <= Len(s)
          BY <1>1, <1>3, <1>4, <3>1
        <5>2. QED BY <4>1, <5>1
      <4>5. QED BY <1>3, <4>2, <4>3, <4>4
    <3>4. QED BY <3>1, <3>2, <3>3
  <2>2. CASE L < PREFETCH
    <3>1. c = q /\ L = Len(s) /\ M = L + 1
      BY <1>1, <1>3, <1>4, <1>5, <1>7, <1>10, <2>2
    <3>2. ASSUME NEW k \in 1 .. M - 1 PROVE c[k] = r[k]
      <4>1. k \in 1 .. L /\ k \in 1 .. M /\ Len(s) - L + k = k /\ Len(z) - M + k = k /\ k \in 1 .. Len(s)
        BY <1>3, <1>4, <3>1
      <4>2. QED BY <1>3, <1>7, <1>9, <3>1, <4>1
    <3>3. QED BY <1>7, <3>1, <3>2
  <2>3. QED BY <1>1, <1>4, <2>1, <2>2
<1>12. PICK d : d = Append(c, b)
  OBVIOUS
<1>13. /\ d \in Seq(Int) /\ Len(d) = M /\ d[M] = b /\ \A k \in 1 .. M - 1 : d[k] = c[k]
  BY <1>11, <1>12
<1>14. M >= 1 /\ r[M] = b
  <2>1. M \in 1 .. M /\ Len(z) - M + M = Len(s) + 1
    BY <1>1, <1>3, <1>5
  <2>2. QED BY <1>3, <1>9, <2>1
<1>15. \A k \in 1 .. M : d[k] = r[k]
  <2> TAKE k \in 1 .. M
  <2>1. CASE k = M
    BY <1>13, <1>14, <2>1
  <2>2. CASE k # M
    BY <1>11, <1>13, <1>14, <2>2
  <2>3. QED BY <2>1, <2>2
<1>16. d = r
  BY <1>9, <1>13, <1>15, SeqEqual
<1>17. QED BY <1>2, <1>6, <1>8, <1>10, <1>12, <1>16 DEF Prefetch!queue_prefetch

LEMMA PrefixGrows ==
    ASSUME NEW s \in Seq(Int), NEW t \in Seq(Int), NEW k \in 1 .. Len(t)
    PROVE  /\ s \o SubSeq(t, 1, k - 1) \in Seq(Int)
           /\ s \o SubSeq(t, 1, k) = Append(s \o SubSeq(t, 1, k - 1), t[k])
<1>1. Len(t) \in Nat /\ \A j \in 1 .. Len(t) : t[j] \in Int
  BY ElementOfSeq
<1>2. PICK a : a = SubSeq(t, 1, k - 1)
  OBVIOUS
<1>3. PICK c : c = SubSeq(t, 1, k)
  OBVIOUS
<1>4. a \in Seq(Int) /\ Len(a) = k - 1 /\ \A j \in 1 .. k - 1 : a[j] = t[j]
  <2>1. \A j \in 1 .. k - 1 : t[j] \in Int
    BY <1>1
  <2>2. /\ a \in Seq(Int) /\ Len(a) = IF 1 <= k - 1 THEN k - 1 - 1 + 1 ELSE 0
        /\ \A j \in 1 .. k - 1 - 1 + 1 : a[j] = t[1 + j - 1]
    BY <1>2, <2>1, SubSeqProperties
  <2>3. QED BY <2>2
<1>5. c \in Seq(Int) /\ Len(c) = k /\ \A j \in 1 .. k : c[j] = t[j]
  <2>1. \A j \in 1 .. k : t[j] \in Int
    BY <1>1
  <2>2. /\ c \in Seq(Int) /\ Len(c) = IF 1 <= k THEN k - 1 + 1 ELSE 0
        /\ \A j \in 1 .. k - 1 + 1 : c[j] = t[1 + j - 1]
    BY <1>3, <2>1, SubSeqProperties
  <2>3. QED BY <2>2
<1>6. PICK d : d = Append(a, t[k])
  OBVIOUS
<1>7. d \in Seq(Int) /\ Len(d) = k /\ d[k] = t[k] /\ \A j \in 1 .. k - 1 : d[j] = a[j]
  BY <1>1, <1>4, <1>6
<1>8. c = d
  <2>1. ASSUME NEW j \in 1 .. k PROVE c[j] = d[j]
    <3>1. CASE j = k
      BY <1>5, <1>7, <3>1
    <3>2. CASE j \in 1 .. k - 1
      BY <1>4, <1>5, <1>7, <3>2
    <3>3. QED BY <3>1, <3>2
  <2>2. QED BY <1>5, <1>7, <2>1, SeqEqual
<1>9. s \o a \in Seq(Int) /\ s \o Append(a, t[k]) = Append(s \o a, t[k])
  <2>1. PICK x : x = t[k]
    OBVIOUS
  <2>2. x \in Int /\ a \in Seq(Int)
    BY <1>1, <1>4, <2>1
  <2>3. s \o a \in Seq(Int)
    BY <2>2, ConcatProperties
  <2>4. s \o Append(a, x) = Append(s \o a, x)
    BY <2>2
  <2>5. QED BY <2>1, <2>3, <2>4
<1>10. QED BY <1>2, <1>3, <1>6, <1>8, <1>9

LEMMA QueuesAll ==
    ASSUME NEW s \in Seq(Int), NEW t \in Seq(Int), queue = Latest(s)
    PROVE  Prefetch!QueueAll(t) = Latest(s \o t)
<1>1. PICK N : N = Len(t)
  OBVIOUS
<1>2. N \in Nat /\ \A k \in 1 .. N : t[k] \in Int
  BY <1>1, ElementOfSeq
<1> DEFINE g == [k \in 0 .. N |-> Latest(s \o SubSeq(t, 1, k))]
           Is(h) == h = [k \in 0 .. N |-> IF k = 0 THEN queue
                                          ELSE Prefetch!queue_prefetch(h[k - 1], t[k])]
<1>3. \A k \in 0 .. N : g[k] = Latest(s \o SubSeq(t, 1, k))
  OBVIOUS
<1>4. g = [k \in 0 .. N |-> g[k]]
  OBVIOUS
<1> HIDE DEF g
<1>5. g[0] = queue
  <2>1. SubSeq(t, 1, 0) = <<>>
    <3>1. \A j \in 1 .. 0 : t[j] \in Int
      OBVIOUS
    <3>2. SubSeq(t, 1, 0) \in Seq(Int) /\ Len(SubSeq(t, 1, 0)) = IF 1 <= 0 THEN 0 - 1 + 1 ELSE 0
      BY <3>1, SubSeqProperties
    <3>3. QED BY <3>2, EmptySeq
  <2>2. s \o <<>> = s
    BY ConcatEmptySeq
  <2>3. 0 \in 0 .. N
    BY <1>2
  <2>4. g[0] = Latest(s \o SubSeq(t, 1, 0))
    BY <1>3, <2>3
  <2>5. QED BY <2>1, <2>2, <2>4
<1>6. ASSUME NEW k \in 1 .. N PROVE g[k] = Prefetch!queue_prefetch(g[k - 1], t[k])
  <2>1. /\ s \o SubSeq(t, 1, k - 1) \in Seq(Int)
        /\ s \o SubSeq(t, 1, k) = Append(s \o SubSeq(t, 1, k - 1), t[k])
    BY <1>1, PrefixGrows
  <2>2. k \in 0 .. N /\ k - 1 \in 0 .. N /\ t[k] \in Int
    BY <1>2
  <2>3. QED BY <1>3, <2>1, <2>2, LatestAppend
<1>7. Is(g)
  <2>1. \A k \in 0 .. N : g[k] = IF k = 0 THEN queue ELSE Prefetch!queue_prefetch(g[k - 1], t[k])
    BY <1>5, <1>6
  <2>2. QED BY <1>4, <2>1
<1>8. PICK h : h = CHOOSE x : Is(x)
  OBVIOUS
<1>9. Is(h)
  BY <1>7, <1>8
<1>10. Prefetch!QueueAll(t) = h[N]
  BY <1>1, <1>8 DEF Prefetch!QueueAll
<1>11. h[0] = queue /\ \A k \in 1 .. N : h[k] = Prefetch!queue_prefetch(h[k - 1], t[k])
  BY <1>2, <1>9
<1> HIDE DEF Is
<1> DEFINE W == [k \in 0 .. N |-> {g[k]}]
<1>12. h[0] \in W[0] /\ \A k \in 1 .. N : h[k - 1] \in W[k - 1] => h[k] \in W[k]
  BY <1>2, <1>5, <1>6, <1>11
<1>13. \A k \in 0 .. N : h[k] \in W[k]
  <2> HIDE DEF W
  <2>1. QED BY <1>2, <1>12, LoopKeeps
<1>14. h[N] = g[N]
  BY <1>2, <1>13
<1>15. SubSeq(t, 1, N) = t
  <2>1. \A k \in 1 .. N : t[k] \in Int
    BY <1>2
  <2>2. /\ SubSeq(t, 1, N) \in Seq(Int) /\ Len(SubSeq(t, 1, N)) = IF 1 <= N THEN N - 1 + 1 ELSE 0
        /\ \A j \in 1 .. N - 1 + 1 : SubSeq(t, 1, N)[j] = t[1 + j - 1]
    BY <1>2, <2>1, SubSeqProperties
  <2>3. Len(SubSeq(t, 1, N)) = N /\ \A j \in 1 .. N : SubSeq(t, 1, N)[j] = t[j]
    BY <1>2, <2>2
  <2>4. QED BY <1>1, <2>2, <2>3, SeqEqual
<1>16. N \in 0 .. N
  BY <1>2
<1>17. g[N] = Latest(s \o SubSeq(t, 1, N))
  BY <1>3, <1>16
<1>18. QED BY <1>10, <1>14, <1>15, <1>17

LEMMA PowerIs ==
    ASSUME NEW base \in Nat \ {0}, NEW N \in Nat
    PROVE  /\ Prefetch!Power(base, N) \in Nat \ {0}
           /\ Prefetch!Power(base, 0) = 1
           /\ Prefetch!Power(base, N + 1) = base * Prefetch!Power(base, N)
<1> DEFINE Is(h, M) == h = [k \in 0 .. M |-> IF k = 0 THEN 1 ELSE base * h[k - 1]]
<1>1. ASSUME NEW M \in Nat
      PROVE  /\ Is(CHOOSE h : Is(h, M), M)
             /\ Prefetch!Power(base, M) = (CHOOSE h : Is(h, M))[M]
  <2> DEFINE F == [k \in 1 .. M |-> [v \in Nat |-> base * v]]
             W == [k \in 0 .. M |-> Nat]
  <2>1. 1 \in W[0] /\ (\A k \in 0 .. M : W[k] = Nat)
    OBVIOUS
  <2>2. \A k \in 1 .. M : \A v \in Nat : F[k][v] \in Nat /\ F[k][v] = base * v
    OBVIOUS
  <2>3. \A k \in 1 .. M : \A v \in W[k - 1] : F[k][v] \in W[k]
    BY <2>1, <2>2
  <2> HIDE DEF F, W
  <2>4. PICK g : Runs(g, M, 1, F, W)
    BY <2>1, <2>3, LoopRuns
  <2>5. g = [k \in 0 .. M |-> g[k]] /\ g[0] = 1
    BY <2>4 DEF Runs
  <2>6. \A k \in 1 .. M : g[k] = base * g[k - 1]
    <3> TAKE k \in 1 .. M
    <3>0. k - 1 \in 0 .. M
      OBVIOUS
    <3>1. k - 1 \in 0 .. M /\ g[k] = F[k][g[k - 1]]
      BY <2>4, <3>0 DEF Runs
    <3>2. g[k - 1] \in Nat
      BY <2>1, <2>4, <3>1 DEF Runs
    <3>3. QED BY <2>2, <3>1, <3>2
  <2>7. Is(g, M)
    <3>1. ASSUME NEW k \in 0 .. M PROVE g[k] = IF k = 0 THEN 1 ELSE base * g[k - 1]
      <4>1. CASE k = 0
        BY <2>5, <4>1
      <4>2. CASE k \in 1 .. M
        BY <2>6, <4>2
      <4>3. QED BY <4>1, <4>2
    <3>2. QED BY <2>5, <3>1
  <2>8. QED BY <2>7 DEF Prefetch!Power
<1>2. ASSUME NEW M \in Nat, NEW h, Is(h, M)
      PROVE  h[0] = 1 /\ \A k \in 1 .. M : h[k] = base * h[k - 1]
  BY <1>2
<1> HIDE DEF Is
<1>3. PICK h : h = CHOOSE x : Is(x, N)
  OBVIOUS
<1>4. Is(h, N) /\ Prefetch!Power(base, N) = h[N]
  BY <1>1, <1>3
<1>5. h[0] = 1 /\ \A k \in 1 .. N : h[k] = base * h[k - 1]
  BY <1>2, <1>4
<1>6. \A k \in 0 .. N : h[k] \in Nat \ {0}
  <2> DEFINE W == [k \in 0 .. N |-> Nat \ {0}]
  <2>0. ASSUME NEW k \in 1 .. N, h[k - 1] \in Nat \ {0} PROVE h[k] \in Nat \ {0}
    <3>1. PICK x \in Nat \ {0} : x = h[k - 1]
      BY <2>0
    <3>2. base * x \in Nat \ {0}
      OBVIOUS
    <3>3. QED BY <1>5, <3>1, <3>2
  <2>1. h[0] \in W[0] /\ \A k \in 1 .. N : h[k - 1] \in W[k - 1] => h[k] \in W[k]
    BY <1>5, <2>0
  <2>2. \A k \in 0 .. N : h[k] \in W[k]
    <3> HIDE DEF W
    <3>1. QED BY <2>1, LoopKeeps
  <2>3. QED BY <2>2
<1>7. PICK g : g = CHOOSE x : Is(x, N + 1)
  OBVIOUS
<1>8. Is(g, N + 1) /\ Prefetch!Power(base, N + 1) = g[N + 1]
  BY <1>1, <1>7
<1>9. g[0] = 1 /\ \A k \in 1 .. N + 1 : g[k] = base * g[k - 1]
  BY <1>2, <1>8
<1>10. \A k \in 0 .. N : g[k] = h[k]
  <2> DEFINE W == [k \in 0 .. N |-> {h[k]}]
  <2>1. g[0] \in W[0] /\ \A k \in 1 .. N : g[k - 1] \in W[k - 1] => g[k] \in W[k]
    BY <1>5, <1>9
  <2>2. \A k \in 0 .. N : g[k] \in W[k]
    <3> HIDE DEF W
    <3>1. QED BY <2>1, LoopKeeps
  <2>3. QED BY <2>2
<1>11. g[N + 1] = base * g[N] /\ g[N] = h[N]
  <2>1. N + 1 \in 1 .. N + 1 /\ (N + 1) - 1 = N /\ N \in 0 .. N
    OBVIOUS
  <2>2. g[N + 1] = base * g[(N + 1) - 1]
    BY <1>9, <2>1
  <2>3. QED BY <1>10, <2>1, <2>2
<1>12. Prefetch!Power(base, 0) = 1
  <2>1. PICK f : f = CHOOSE x : Is(x, 0)
    OBVIOUS
  <2>2. Is(f, 0) /\ Prefetch!Power(base, 0) = f[0]
    BY <1>1, <2>1
  <2>3. QED BY <1>2, <2>2
<1>13. h[N] \in Nat \ {0}
  BY <1>6
<1>14. QED BY <1>4, <1>8, <1>11, <1>12, <1>13

LEMMA TotalScaled ==
    ASSUME NEW N \in Nat, NEW c \in Int, NEW t, NEW u,
           \A k \in 1 .. N : t[k] \in Int /\ u[k] = c * t[k]
    PROVE  Total(u, N) = c * Total(t, N)
<1>1. \A k \in 1 .. N : u[k] \in Int
  <2> TAKE k \in 1 .. N
  <2>1. PICK x \in Int : x = t[k]
    OBVIOUS
  <2>2. QED BY <2>1
<1>2. PICK g : IsSum(g, t, N) /\ Total(t, N) = g[N] /\ \A k \in 0 .. N : g[k] \in Int
  BY TotalIs
<1>3. PICK h : IsSum(h, u, N) /\ Total(u, N) = h[N]
  BY <1>1, TotalIs
<1>4. g[0] = 0 /\ \A k \in 1 .. N : g[k] = g[k - 1] + t[k]
  BY <1>2, SumTurn
<1>5. h[0] = 0 /\ \A k \in 1 .. N : h[k] = h[k - 1] + u[k]
  BY <1>3, SumTurn
<1> DEFINE W == [k \in 0 .. N |-> {c * g[k]}]
<1>6. ASSUME NEW k \in 1 .. N, h[k - 1] = c * g[k - 1] PROVE h[k] = c * g[k]
  <2>1. PICK x \in Int : x = g[k - 1]
    <3>1. k - 1 \in 0 .. N
      OBVIOUS
    <3>2. QED BY <1>2, <3>1
  <2>2. PICK y \in Int : y = t[k]
    OBVIOUS
  <2>3. c * (x + y) = c * x + c * y
    OBVIOUS
  <2>4. QED BY <1>4, <1>5, <1>6, <2>1, <2>2, <2>3
<1>7. h[0] \in W[0] /\ \A k \in 1 .. N : h[k - 1] \in W[k - 1] => h[k] \in W[k]
  BY <1>4, <1>5, <1>6
<1>8. \A k \in 0 .. N : h[k] \in W[k]
  <2> HIDE DEF W
  <2>1. QED BY <1>7, LoopKeeps
<1>9. h[N] = c * g[N]
  BY <1>8
<1>10. QED BY <1>2, <1>3, <1>9

\* The weights of the accesses to b.
Weights(b) ==
    [k \in 1 .. Len(accesses) |->
        IF accesses[k] = b THEN Prefetch!Power(19, Len(accesses) - k) * Prefetch!Power(20, k) ELSE 0]

LEMMA WeightsInt ==
    ASSUME accesses \in Seq(Int), NEW b
    PROVE  Len(accesses) \in Nat /\ \A k \in 1 .. Len(accesses) : Weights(b)[k] \in Int
<1>1. Len(accesses) \in Nat
  OBVIOUS
<1>2. ASSUME NEW k \in 1 .. Len(accesses) PROVE Weights(b)[k] \in Int
  <2>1. Len(accesses) - k \in Nat /\ k \in Nat /\ 19 \in Nat \ {0} /\ 20 \in Nat \ {0}
    BY <1>1
  <2>2. PICK x \in Nat : x = Prefetch!Power(19, Len(accesses) - k)
    BY <2>1, PowerIs
  <2>3. PICK y \in Nat : y = Prefetch!Power(20, k)
    BY <2>1, PowerIs
  <2>4. x * y \in Int
    OBVIOUS
  <2>5. QED BY <2>2, <2>3, <2>4 DEF Weights
<1>3. QED BY <1>1, <1>2

LEMMA WeightTotal ==
    ASSUME accesses \in Seq(Int), NEW b
    PROVE  Prefetch!Weight(b) = Total(Weights(b), Len(accesses))
<1>1. PICK N : N = Len(accesses)
  OBVIOUS
<1>2. PICK t : t = Weights(b)
  OBVIOUS
<1>3. N \in Nat /\ \A k \in 1 .. N : t[k] \in Int
  BY <1>1, <1>2, WeightsInt
<1>4. \A k \in 1 .. N : t[k] = IF accesses[k] = b THEN Prefetch!Power(19, N - k) * Prefetch!Power(20, k) ELSE 0
  BY <1>1, <1>2 DEF Weights
<1>5. PICK g : IsSum(g, t, N) /\ Total(t, N) = g[N]
  BY <1>3, TotalIs
<1> DEFINE Is(h) == h = [k \in 0 .. N |-> IF k = 0 THEN 0 ELSE h[k - 1] +
                            IF accesses[k] = b THEN Prefetch!Power(19, N - k) * Prefetch!Power(20, k) ELSE 0]
<1>6. \A h : Is(h) <=> IsSum(h, t, N)
  BY <1>3, <1>4 DEF IsSum
<1>7. Prefetch!Weight(b) = (CHOOSE h : Is(h))[N]
  BY <1>1 DEF Prefetch!Weight
<1>8. PICK h : h = CHOOSE x : Is(x)
  OBVIOUS
<1>9. Is(h)
  BY <1>5, <1>6, <1>8
<1> HIDE DEF Is
<1>10. IsSum(h, t, N) /\ N \in 0 .. N
  BY <1>3, <1>6, <1>9
<1>11. \A k \in 0 .. N : h[k] = g[k]
  BY <1>3, <1>5, <1>10, SumAgrees
<1>12. QED BY <1>1, <1>2, <1>5, <1>7, <1>8, <1>10, <1>11

\* What an access does to the weights.
LEMMA WeightStep ==
    ASSUME accesses \in Seq(Int), NEW c \in Int, accesses' = Append(accesses, c), NEW b
    PROVE  /\ Prefetch!Weight(b) \in Int
           /\ Prefetch!Weight(b)' = 19 * Prefetch!Weight(b)
                  + IF c = b THEN Prefetch!Power(20, Len(accesses) + 1) ELSE 0
<1>1. PICK N : N = Len(accesses)
  OBVIOUS
<1>2. PICK t : t = Weights(b)
  OBVIOUS
<1>3. N \in Nat /\ (\A k \in 1 .. N : t[k] \in Int) /\ Prefetch!Weight(b) = Total(t, N)
  BY <1>1, <1>2, WeightsInt, WeightTotal
<1>4. /\ accesses' \in Seq(Int) /\ Len(accesses') = N + 1 /\ accesses'[N + 1] = c
      /\ \A k \in 1 .. N : accesses'[k] = accesses[k]
  BY <1>1
<1>5. PICK z : z = accesses'
  OBVIOUS
<1>6. PICK u : u = Weights(b)'
  OBVIOUS
<1>7. Prefetch!Weight(b)' = Total(u, N + 1) /\ \A k \in 1 .. N + 1 : u[k] \in Int
  <2>1. (accesses \in Seq(Int) =>
            /\ Prefetch!Weight(b) = Total(Weights(b), Len(accesses))
            /\ \A k \in 1 .. Len(accesses) : Weights(b)[k] \in Int)'
    BY WeightTotal, WeightsInt, PTL
  <2>2. QED BY <1>4, <1>6, <2>1
<1>8. ASSUME NEW k \in 1 .. N + 1
      PROVE  u[k] = IF z[k] = b THEN Prefetch!Power(19, N + 1 - k) * Prefetch!Power(20, k) ELSE 0
  <2>1. k \in 1 .. Len(accesses')
    BY <1>4
  <2>2. Weights(b)'[k] = IF accesses'[k] = b
                         THEN Prefetch!Power(19, Len(accesses') - k) * Prefetch!Power(20, k) ELSE 0
    BY <2>1 DEF Weights
  <2>3. Len(accesses') - k = N + 1 - k
    BY <1>3, <1>4
  <2>4. QED BY <1>5, <1>6, <2>2, <2>3
<1>9. \A k \in 1 .. N : t[k] = IF accesses[k] = b
                               THEN Prefetch!Power(19, N - k) * Prefetch!Power(20, k) ELSE 0
  BY <1>1, <1>2 DEF Weights
<1>10. \A k \in 1 .. N : u[k] = 19 * t[k]
  <2> TAKE k \in 1 .. N
  <2>1. k \in 1 .. N + 1 /\ z[k] = accesses[k]
    BY <1>3, <1>4, <1>5
  <2>2. N - k \in Nat /\ (N - k) + 1 = N + 1 - k /\ k \in Nat /\ 19 \in Nat \ {0} /\ 20 \in Nat \ {0}
    BY <1>3
  <2>3. PICK x \in Nat : x = Prefetch!Power(19, N - k)
    BY <2>2, PowerIs
  <2>4. PICK y \in Nat : y = Prefetch!Power(20, k)
    BY <2>2, PowerIs
  <2>5. Prefetch!Power(19, N + 1 - k) = 19 * x
    BY <2>2, <2>3, PowerIs
  <2>6. (19 * x) * y = 19 * (x * y)
    OBVIOUS
  <2>7. CASE accesses[k] = b
    <3>1. u[k] = (19 * x) * y
      BY <1>8, <2>1, <2>4, <2>5, <2>7
    <3>2. t[k] = x * y
      BY <1>9, <2>3, <2>4, <2>7
    <3>3. QED BY <2>6, <3>1, <3>2
  <2>8. CASE accesses[k] # b
    BY <1>8, <1>9, <2>1, <2>8
  <2>9. QED BY <2>7, <2>8
<1>11. u[N + 1] = IF c = b THEN Prefetch!Power(20, N + 1) ELSE 0
  <2>1. N + 1 \in 1 .. N + 1 /\ N + 1 - (N + 1) = 0 /\ N + 1 \in Nat /\ 19 \in Nat \ {0} /\ 20 \in Nat \ {0}
    BY <1>3
  <2>2. Prefetch!Power(19, N + 1 - (N + 1)) = 1
    BY <2>1, PowerIs
  <2>3. PICK y \in Nat : y = Prefetch!Power(20, N + 1)
    BY <2>1, PowerIs
  <2>4. 1 * y = y
    OBVIOUS
  <2>5. z[N + 1] = c
    BY <1>4, <1>5
  <2>6. QED BY <1>8, <2>1, <2>2, <2>3, <2>4, <2>5
<1>12. Total(u, N + 1) = Total(u, N) + u[N + 1]
  BY <1>3, <1>7, TotalStep
<1>13. Total(u, N) = 19 * Total(t, N)
  <2>1. 19 \in Int /\ \A k \in 1 .. N : t[k] \in Int /\ u[k] = 19 * t[k]
    BY <1>3, <1>10
  <2>2. QED BY <1>3, <2>1, TotalScaled
<1>14. Total(t, N) \in Int
  BY <1>3, TotalInt
<1>15. QED BY <1>1, <1>3, <1>7, <1>11, <1>12, <1>13, <1>14

\* Of the blocks in T there is one of most heat, the first of them.
LEMMA HottestExists ==
    ASSUME NEW N \in Nat, NEW h \in [0 .. N - 1 -> Nat], NEW T, T \subseteq 0 .. N - 1, T # {}
    PROVE  \E b \in T : \A c \in T : h[b] > h[c] \/ (h[b] = h[c] /\ b <= c)
<1> DEFINE Low(m) == {x \in T : x < m}
           Best(b, m) == b \in Low(m) /\ \A c \in Low(m) : h[b] > h[c] \/ (h[b] = h[c] /\ b <= c)
           S == {m \in 0 .. N : Low(m) = {} \/ \E b : Best(b, m)}
<1>0. \A x \in T : x \in Int /\ 0 <= x /\ x <= N - 1
  OBVIOUS
<1>1. 0 \in S
  BY <1>0
<1>2. ASSUME NEW m \in 1 .. N, m - 1 \in S PROVE m \in S
  <2>1. Low(m) = Low(m - 1) \cup (IF m - 1 \in T THEN {m - 1} ELSE {})
    <3>1. ASSUME NEW x PROVE x \in Low(m) <=> x \in Low(m - 1) \/ (m - 1 \in T /\ x = m - 1)
      <4>1. CASE x \in T
        <5>1. x \in Int /\ (x < m <=> x < m - 1 \/ x = m - 1)
          BY <1>0, <4>1
        <5>2. QED BY <4>1, <5>1
      <4>2. CASE x \notin T
        BY <4>2
      <4>3. QED BY <4>1, <4>2
    <3> HIDE DEF Low
    <3>2. QED BY <3>1
  <2>2. \A x \in Low(m) : x \in 0 .. N - 1 /\ h[x] \in Nat
    OBVIOUS
  <2>3. m \in 0 .. N
    OBVIOUS
  <2>4. CASE m - 1 \notin T
    <3>1. Low(m) = Low(m - 1)
      BY <2>1, <2>4
    <3>2. QED BY <1>2, <2>3, <3>1
  <2>5. CASE m - 1 \in T /\ Low(m - 1) = {}
    <3>1. Low(m) = {m - 1}
      BY <2>1, <2>5
    <3>2. Best(m - 1, m)
      BY <3>1
    <3>3. QED BY <2>3, <3>2
  <2>6. CASE m - 1 \in T /\ Low(m - 1) # {}
    <3>1. PICK b : Best(b, m - 1)
      BY <1>2, <2>6
    <3>2. b \in Low(m) /\ m - 1 \in Low(m) /\ b < m - 1 /\ b \in Int
      BY <2>1, <2>2, <2>6, <3>1
    <3>3. CASE h[m - 1] > h[b]
      <4>1. ASSUME NEW c \in Low(m) PROVE h[m - 1] > h[c] \/ (h[m - 1] = h[c] /\ m - 1 <= c)
        <5>1. CASE c = m - 1
          BY <2>2, <3>2, <5>1
        <5>2. CASE c \in Low(m - 1)
          BY <2>2, <3>1, <3>2, <3>3, <5>2
        <5>3. QED BY <2>1, <5>1, <5>2
      <4>2. Best(m - 1, m)
        BY <3>2, <4>1
      <4>3. QED BY <2>3, <4>2
    <3>4. CASE ~(h[m - 1] > h[b])
      <4>1. ASSUME NEW c \in Low(m) PROVE h[b] > h[c] \/ (h[b] = h[c] /\ b <= c)
        <5>1. CASE c = m - 1
          BY <2>2, <3>2, <3>4, <5>1
        <5>2. CASE c \in Low(m - 1)
          BY <3>1, <5>2
        <5>3. QED BY <2>1, <5>1, <5>2
      <4>2. Best(b, m)
        BY <3>2, <4>1
      <4>3. QED BY <2>3, <4>2
    <3>5. QED BY <3>3, <3>4
  <2>7. QED BY <2>4, <2>5, <2>6
<1>3. N \in S
  <2> HIDE DEF S
  <2>1. 0 .. N \subseteq S
    BY <1>1, <1>2, Upwards
  <2>2. QED BY <2>1
<1>4. Low(N) = T
  <2>1. \A x \in T : x < N
    BY <1>0
  <2>2. QED BY <2>1
<1>5. PICK b : Best(b, N)
  BY <1>3, <1>4
<1>6. QED BY <1>4, <1>5

HeatAdded ==
    (Len(accesses) > 0 /\ Prefetch!Ahead(accesses[Len(accesses)]) < MAX_PREFETCH) =>
        \A b \in Prefetch!Blocks \ {accesses[Len(accesses)]} :
            heat_map[b] > 0 => /\ predicted[Len(predicted)] \in Prefetch!Blocks
                               /\ heat_map[b] <= heat_map[predicted[Len(predicted)]]

\* heat_map is the weight of the accesses.
PrefetchInv ==
    /\ predicted \in Seq(Int) /\ accesses \in Seq(Int)
    /\ queue = Latest(predicted)
    /\ heat_map \in [Prefetch!Blocks -> Nat]
    /\ \A b \in Prefetch!Blocks : heat_map[b] = Prefetch!Weight(b)
    /\ \A k \in 1 .. Len(accesses) : accesses[k] \in Prefetch!Blocks /\ heat_map[accesses[k]] > 0
    /\ HeatAdded

LEMMA PrefetchStart == Prefetch!Init => PrefetchInv
<1> SUFFICES ASSUME Prefetch!Init PROVE PrefetchInv
  OBVIOUS
<1>1. /\ queue = <<>> /\ heat_map = [b \in Prefetch!Blocks |-> 0] /\ accesses = <<>> /\ predicted = <<>>
  BY DEF Prefetch!Init, Prefetch!init_performance_optimizer
<1>2. predicted \in Seq(Int) /\ accesses \in Seq(Int) /\ Len(predicted) = 0 /\ Len(accesses) = 0
  BY <1>1, EmptySeq
<1>3. Latest(predicted) = <<>>
  <2>1. PREFETCH \in Nat
    BY SystemAssumption
  <2>2. 0 \in Nat /\ 0 = IF Len(predicted) > PREFETCH THEN PREFETCH ELSE Len(predicted)
    BY <1>2, <2>1
  <2>3. Latest(predicted) \in Seq(Int) /\ Len(Latest(predicted)) = 0
    BY <1>2, <2>2, LatestIs
  <2>4. QED BY <2>3, EmptySeq
<1>4. \A b : Prefetch!Weight(b) = 0
  <2> TAKE b
  <2>1. Prefetch!Weight(b) = Total(Weights(b), Len(accesses))
    BY <1>2, WeightTotal
  <2>2. QED BY <1>2, <2>1, TotalNone
<1>5. /\ heat_map \in [Prefetch!Blocks -> Nat]
      /\ \A b \in Prefetch!Blocks : heat_map[b] = Prefetch!Weight(b)
  BY <1>1, <1>4
<1>6. \A k \in 1 .. Len(accesses) : accesses[k] \in Prefetch!Blocks /\ heat_map[accesses[k]] > 0
  BY <1>2
<1>7. HeatAdded
  BY <1>2 DEF HeatAdded
<1>8. QED BY <1>1, <1>2, <1>3, <1>5, <1>6, <1>7 DEF PrefetchInv

\* What is predicted after an access to x: integers, and the hottest other block last,
\* if there is room for it and some other block is warm.
LEMMA Predictions ==
    ASSUME NEW h \in [Prefetch!Blocks -> Nat], NEW x \in Prefetch!Blocks, NEW s,
           s = Prefetch!predict_next_blocks(h, x)
    PROVE  /\ s \in Seq(Int)
           /\ \A b \in Prefetch!Blocks \ {x} :
                (Prefetch!Ahead(x) < MAX_PREFETCH /\ h[b] > 0) =>
                    Len(s) > 0 /\ s[Len(s)] \in Prefetch!Blocks /\ h[b] <= h[s[Len(s)]]
<1>1. BLOCKS \in Nat /\ PREFETCH \in Nat
  BY SystemAssumption
<1>2. Prefetch!Blocks = 0 .. BLOCKS - 1
  BY DEF Prefetch!Blocks
<1>3. PICK N : N = Prefetch!Ahead(x)
  OBVIOUS
<1>4. N \in Nat
  BY <1>1, <1>2, <1>3 DEF Prefetch!Ahead
<1>5. PICK q : q = [k \in 1 .. N |-> x + k]
  OBVIOUS
<1>6. q \in Seq(Int) /\ Len(q) = N
  BY <1>2, <1>4, <1>5
<1>7. PICK H : H = Prefetch!Hot(h, x)
  OBVIOUS
<1>8. PICK y : y = CHOOSE b \in H : TRUE
  OBVIOUS
<1>9. s = IF N < MAX_PREFETCH /\ H # {} THEN Append(q, y) ELSE q
  BY <1>3, <1>5, <1>7, <1>8 DEF Prefetch!predict_next_blocks
<1>10. H # {} => /\ y \in Prefetch!Blocks
                 /\ \A c \in Prefetch!Blocks \ {x} : h[y] > h[c] \/ (h[y] = h[c] /\ y <= c)
  <2>1. H # {} => y \in H
    BY <1>8
  <2>2. QED BY <1>7, <2>1 DEF Prefetch!Hot
<1>11. s \in Seq(Int)
  <2>1. CASE N < MAX_PREFETCH /\ H # {}
    <3>1. y \in Int
      BY <1>2, <1>10, <2>1
    <3>2. QED BY <1>6, <1>9, <2>1, <3>1
  <2>2. CASE ~(N < MAX_PREFETCH /\ H # {})
    BY <1>6, <1>9, <2>2
  <2>3. QED BY <2>1, <2>2
<1>12. ASSUME NEW b \in Prefetch!Blocks \ {x}, N < MAX_PREFETCH, h[b] > 0
       PROVE  Len(s) > 0 /\ s[Len(s)] \in Prefetch!Blocks /\ h[b] <= h[s[Len(s)]]
  <2> DEFINE T == Prefetch!Blocks \ {x}
  <2>1. T \subseteq 0 .. BLOCKS - 1 /\ T # {} /\ h \in [0 .. BLOCKS - 1 -> Nat]
    BY <1>2
  <2>2. PICK c \in T : \A d \in T : h[c] > h[d] \/ (h[c] = h[d] /\ c <= d)
    <3> HIDE DEF T
    <3>1. QED BY <1>1, <2>1, HottestExists
  <2>3. h[c] \in Nat /\ h[b] \in Nat
    OBVIOUS
  <2>4. h[c] > 0
    <3>1. h[c] > h[b] \/ h[c] = h[b]
      BY <2>2
    <3>2. QED BY <1>12, <2>3, <3>1
  <2>5. c \in H
    BY <1>7, <2>2, <2>4 DEF Prefetch!Hot
  <2>6. s = Append(q, y) /\ y \in Prefetch!Blocks /\ y \in Int
    BY <1>2, <1>9, <1>10, <1>12, <2>5
  <2>7. Len(s) = N + 1 /\ s[N + 1] = y
    BY <1>6, <2>6
  <2>8. h[y] \in Nat /\ (h[y] > h[b] \/ h[y] = h[b])
    BY <1>10, <2>5, <2>6
  <2>9. h[b] <= h[y]
    BY <2>3, <2>8
  <2>10. QED BY <1>4, <2>6, <2>7, <2>9
<1>13. QED BY <1>3, <1>11, <1>12

LEMMA PrefetchStep == PrefetchInv /\ Prefetch!Next => PrefetchInv'
<1> SUFFICES ASSUME PrefetchInv, Prefetch!Next PROVE PrefetchInv'
  OBVIOUS
<1>1. PICK x \in Prefetch!Blocks : Prefetch!update_access_pattern(x)
  BY DEF Prefetch!Next
<1>2. /\ predicted \in Seq(Int) /\ accesses \in Seq(Int) /\ queue = Latest(predicted)
      /\ heat_map \in [Prefetch!Blocks -> Nat]
      /\ \A b \in Prefetch!Blocks : heat_map[b] = Prefetch!Weight(b)
      /\ \A k \in 1 .. Len(accesses) : accesses[k] \in Prefetch!Blocks /\ heat_map[accesses[k]] > 0
  BY DEF PrefetchInv
<1>3. PICK w : w = Prefetch!Power(20, Len(accesses) + 1)
  OBVIOUS
<1>4. w \in Nat \ {0} /\ Len(accesses) \in Nat
  <2>1. Len(accesses) \in Nat /\ Len(accesses) + 1 \in Nat /\ 20 \in Nat \ {0}
    BY <1>2
  <2>2. QED BY <1>3, <2>1, PowerIs
<1>5. PICK h : h = heat_map'
  OBVIOUS
<1>6. h = [[b \in Prefetch!Blocks |-> 19 * heat_map[b]] EXCEPT ![x] = @ + w]
  BY <1>1, <1>3, <1>5 DEF Prefetch!update_access_pattern
<1>7. \A b \in Prefetch!Blocks : h[b] = 19 * heat_map[b] + IF b = x THEN w ELSE 0
  <2> TAKE b \in Prefetch!Blocks
  <2>1. CASE b = x
    BY <1>6, <2>1
  <2>2. CASE b # x
    <3>1. h[b] = 19 * heat_map[b] /\ heat_map[b] \in Nat
      BY <1>2, <1>6, <2>2
    <3>2. QED BY <2>2, <3>1
  <2>3. QED BY <2>1, <2>2
<1>8. h \in [Prefetch!Blocks -> Nat]
  <2>1. ASSUME NEW b \in Prefetch!Blocks PROVE h[b] \in Nat
    <3>1. PICK v \in Nat : v = heat_map[b]
      BY <1>2
    <3>2. h[b] = 19 * v + IF b = x THEN w ELSE 0
      BY <1>7, <3>1
    <3>3. QED BY <1>4, <3>2
  <2>2. h = [b \in Prefetch!Blocks |-> h[b]]
    BY <1>6
  <2>3. QED BY <2>1, <2>2
<1>9. PICK s : s = Prefetch!predict_next_blocks(h, x)
  OBVIOUS
<1>10. queue' = Prefetch!QueueAll(s) /\ predicted' = predicted \o s /\ accesses' = Append(accesses, x)
  BY <1>1, <1>5, <1>9 DEF Prefetch!update_access_pattern
<1>11. /\ s \in Seq(Int)
       /\ \A b \in Prefetch!Blocks \ {x} :
            (Prefetch!Ahead(x) < MAX_PREFETCH /\ h[b] > 0) =>
                Len(s) > 0 /\ s[Len(s)] \in Prefetch!Blocks /\ h[b] <= h[s[Len(s)]]
  BY <1>8, <1>9, Predictions
<1>12. queue' = Latest(predicted')
  BY <1>2, <1>10, <1>11, QueuesAll
<1>13. x \in Int
  BY SystemAssumption DEF Prefetch!Blocks
<1>14. predicted' \in Seq(Int) /\ accesses' \in Seq(Int)
  BY <1>2, <1>10, <1>11, <1>13, ConcatProperties
<1>15. \A b \in Prefetch!Blocks : h[b] = Prefetch!Weight(b)'
  <2> TAKE b \in Prefetch!Blocks
  <2>1. /\ Prefetch!Weight(b) \in Int
        /\ Prefetch!Weight(b)' = 19 * Prefetch!Weight(b)
                  + IF x = b THEN Prefetch!Power(20, Len(accesses) + 1) ELSE 0
    BY <1>2, <1>10, <1>13, WeightStep
  <2>2. Prefetch!Weight(b)' = 19 * heat_map[b] + IF x = b THEN w ELSE 0
    BY <1>2, <1>3, <2>1
  <2>3. QED BY <1>7, <2>2
<1>16. /\ Len(accesses') = Len(accesses) + 1 /\ accesses'[Len(accesses) + 1] = x
       /\ \A k \in 1 .. Len(accesses) : accesses'[k] = accesses[k]
  BY <1>2, <1>10, <1>13
<1>17. ASSUME NEW k \in 1 .. Len(accesses')
       PROVE  accesses'[k] \in Prefetch!Blocks /\ h[accesses'[k]] > 0
  <2>1. CASE k = Len(accesses) + 1
    <3>1. heat_map[x] \in Nat /\ h[x] = 19 * heat_map[x] + w
      BY <1>2, <1>7
    <3>2. h[x] > 0
      BY <1>4, <3>1
    <3>3. QED BY <1>16, <2>1, <3>2
  <2>2. CASE k \in 1 .. Len(accesses)
    <3>1. PICK b : b = accesses[k]
      OBVIOUS
    <3>2. b \in Prefetch!Blocks /\ heat_map[b] \in Nat /\ heat_map[b] > 0 /\ accesses'[k] = b
      BY <1>2, <1>16, <2>2, <3>1
    <3>3. h[b] > 0
      BY <1>4, <1>7, <3>2
    <3>4. QED BY <3>2, <3>3
  <2>3. QED BY <1>4, <1>16, <2>1, <2>2
<1>18. HeatAdded'
  <2>1. accesses'[Len(accesses')] = x
    BY <1>16
  <2>2. SUFFICES ASSUME Prefetch!Ahead(x) < MAX_PREFETCH, NEW b \in Prefetch!Blocks \ {x}, h[b] > 0
                 PROVE  predicted'[Len(predicted')] \in Prefetch!Blocks /\ h[b] <= h[predicted'[Len(predicted')]]
    BY <1>5, <2>1 DEF HeatAdded
  <2>3. PICK y : y = s[Len(s)]
    OBVIOUS
  <2>4. Len(s) > 0 /\ y \in Prefetch!Blocks /\ h[b] <= h[y]
    BY <1>11, <2>2, <2>3
  <2>5. predicted'[Len(predicted')] = y
    <3>1. /\ Len(predicted \o s) = Len(predicted) + Len(s)
          /\ \A j \in 1 .. Len(predicted) + Len(s) :
                (predicted \o s)[j] = IF j <= Len(predicted) THEN predicted[j] ELSE s[j - Len(predicted)]
      BY <1>2, <1>11, ConcatProperties
    <3>2. PICK j : j = Len(predicted) + Len(s)
      OBVIOUS
    <3>3. /\ j \in 1 .. Len(predicted) + Len(s) /\ ~(j <= Len(predicted))
          /\ j - Len(predicted) = Len(s)
      BY <1>2, <1>11, <2>4, <3>2
    <3>4. QED BY <1>10, <2>3, <3>1, <3>2, <3>3
  <2>6. QED BY <2>4, <2>5
<1>19. QED BY <1>5, <1>8, <1>12, <1>14, <1>15, <1>17, <1>18 DEF PrefetchInv

LEMMA PrefetchEnd == PrefetchInv => Prefetch!QueueKept
<1> SUFFICES ASSUME PrefetchInv PROVE Prefetch!QueueKept
  OBVIOUS
<1>1. Prefetch!LatestKept
  BY DEF PrefetchInv, Prefetch!LatestKept, Latest
<1>2. Prefetch!HottestAdded
  <2>1. PICK x : x = accesses[Len(accesses)]
    OBVIOUS
  <2>2. SUFFICES ASSUME Len(accesses) > 0, Prefetch!Ahead(x) < MAX_PREFETCH,
                        NEW k \in 1 .. Len(accesses), accesses[k] # x
                 PROVE  \E j \in Len(predicted) - Prefetch!Ahead(x) .. Len(predicted) :
                            Prefetch!Weight(accesses[k]) <= Prefetch!Weight(predicted[j])
    <3>1. DOMAIN accesses = 1 .. Len(accesses)
      BY DEF PrefetchInv
    <3>2. QED BY <2>1, <3>1 DEF Prefetch!HottestAdded, Prefetch!Range
  <2>3. PICK b : b = accesses[k]
    OBVIOUS
  <2>4. PICK y : y = predicted[Len(predicted)]
    OBVIOUS
  <2>5. b \in Prefetch!Blocks \ {x} /\ heat_map[b] > 0
    BY <2>2, <2>3 DEF PrefetchInv
  <2>6. y \in Prefetch!Blocks /\ heat_map[b] <= heat_map[y]
    BY <2>1, <2>2, <2>4, <2>5 DEF PrefetchInv, HeatAdded
  <2>7. heat_map[b] = Prefetch!Weight(b) /\ heat_map[y] = Prefetch!Weight(y)
    BY <2>5, <2>6 DEF PrefetchInv
  <2>8. Len(predicted) \in Len(predicted) - Prefetch!Ahead(x) .. Len(predicted)
    <3>1. Len(predicted) \in Nat
      BY DEF PrefetchInv
    <3>2. Prefetch!Ahead(x) \in Nat
      <4>1. BLOCKS \in Nat /\ PREFETCH \in Nat
        BY SystemAssumption
      <4>2. Len(accesses) \in 1 .. Len(accesses)
        BY <2>2 DEF PrefetchInv
      <4>3. x \in 0 .. BLOCKS - 1
        BY <2>1, <4>2 DEF PrefetchInv, Prefetch!Blocks
      <4>4. QED BY <4>1, <4>3 DEF Prefetch!Ahead
    <3>3. QED BY <3>1, <3>2
  <2>9. QED BY <2>3, <2>4, <2>6, <2>7, <2>8
<1>3. QED BY <1>1, <1>2 DEF Prefetch!QueueKept

-----------------------------------------------------------------------------
(* directory_implementation.c and directory_operations.c *)

AnyEntries == [name : NAMES \cup {"..", "?"}, type : Directory!Types]
Records == [operation : Directory!Operations, entry : Directory!Entries]
EmptyDir == <<Directory!EntryOf("..", "directory"), Directory!EntryOf("?", "file")>>

LEMMA EntryFacts ==
    ASSUME NEW e \in Directory!Entries
    PROVE  e \in AnyEntries /\ e.name \in NAMES /\ e = [name |-> e.name, type |-> e.type]
BY DEF Directory!Entries, Directory!EntryOf, AnyEntries

LEMMA FindsFirst ==
    ASSUME NEW d \in Seq(AnyEntries), NEW x, Directory!Found(d, x) # {}, NEW p,
           p = Directory!find_entry(d, x)
    PROVE  p \in 1 .. Len(d) /\ d[p].name = x
<1> DEFINE T == Directory!Found(d, x)
<1>1. T \subseteq Nat /\ T # {}
  BY DEF Directory!Found
<1>2. \E k \in T : \A l \in T : k <= l
  <2> HIDE DEF T
  <2>1. QED BY <1>1, LeastNatural
<1>3. p = CHOOSE k \in T : \A l \in T : k <= l
  BY DEF Directory!find_entry
<1> HIDE DEF T
<1>4. p \in T
  BY <1>2, <1>3
<1>5. QED BY <1>4 DEF T, Directory!Found

LEMMA ApplyTyped ==
    ASSUME NEW d \in Seq(AnyEntries), NEW r \in Records
    PROVE  Directory!Apply(d, r) \in Seq(AnyEntries)
<1>1. PICK e : e = r.entry
  OBVIOUS
<1>2. e \in AnyEntries /\ e.name \in NAMES
  BY <1>1, EntryFacts DEF Records
<1>3. Append(d, e) \in Seq(AnyEntries)
  BY <1>2
<1>4. Directory!add_directory_entry(d, e) \in Seq(AnyEntries)
  BY <1>3 DEF Directory!add_directory_entry
<1>5. PICK p : p = Directory!find_entry(d, e.name)
  OBVIOUS
<1>6. Directory!remove_directory_entry(d, e.name) \in Seq(AnyEntries)
  <2>1. CASE Directory!Found(d, e.name) = {}
    BY <2>1 DEF Directory!remove_directory_entry
  <2>2. CASE Directory!Found(d, e.name) # {}
    <3>1. PICK z : z = SubSeq(d, 1, p - 1) \o SubSeq(d, p + 1, Len(d))
      OBVIOUS
    <3>2. p \in 1 .. Len(d)
      BY <1>5, <2>2, FindsFirst
    <3>3. z \in Seq(AnyEntries)
      BY <3>1, <3>2, Removed
    <3>4. Directory!remove_directory_entry(d, e.name) = z
      BY <1>5, <2>2, <3>1 DEF Directory!remove_directory_entry
    <3>5. QED BY <3>3, <3>4
  <2>3. QED BY <2>1, <2>2
<1>7. Directory!update_directory_entry(d, e) \in Seq(AnyEntries)
  <2>1. CASE Directory!Found(d, e.name) = {}
    BY <2>1 DEF Directory!update_directory_entry
  <2>2. CASE Directory!Found(d, e.name) # {}
    <3>1. p \in 1 .. Len(d)
      BY <1>5, <2>2, FindsFirst
    <3>2. [d EXCEPT ![p] = e] \in Seq(AnyEntries)
      BY <1>2, <3>1
    <3>3. QED BY <1>5, <2>2, <3>2 DEF Directory!update_directory_entry
  <2>3. QED BY <2>1, <2>2
<1>8. QED BY <1>1, <1>4, <1>6, <1>7 DEF Directory!Apply

\* Replay applies the records one after the other.
LEMMA ReplayIs ==
    ASSUME NEW d \in Seq(AnyEntries), NEW s \in Seq(Records)
    PROVE  \E g : /\ Directory!Replay(d, s) = g[Len(s)] /\ g[0] = d
                  /\ \A k \in 1 .. Len(s) : g[k] = Directory!Apply(g[k - 1], s[k])
<1>1. PICK N : N = Len(s)
  OBVIOUS
<1>2. N \in Nat /\ \A k \in 1 .. N : s[k] \in Records
  BY <1>1, ElementOfSeq
<1> DEFINE A == Seq(AnyEntries)
           F == [k \in 1 .. N |-> [v \in A |-> Directory!Apply(v, s[k])]]
           W == [k \in 0 .. N |-> A]
           Is(h) == h = [k \in 0 .. N |-> IF k = 0 THEN d ELSE Directory!Apply(h[k - 1], s[k])]
<1>3. d \in W[0] /\ \A k \in 0 .. N : W[k] = A
  BY <1>2
<1>4. \A k \in 1 .. N : \A v \in A : F[k][v] = Directory!Apply(v, s[k]) /\ F[k][v] \in A
  BY <1>2, ApplyTyped
<1>5. \A k \in 1 .. N : \A v \in W[k - 1] : F[k][v] \in W[k]
  BY <1>2, <1>4
<1> HIDE DEF F, W, A
<1>6. PICK g : Runs(g, N, d, F, W)
  BY <1>2, <1>3, <1>5, LoopRuns
<1>7. g = [k \in 0 .. N |-> g[k]] /\ g[0] = d
  BY <1>6 DEF Runs
<1>8. \A k \in 1 .. N : g[k] = Directory!Apply(g[k - 1], s[k])
  <2> TAKE k \in 1 .. N
  <2>1. k - 1 \in 0 .. N
    BY <1>2
  <2>2. g[k - 1] \in A /\ g[k] = F[k][g[k - 1]]
    BY <1>3, <1>6, <2>1 DEF Runs
  <2>3. QED BY <1>4, <2>2
<1>9. Is(g)
  <2>1. ASSUME NEW k \in 0 .. N PROVE g[k] = IF k = 0 THEN d ELSE Directory!Apply(g[k - 1], s[k])
    <3>1. CASE k = 0
      BY <1>7, <3>1
    <3>2. CASE k \in 1 .. N
      BY <1>8, <3>2
    <3>3. QED BY <1>2, <3>1, <3>2
  <2>2. QED BY <1>7, <2>1
<1>10. PICK h : h = CHOOSE x : Is(x)
  OBVIOUS
<1>11. Is(h)
  BY <1>9, <1>10
<1>12. Directory!Replay(d, s) = h[N]
  BY <1>1, <1>10 DEF Directory!Replay
<1>13. h[0] = d /\ \A k \in 1 .. N : h[k] = Directory!Apply(h[k - 1], s[k])
  BY <1>2, <1>11
<1>14. QED BY <1>1, <1>12, <1>13

LEMMA ReplayNone ==
    ASSUME NEW d \in Seq(AnyEntries)
    PROVE  Directory!Replay(d, <<>>) = d
<1>1. <<>> \in Seq(Records) /\ Len(<<>>) = 0
  BY EmptySeq
<1>2. PICK g : /\ Directory!Replay(d, <<>>) = g[Len(<<>>)] /\ g[0] = d
               /\ \A k \in 1 .. Len(<<>>) : g[k] = Directory!Apply(g[k - 1], <<>>[k])
  BY <1>1, ReplayIs, Zenon
<1>3. QED BY <1>1, <1>2

LEMMA ReplayAppend ==
    ASSUME NEW d \in Seq(AnyEntries), NEW s \in Seq(Records), NEW r \in Records
    PROVE  Directory!Replay(d, Append(s, r)) = Directory!Apply(Directory!Replay(d, s), r)
<1>1. PICK z : z = Append(s, r)
  OBVIOUS
<1>2. PICK N \in Nat : N = Len(s)
  OBVIOUS
<1>3. z \in Seq(Records) /\ Len(z) = N + 1 /\ z[N + 1] = r /\ \A k \in 1 .. N : z[k] = s[k]
  BY <1>1, <1>2
<1>4. PICK g : /\ Directory!Replay(d, s) = g[N] /\ g[0] = d
               /\ \A k \in 1 .. N : g[k] = Directory!Apply(g[k - 1], s[k])
  BY <1>2, ReplayIs
<1>5. PICK h : /\ Directory!Replay(d, z) = h[N + 1] /\ h[0] = d
               /\ \A k \in 1 .. N + 1 : h[k] = Directory!Apply(h[k - 1], z[k])
  <2>1. PICK h : /\ Directory!Replay(d, z) = h[Len(z)] /\ h[0] = d
                 /\ \A k \in 1 .. Len(z) : h[k] = Directory!Apply(h[k - 1], z[k])
    BY <1>3, ReplayIs, Zenon
  <2>2. QED BY <1>3, <2>1
<1>6. \A k \in 1 .. N : h[k] = Directory!Apply(h[k - 1], s[k])
  BY <1>3, <1>5
<1>7. h[N] = g[N]
  <2>1. g[0] = d /\ h[0] = d /\ \A k \in 1 .. N : g[k] = Directory!Apply(g[k - 1], s[k])
    BY <1>4, <1>5
  <2> DEFINE W == [k \in 0 .. N |-> {g[k]}]
  <2>2. h[0] \in W[0] /\ \A k \in 1 .. N : h[k - 1] \in W[k - 1] => h[k] \in W[k]
    <3>1. ASSUME NEW k \in 1 .. N, h[k - 1] = g[k - 1] PROVE h[k] = g[k]
      <4>1. h[k] = Directory!Apply(h[k - 1], s[k])
        BY <1>6
      <4>2. g[k] = Directory!Apply(g[k - 1], s[k])
        BY <2>1
      <4>3. QED BY <3>1, <4>1, <4>2
    <3>2. h[0] = g[0]
      BY <2>1
    <3>3. h[0] \in W[0]
      BY <3>2
    <3>4. ASSUME NEW k \in 1 .. N, h[k - 1] \in W[k - 1] PROVE h[k] \in W[k]
      <4>1. k \in 0 .. N /\ k - 1 \in 0 .. N
        OBVIOUS
      <4>2. h[k - 1] = g[k - 1]
        BY <3>4, <4>1
      <4>3. QED BY <3>1, <4>1, <4>2
    <3>5. QED BY <3>3, <3>4
  <2>3. \A k \in 0 .. N : h[k] \in W[k]
    <3> HIDE DEF W
    <3>1. QED BY <2>2, LoopKeeps
  <2>4. QED BY <2>3
<1>8. h[N + 1] = Directory!Apply(h[N], r)
  <2>1. N + 1 \in 1 .. N + 1 /\ (N + 1) - 1 = N
    OBVIOUS
  <2>2. h[N + 1] = Directory!Apply(h[(N + 1) - 1], z[N + 1])
    BY <1>5, <2>1
  <2>3. QED BY <1>3, <2>1, <2>2
<1>9. QED BY <1>1, <1>4, <1>5, <1>7, <1>8

\* The directory d holds, after the two entries of init_directory, each of the
\* expected entries once.
Matches(d, ex) ==
    /\ d \in Seq(AnyEntries) /\ Len(d) >= 2 /\ d[1].name = ".." /\ d[2].name = "?"
    /\ \A k \in 3 .. Len(d) : d[k].name \in NAMES
    /\ \A k, l \in 3 .. Len(d) : d[k].name = d[l].name => k = l
    /\ ex = [x \in {d[k].name : k \in 3 .. Len(d)} |-> ex[x]]
    /\ \A k \in 3 .. Len(d) : ex[d[k].name] = d[k].type

LEMMA MatchesFacts ==
    ASSUME NEW d, NEW ex, Matches(d, ex)
    PROVE  /\ d \in Seq(AnyEntries) /\ Len(d) \in Nat /\ Len(d) >= 2 /\ d[1].name = ".." /\ d[2].name = "?"
           /\ \A k \in 3 .. Len(d) : d[k].name \in NAMES
           /\ \A k, l \in 3 .. Len(d) : d[k].name = d[l].name => k = l
           /\ DOMAIN ex = {d[k].name : k \in 3 .. Len(d)}
           /\ \A k \in 3 .. Len(d) : ex[d[k].name] = d[k].type
<1>1. d \in Seq(AnyEntries)
  BY DEF Matches
<1>2. Len(d) \in Nat
  BY <1>1
<1>3. PICK T : T = {d[k].name : k \in 3 .. Len(d)}
  OBVIOUS
<1>4. ex = [x \in T |-> ex[x]]
  BY <1>3 DEF Matches
<1>5. DOMAIN ex = T
  BY <1>4
<1>6. QED BY <1>1, <1>2, <1>3, <1>5 DEF Matches

\* The entry of a client's name is behind the first two.
LEMMA FindsClient ==
    ASSUME NEW d, NEW ex, Matches(d, ex), NEW x \in NAMES, Directory!Found(d, x) # {}, NEW p,
           p = Directory!find_entry(d, x)
    PROVE  p \in 3 .. Len(d) /\ d[p].name = x
<1>1. d \in Seq(AnyEntries) /\ Len(d) \in Nat /\ d[1].name = ".." /\ d[2].name = "?"
  BY DEF Matches
<1>2. p \in 1 .. Len(d) /\ d[p].name = x
  BY <1>1, FindsFirst
<1>3. "?" \notin NAMES /\ ".." \notin NAMES
  BY SystemAssumption
<1>4. p # 1 /\ p # 2
  BY <1>1, <1>2, <1>3
<1>5. QED BY <1>1, <1>2, <1>4

LEMMA CreateMatches ==
    ASSUME NEW d, NEW ex, Matches(d, ex), NEW e \in Directory!Entries, Directory!Found(d, e.name) = {},
           NEW ey, ey = [x \in DOMAIN ex \cup {e.name} |-> IF x = e.name THEN e.type ELSE ex[x]]
    PROVE  Matches(Append(d, e), ey)
<1>1. /\ d \in Seq(AnyEntries) /\ Len(d) \in Nat /\ Len(d) >= 2 /\ d[1].name = ".." /\ d[2].name = "?"
      /\ \A k \in 3 .. Len(d) : d[k].name \in NAMES
      /\ \A k, l \in 3 .. Len(d) : d[k].name = d[l].name => k = l
      /\ DOMAIN ex = {d[k].name : k \in 3 .. Len(d)}
      /\ \A k \in 3 .. Len(d) : ex[d[k].name] = d[k].type
  BY MatchesFacts
<1>2. e \in AnyEntries /\ e.name \in NAMES
  BY EntryFacts
<1>3. \A k \in 1 .. Len(d) : d[k].name # e.name
  BY <1>1 DEF Directory!Found
<1>4. PICK z : z = Append(d, e)
  OBVIOUS
<1>5. PICK N \in Nat : N = Len(d)
  BY <1>1
<1>6. /\ z \in Seq(AnyEntries) /\ Len(z) = N + 1 /\ z[N + 1] = e /\ N >= 2
      /\ \A k \in 1 .. N : z[k] = d[k]
  BY <1>1, <1>2, <1>4, <1>5
<1>7. z[1].name = ".." /\ z[2].name = "?"
  BY <1>1, <1>6
<1>8. \A k \in 3 .. N + 1 : k = N + 1 \/ (k \in 3 .. N /\ k \in 1 .. N)
  BY <1>6
<1>9. ASSUME NEW k \in 3 .. N + 1 PROVE z[k].name \in NAMES /\ ey[z[k].name] = z[k].type
  <2>1. CASE k = N + 1
    BY <1>2, <1>6, <2>1
  <2>2. CASE k \in 3 .. N /\ k \in 1 .. N
    <3>1. PICK x : x = d[k].name
      OBVIOUS
    <3>2. x \in DOMAIN ex /\ x # e.name /\ x \in NAMES /\ ex[x] = d[k].type /\ z[k] = d[k]
      BY <1>1, <1>3, <1>5, <1>6, <2>2, <3>1
    <3>3. ey[x] = ex[x]
      BY <3>2
    <3>4. QED BY <3>1, <3>2, <3>3
  <2>3. QED BY <1>8, <2>1, <2>2
<1>10. ASSUME NEW k \in 3 .. N + 1, NEW l \in 3 .. N + 1, z[k].name = z[l].name PROVE k = l
  <2>1. CASE k = N + 1 /\ l = N + 1
    BY <2>1
  <2>2. CASE k = N + 1 /\ l \in 1 .. N
    BY <1>3, <1>5, <1>6, <1>10, <2>2
  <2>3. CASE l = N + 1 /\ k \in 1 .. N
    BY <1>3, <1>5, <1>6, <1>10, <2>3
  <2>4. CASE k \in 3 .. N /\ k \in 1 .. N /\ l \in 3 .. N /\ l \in 1 .. N
    BY <1>1, <1>5, <1>6, <1>10, <2>4
  <2>5. QED BY <1>8, <2>1, <2>2, <2>3, <2>4
<1>11. DOMAIN ey = {z[k].name : k \in 3 .. N + 1}
  <2>1. ASSUME NEW x \in DOMAIN ey PROVE \E k \in 3 .. N + 1 : x = z[k].name
    <3>1. CASE x = e.name
      <4>1. N + 1 \in 3 .. N + 1
        BY <1>6
      <4>2. QED BY <1>6, <3>1, <4>1
    <3>2. CASE x # e.name
      <4>1. x \in DOMAIN ex
        BY <2>1, <3>2
      <4>2. PICK k \in 3 .. N : x = d[k].name
        BY <1>1, <1>5, <4>1
      <4>3. k \in 3 .. N + 1 /\ k \in 1 .. N
        OBVIOUS
      <4>4. QED BY <1>6, <4>2, <4>3
    <3>3. QED BY <3>1, <3>2
  <2>2. ASSUME NEW k \in 3 .. N + 1 PROVE z[k].name \in DOMAIN ey
    <3>1. CASE k = N + 1
      BY <1>6, <3>1
    <3>2. CASE k \in 3 .. N /\ k \in 1 .. N
      <4>1. d[k].name \in DOMAIN ex
        BY <1>1, <1>5, <3>2
      <4>2. QED BY <1>6, <3>2, <4>1
    <3>3. QED BY <1>8, <3>1, <3>2
  <2>3. QED BY <2>1, <2>2
<1>12. ey = [x \in DOMAIN ey |-> ey[x]]
  OBVIOUS
<1>13. Matches(z, ey)
  <2>1. Len(z) = N + 1 /\ Len(z) >= 2 /\ z \in Seq(AnyEntries)
    BY <1>6
  <2>2. ey = [x \in {z[k].name : k \in 3 .. N + 1} |-> ey[x]]
    BY <1>11, <1>12
  <2> HIDE <1>12
  <2>3. QED BY <1>7, <1>9, <1>10, <2>1, <2>2 DEF Matches
<1>14. QED BY <1>4, <1>13

LEMMA UpdateMatches ==
    ASSUME NEW d, NEW ex, Matches(d, ex), NEW e \in Directory!Entries, Directory!Found(d, e.name) # {},
           NEW ey, ey = [x \in DOMAIN ex \cup {e.name} |-> IF x = e.name THEN e.type ELSE ex[x]]
    PROVE  Matches(Directory!update_directory_entry(d, e), ey)
<1>1. /\ d \in Seq(AnyEntries) /\ Len(d) \in Nat /\ Len(d) >= 2 /\ d[1].name = ".." /\ d[2].name = "?"
      /\ \A k \in 3 .. Len(d) : d[k].name \in NAMES
      /\ \A k, l \in 3 .. Len(d) : d[k].name = d[l].name => k = l
      /\ DOMAIN ex = {d[k].name : k \in 3 .. Len(d)}
      /\ \A k \in 3 .. Len(d) : ex[d[k].name] = d[k].type
  BY MatchesFacts
<1>2. e \in AnyEntries /\ e.name \in NAMES
  BY EntryFacts
<1>3. PICK p : p = Directory!find_entry(d, e.name)
  OBVIOUS
<1>4. p \in 3 .. Len(d) /\ d[p].name = e.name
  BY <1>2, <1>3, FindsClient
<1>5. PICK z : z = [d EXCEPT ![p] = e]
  OBVIOUS
<1>6. z = Directory!update_directory_entry(d, e)
  BY <1>3, <1>5 DEF Directory!update_directory_entry
<1>7. /\ z \in Seq(AnyEntries) /\ Len(z) = Len(d) /\ z[p] = e
      /\ \A k \in 1 .. Len(d) : k # p => z[k] = d[k]
  BY <1>1, <1>2, <1>4, <1>5
<1>8. \A k \in 1 .. Len(d) : z[k].name = d[k].name
  BY <1>4, <1>7
<1>9. \A k \in 3 .. Len(d) : k \in 1 .. Len(d)
  BY <1>1
<1>10. z[1].name = ".." /\ z[2].name = "?"
  BY <1>1, <1>8
<1>11. ASSUME NEW k \in 3 .. Len(d) PROVE z[k].name \in NAMES /\ ey[z[k].name] = z[k].type
  <2>1. CASE k = p
    BY <1>2, <1>7, <2>1
  <2>2. CASE k # p
    <3>1. PICK x : x = d[k].name
      OBVIOUS
    <3>2. x # e.name
      BY <1>1, <1>4, <2>2, <3>1
    <3>3. x \in DOMAIN ex /\ x \in NAMES /\ ex[x] = d[k].type /\ z[k] = d[k]
      BY <1>1, <1>7, <1>9, <2>2, <3>1
    <3>4. ey[x] = ex[x]
      BY <3>2, <3>3
    <3>5. QED BY <3>1, <3>3, <3>4
  <2>3. QED BY <2>1, <2>2
<1>12. \A k, l \in 3 .. Len(d) : z[k].name = z[l].name => k = l
  BY <1>1, <1>8, <1>9
<1>13. {z[k].name : k \in 3 .. Len(d)} = {d[k].name : k \in 3 .. Len(d)}
  BY <1>8, <1>9
<1>14. DOMAIN ey = {z[k].name : k \in 3 .. Len(d)}
  <2>1. e.name \in DOMAIN ex
    BY <1>1, <1>4
  <2>2. DOMAIN ey = DOMAIN ex
    BY <2>1
  <2>3. QED BY <1>1, <1>13, <2>2
<1>15. ey = [x \in DOMAIN ey |-> ey[x]]
  OBVIOUS
<1>16. ey = [x \in {z[k].name : k \in 3 .. Len(d)} |-> ey[x]]
  BY <1>14, <1>15
<1> HIDE <1>15
<1>17. Matches(z, ey)
  BY <1>1, <1>7, <1>10, <1>11, <1>12, <1>16 DEF Matches
<1>18. QED BY <1>6, <1>17

LEMMA DeleteMatches ==
    ASSUME NEW d, NEW ex, Matches(d, ex), NEW e \in Directory!Entries, Directory!Found(d, e.name) # {},
           NEW ey, ey = [x \in DOMAIN ex \ {e.name} |-> ex[x]]
    PROVE  Matches(Directory!remove_directory_entry(d, e.name), ey)
<1>1. /\ d \in Seq(AnyEntries) /\ Len(d) \in Nat /\ Len(d) >= 2 /\ d[1].name = ".." /\ d[2].name = "?"
      /\ \A k \in 3 .. Len(d) : d[k].name \in NAMES
      /\ \A k, l \in 3 .. Len(d) : d[k].name = d[l].name => k = l
      /\ DOMAIN ex = {d[k].name : k \in 3 .. Len(d)}
      /\ \A k \in 3 .. Len(d) : ex[d[k].name] = d[k].type
  BY MatchesFacts
<1>2. e.name \in NAMES
  BY EntryFacts
<1>3. PICK p : p = Directory!find_entry(d, e.name)
  OBVIOUS
<1>4. p \in 3 .. Len(d) /\ d[p].name = e.name
  BY <1>2, <1>3, FindsClient
<1>5. PICK z : z = SubSeq(d, 1, p - 1) \o SubSeq(d, p + 1, Len(d))
  OBVIOUS
<1>6. z = Directory!remove_directory_entry(d, e.name)
  BY <1>3, <1>5 DEF Directory!remove_directory_entry
<1>7. PICK M \in Nat : M = Len(d) - 1
  BY <1>1
<1>8. p \in 1 .. Len(d)
  BY <1>1, <1>4
<1>9. /\ z \in Seq(AnyEntries) /\ Len(z) = M
      /\ \A k \in 1 .. M : z[k] = IF k < p THEN d[k] ELSE d[k + 1]
  <2>1. d \in Seq(AnyEntries)
    BY <1>1
  <2>2. /\ z \in Seq(AnyEntries) /\ Len(z) = Len(d) - 1
        /\ \A k \in 1 .. Len(d) - 1 : z[k] = IF k < p THEN d[k] ELSE d[k + 1]
    BY <1>5, <1>8, <2>1, Removed
  <2>3. QED BY <1>7, <2>2
<1> HIDE <1>5
<1>10. M >= 2 /\ p \in 3 .. M + 1 /\ Len(d) = M + 1
  BY <1>1, <1>4, <1>7
<1>11. z[1].name = ".." /\ z[2].name = "?"
  BY <1>1, <1>9, <1>10
<1>12. ASSUME NEW k \in 3 .. M
       PROVE  \E l \in 3 .. M + 1 : l = (IF k < p THEN k ELSE k + 1) /\ l # p /\ z[k] = d[l]
  <2>1. PICK l : l = IF k < p THEN k ELSE k + 1
    OBVIOUS
  <2>2. l \in 3 .. M + 1 /\ l # p /\ k \in 1 .. M
    BY <1>10, <2>1
  <2>3. z[k] = d[l]
    BY <1>9, <2>1, <2>2
  <2>4. QED BY <2>1, <2>2, <2>3
<1>13. ASSUME NEW k \in 3 .. M PROVE z[k].name \in NAMES /\ z[k].name \in DOMAIN ey /\ ey[z[k].name] = z[k].type
  <2>1. PICK l \in 3 .. M + 1 : l # p /\ z[k] = d[l]
    BY <1>12
  <2>2. PICK x : x = d[l].name
    OBVIOUS
  <2>3. x \in NAMES /\ x \in DOMAIN ex /\ ex[x] = d[l].type /\ x # e.name
    BY <1>1, <1>4, <1>10, <2>1, <2>2
  <2>4. QED BY <2>1, <2>2, <2>3
<1>14. ASSUME NEW k \in 3 .. M, NEW l \in 3 .. M, z[k].name = z[l].name PROVE k = l
  <2>1. PICK a \in 3 .. M + 1 : a = (IF k < p THEN k ELSE k + 1) /\ z[k] = d[a]
    BY <1>12
  <2>2. PICK b \in 3 .. M + 1 : b = (IF l < p THEN l ELSE l + 1) /\ z[l] = d[b]
    BY <1>12
  <2>3. a = b
    BY <1>1, <1>10, <1>14, <2>1, <2>2
  <2>4. QED BY <1>10, <2>1, <2>2, <2>3
<1>15. ASSUME NEW x \in DOMAIN ey PROVE \E k \in 3 .. M : x = z[k].name
  <2>1. x \in DOMAIN ex /\ x # e.name
    OBVIOUS
  <2>2. PICK l \in 3 .. M + 1 : x = d[l].name
    BY <1>1, <1>10, <2>1
  <2>3. l # p
    BY <1>4, <2>1, <2>2
  <2>4. PICK k : k = IF l < p THEN l ELSE l - 1
    OBVIOUS
  <2>5. k \in 3 .. M /\ k \in 1 .. M /\ l = IF k < p THEN k ELSE k + 1
    BY <1>10, <2>3, <2>4
  <2>6. z[k] = d[l]
    BY <1>9, <2>5
  <2>7. QED BY <2>2, <2>5, <2>6
<1>16. DOMAIN ey = {z[k].name : k \in 3 .. M}
  <2>1. PICK X : X = DOMAIN ey
    OBVIOUS
  <2>2. \A k \in 3 .. M : z[k].name \in X
    BY <1>13, <2>1
  <2>3. \A x \in X : \E k \in 3 .. M : x = z[k].name
    BY <1>15, <2>1
  <2>4. X = {z[k].name : k \in 3 .. M}
    BY <2>2, <2>3
  <2>5. QED BY <2>1, <2>4
<1>17. ey = [x \in DOMAIN ey |-> ey[x]]
  OBVIOUS
<1>18. ey = [x \in {z[k].name : k \in 3 .. M} |-> ey[x]]
  BY <1>16, <1>17
<1> HIDE <1>17
<1>19. Matches(z, ey)
  BY <1>9, <1>10, <1>11, <1>13, <1>14, <1>18 DEF Matches
<1>20. QED BY <1>6, <1>19

\* The records that are whole in the journal file, and what they make of a new
\* directory.
Recs == [k \in 1 .. Len(file) \div 2 |-> file[2 * k].record]
Rebuilt == Directory!Replay(EmptyDir, Recs)

\* Unless the history is spoiled, the parts of the records alternate and those of
\* one record agree.
FileGood ==
    /\ file \in Seq([half : {1, 2}, record : Records])
    /\ \A k \in 1 .. Len(file) : file[k].half = IF k % 2 = 1 THEN 1 ELSE 2
    /\ \A k \in 1 .. Len(file) \div 2 : file[2 * k - 1].record = file[2 * k].record

\* At any moment the journal file rebuilds what is expected, and the directory is
\* new, or one logged operation behind, or what the file rebuilds.
DirGood ==
    /\ FileGood /\ restarted \in BOOLEAN
    /\ count \in 0 .. JOURNAL_SIZE /\ slots = [k \in 0 .. JOURNAL_SIZE - 1 |-> slots[k]]
    /\ Matches(Rebuilt, expected)
    /\ restarted => entries = EmptyDir /\ pending = Directory!None
    /\ (~restarted /\ pending = Directory!None) => entries = Rebuilt
    /\ pending # Directory!None =>
        ~restarted /\ pending \in Records /\ Directory!Apply(entries, pending) = Rebuilt

DirInv == spoiled \in BOOLEAN /\ (~spoiled => DirGood)

LEMMA EmptyDirIs ==
    /\ EmptyDir \in Seq(AnyEntries) /\ Len(EmptyDir) = 2
    /\ EmptyDir[1].name = ".." /\ EmptyDir[2].name = "?"
BY DEF EmptyDir, AnyEntries, Directory!EntryOf, Directory!Types

LEMMA NoneIsNot == Directory!None \notin Records
BY DEF Directory!None, Records, Directory!Operations

LEMMA GarbageIs ==
    ASSUME NEW g \in Directory!Garbage, g.name \notin NAMES
    PROVE  Directory!init_directory(g) = EmptyDir
<1>1. PICK x \in NAMES \cup {"?"} : g = Directory!EntryOf(x, "file")
  BY DEF Directory!Garbage
<1>2. g.name = x
  BY <1>1 DEF Directory!EntryOf
<1>3. x = "?"
  BY <1>1, <1>2
<1>4. QED BY <1>1, <1>3 DEF Directory!init_directory, EmptyDir

\* A whole record.
LEMMA RecsTyped ==
    ASSUME FileGood
    PROVE  /\ Recs \in Seq(Records) /\ Len(file) \in Nat
           /\ Len(Recs) = Len(file) \div 2
           /\ Directory!Torn <=> Len(file) % 2 = 1
<1>1. file \in Seq([half : {1, 2}, record : Records]) /\ Len(file) \in Nat
  BY DEF FileGood
<1>2. PICK M : M = Len(file) \div 2
  OBVIOUS
<1>3. M \in Nat /\ 2 * M <= Len(file)
  BY <1>1, <1>2
<1>4. \A k \in 1 .. M : file[2 * k].record \in Records
  <2> TAKE k \in 1 .. M
  <2>1. 2 * k \in 1 .. Len(file)
    BY <1>1, <1>3
  <2>2. file[2 * k] \in [half : {1, 2}, record : Records]
    BY <1>1, <2>1, ElementOfSeq
  <2>3. QED BY <2>2
<1>5. Recs = [k \in 1 .. M |-> file[2 * k].record]
  BY <1>2 DEF Recs
<1>6. Recs \in Seq(Records) /\ Len(Recs) = M
  BY <1>3, <1>4, <1>5
<1>7. Directory!Torn <=> Len(file) % 2 = 1
  <2>1. CASE file = <<>>
    <3>1. Len(file) = 0
      BY <2>1, EmptySeq
    <3>2. QED BY <2>1, <3>1 DEF Directory!Torn
  <2>2. CASE file # <<>>
    <3>1. Len(file) \in 1 .. Len(file)
      BY <1>1, <2>2, EmptySeq
    <3>2. file[Len(file)].half = IF Len(file) % 2 = 1 THEN 1 ELSE 2
      BY <3>1 DEF FileGood
    <3>3. Directory!Torn <=> file[Len(file)].half = 1
      BY <2>2 DEF Directory!Torn
    <3>4. QED BY <3>2, <3>3
  <2>3. QED BY <2>1, <2>2
<1>8. QED BY <1>1, <1>2, <1>6, <1>7

LEMMA DirStart == Directory!Init => DirInv
<1> SUFFICES ASSUME Directory!Init PROVE DirInv
  OBVIOUS
<1>1. PICK g \in Directory!Garbage :
        entries = Directory!init_directory(g) /\ spoiled = (g.name \in NAMES)
  BY DEF Directory!Init
<1>2. /\ slots = Directory!create_journal /\ count = 0 /\ file = <<>>
      /\ pending = Directory!None /\ restarted = FALSE /\ expected = <<>>
  BY DEF Directory!Init
<1>3. spoiled \in BOOLEAN
  BY <1>1
<1>4. SUFFICES ASSUME ~spoiled PROVE DirGood
  BY <1>3 DEF DirInv
<1>5. entries = EmptyDir
  BY <1>1, <1>4, GarbageIs
<1>6. file \in Seq([half : {1, 2}, record : Records]) /\ Len(file) = 0 /\ Len(file) \div 2 = 0
  BY <1>2, EmptySeq
<1>7. FileGood
  BY <1>6 DEF FileGood
<1>8. Recs = <<>>
  BY <1>6 DEF Recs
<1>9. Rebuilt = EmptyDir
  BY <1>8, EmptyDirIs, ReplayNone DEF Rebuilt
<1>10. Matches(EmptyDir, expected)
  <2>1. 3 .. Len(EmptyDir) = {}
    BY EmptyDirIs
  <2>2. expected = [x \in {EmptyDir[k].name : k \in 3 .. Len(EmptyDir)} |-> expected[x]]
    BY <1>2, <2>1
  <2>3. QED BY <2>1, <2>2, EmptyDirIs DEF Matches
<1>11. count \in 0 .. JOURNAL_SIZE /\ slots = [k \in 0 .. JOURNAL_SIZE - 1 |-> slots[k]]
  BY <1>2, SystemAssumption DEF Directory!create_journal
<1>12. QED BY <1>2, <1>5, <1>7, <1>9, <1>10, <1>11 DEF DirGood

\* What an operation that the client may log makes of the directory and of what is
\* expected.
LEMMA ApplyMatches ==
    ASSUME NEW o \in Directory!Operations, NEW e \in Directory!Entries,
           Directory!MayLog(o, e), Matches(entries, expected)
    PROVE  Matches(Directory!Apply(entries, [operation |-> o, entry |-> e]), Directory!Expect(o, e))
<1>1. PICK r : r = [operation |-> o, entry |-> e]
  OBVIOUS
<1>2. r.operation = o /\ r.entry = e
  BY <1>1
<1>3. /\ o = "CREATE" => Directory!Found(entries, e.name) = {}
      /\ o = "DELETE" => e \in Directory!Range(entries)
      /\ o = "MODIFY" => Directory!Found(entries, e.name) # {}
  BY DEF Directory!MayLog
<1>4. CASE o = "CREATE" /\ Len(entries) >= MAX_ENTRIES
  <2>1. Directory!Apply(entries, r) = entries
    BY <1>2, <1>4 DEF Directory!Apply, Directory!add_directory_entry
  <2>2. Directory!Expect(o, e) = expected
    BY <1>4 DEF Directory!Expect
  <2>3. QED BY <1>1, <2>1, <2>2
<1>5. CASE o = "CREATE" /\ ~(Len(entries) >= MAX_ENTRIES)
  <2>1. Directory!Apply(entries, r) = Append(entries, e)
    BY <1>2, <1>5 DEF Directory!Apply, Directory!add_directory_entry
  <2>2. Directory!Expect(o, e) = [x \in DOMAIN expected \cup {e.name} |->
                                        IF x = e.name THEN e.type ELSE expected[x]]
    BY <1>5 DEF Directory!Expect
  <2>3. Directory!Found(entries, e.name) = {}
    BY <1>3, <1>5
  <2>4. Matches(Append(entries, e), Directory!Expect(o, e))
    BY <2>2, <2>3, CreateMatches
  <2>5. QED BY <1>1, <2>1, <2>4
<1>6. CASE o = "MODIFY"
  <2>1. Directory!Apply(entries, r) = Directory!update_directory_entry(entries, e)
    BY <1>2, <1>6 DEF Directory!Apply
  <2>2. Directory!Expect(o, e) = [x \in DOMAIN expected \cup {e.name} |->
                                        IF x = e.name THEN e.type ELSE expected[x]]
    BY <1>6 DEF Directory!Expect
  <2>3. Directory!Found(entries, e.name) # {}
    BY <1>3, <1>6
  <2>4. Matches(Directory!update_directory_entry(entries, e), Directory!Expect(o, e))
    BY <2>2, <2>3, UpdateMatches
  <2>5. QED BY <1>1, <2>1, <2>4
<1>7. CASE o = "DELETE"
  <2>1. Directory!Apply(entries, r) = Directory!remove_directory_entry(entries, e.name)
    BY <1>2, <1>7 DEF Directory!Apply
  <2>2. Directory!Expect(o, e) = [x \in DOMAIN expected \ {e.name} |-> expected[x]]
    <3>1. Directory!Expect(o, e) = [x \in (DOMAIN expected \cup {e.name}) \ {e.name} |->
                                        IF x = e.name THEN e.type ELSE expected[x]]
      BY <1>7 DEF Directory!Expect
    <3>2. (DOMAIN expected \cup {e.name}) \ {e.name} = DOMAIN expected \ {e.name}
      OBVIOUS
    <3>3. \A x \in DOMAIN expected \ {e.name} : x # e.name
      OBVIOUS
    <3>4. QED BY <3>1, <3>2, <3>3
  <2>3. Directory!Found(entries, e.name) # {}
    <3>1. e \in Directory!Range(entries)
      BY <1>3, <1>7
    <3>2. PICK k \in DOMAIN entries : entries[k] = e
      BY <3>1 DEF Directory!Range
    <3>3. k \in Directory!Found(entries, e.name)
      BY <3>2 DEF Directory!Found
    <3>4. QED BY <3>3
  <2>4. Matches(Directory!remove_directory_entry(entries, e.name), Directory!Expect(o, e))
    BY <2>2, <2>3, DeleteMatches
  <2>5. QED BY <1>1, <2>1, <2>4
<1>8. QED BY <1>4, <1>5, <1>6, <1>7 DEF Directory!Operations

\* log_directory_operation, unless it spoils the history.
LEMMA LogGood ==
    ASSUME DirGood, NEW o \in Directory!Operations, NEW e \in Directory!Entries,
           NEW given \in BOOLEAN, Directory!log_directory_operation(o, e, given),
           ~Directory!Torn, given
    PROVE  DirGood'
<1>1. PICK r : r = [operation |-> o, entry |-> e]
  OBVIOUS
<1>2. r \in Records
  BY <1>1 DEF Records
<1>3. PICK p : p = Directory!Slot
  OBVIOUS
<1>4. p \in 0 .. JOURNAL_SIZE - 1
  <2>1. JOURNAL_SIZE \in Nat \ {0} /\ count \in 0 .. JOURNAL_SIZE
    BY SystemAssumption DEF DirGood
  <2>2. QED BY <1>3, <2>1 DEF Directory!Slot
<1>5. /\ Directory!MayLog(o, e) /\ slots' = [slots EXCEPT ![p] = r] /\ count' = p + 1
      /\ pending' = r /\ expected' = Directory!Expect(o, e) /\ entries' = entries /\ restarted' = restarted
  BY <1>1, <1>3 DEF Directory!log_directory_operation, Directory!Logged, Directory!Record
<1>6. /\ slots' = [k \in 0 .. JOURNAL_SIZE - 1 |-> slots'[k]] /\ slots'[p] = r
      /\ count' \in 0 .. JOURNAL_SIZE
  <2>1. slots = [k \in 0 .. JOURNAL_SIZE - 1 |-> slots[k]] /\ JOURNAL_SIZE \in Nat
    BY SystemAssumption DEF DirGood
  <2>2. count' \in 0 .. JOURNAL_SIZE
    BY <1>4, <1>5, <2>1
  <2>3. PICK u : u = slots
    OBVIOUS
  <2>4. u = [k \in 0 .. JOURNAL_SIZE - 1 |-> u[k]]
    BY <2>1, <2>3
  <2>5. slots' = [k \in 0 .. JOURNAL_SIZE - 1 |-> IF k = p THEN r ELSE u[k]]
    BY <1>4, <1>5, <2>3, <2>4
  <2>6. QED BY <1>4, <2>2, <2>5
<1>7. PICK a : a = Directory!Part(1, r)
  OBVIOUS
<1>8. PICK b : b = Directory!Part(2, r)
  OBVIOUS
<1>9. file' = file \o <<a, b>>
  <2>1. file' = file \o <<Directory!Part(1, slots'[Directory!Slot]), Directory!Part(2, slots'[Directory!Slot])>>
    BY DEF Directory!log_directory_operation
  <2>2. QED BY <1>3, <1>6, <1>7, <1>8, <2>1
<1>10. FileGood
  BY DEF DirGood
<1> DEFINE P == [half : {1, 2}, record : Records]
<1>11. a \in P /\ b \in P /\ a.half = 1 /\ b.half = 2 /\ a.record = r /\ b.record = r
  BY <1>2, <1>7, <1>8 DEF Directory!Part
<1>12. Recs \in Seq(Records) /\ Len(file) \in Nat /\ Len(Recs) = Len(file) \div 2 /\ ~(Len(file) % 2 = 1)
  BY <1>10, RecsTyped
<1>13. PICK M \in Nat : Len(file) = 2 * M
  <2>1. Len(file) \div 2 \in Nat /\ Len(file) = 2 * (Len(file) \div 2)
    BY <1>12
  <2>2. QED BY <2>1
<1>14. /\ file' \in Seq(P) /\ Len(file') = 2 * M + 2
       /\ \A k \in 1 .. 2 * M : file'[k] = file[k]
       /\ file'[2 * M + 1] = a /\ file'[2 * M + 2] = b
  <2> HIDE DEF P
  <2>1. file \in Seq(P)
    BY <1>10 DEF FileGood, P
  <2>2. PICK s : s = <<a, b>>
    OBVIOUS
  <2>3. s \in Seq(P) /\ Len(s) = 2 /\ s[1] = a /\ s[2] = b
    BY <1>11, <2>2
  <2>4. /\ file \o s \in Seq(P) /\ Len(file \o s) = Len(file) + Len(s)
        /\ \A k \in 1 .. Len(file) + Len(s) :
            (file \o s)[k] = IF k <= Len(file) THEN file[k] ELSE s[k - Len(file)]
    BY <2>1, <2>3, ConcatProperties
  <2>5. file' \in Seq(P) /\ Len(file') = 2 * M + 2
    BY <1>9, <1>13, <2>2, <2>3, <2>4
  <2>6. \A k \in 1 .. 2 * M + 2 : file'[k] = IF k <= 2 * M THEN file[k] ELSE s[k - 2 * M]
    BY <1>9, <1>13, <2>2, <2>3, <2>4
  <2>7. ASSUME NEW k \in 1 .. 2 * M PROVE file'[k] = file[k]
    <3>1. k \in 1 .. 2 * M + 2 /\ k <= 2 * M
      OBVIOUS
    <3>2. QED BY <2>6, <3>1
  <2>8. file'[2 * M + 1] = a
    <3>1. 2 * M + 1 \in 1 .. 2 * M + 2 /\ ~(2 * M + 1 <= 2 * M) /\ (2 * M + 1) - 2 * M = 1
      OBVIOUS
    <3>2. QED BY <2>3, <2>6, <3>1
  <2>9. file'[2 * M + 2] = b
    <3>1. 2 * M + 2 \in 1 .. 2 * M + 2 /\ ~(2 * M + 2 <= 2 * M) /\ (2 * M + 2) - 2 * M = 2
      OBVIOUS
    <3>2. QED BY <2>3, <2>6, <3>1
  <2>10. QED BY <2>5, <2>7, <2>8, <2>9
<1> HIDE DEF P
<1>15. Len(file) \div 2 = M /\ Len(file') \div 2 = M + 1
  BY <1>13, <1>14
<1>16. FileGood'
  <2>1. ASSUME NEW k \in 1 .. 2 * M + 2 PROVE file'[k].half = IF k % 2 = 1 THEN 1 ELSE 2
    <3>1. CASE k \in 1 .. 2 * M
      BY <1>10, <1>13, <1>14, <3>1 DEF FileGood
    <3>2. CASE k = 2 * M + 1
      <4>1. k % 2 = 1
        BY <3>2
      <4>2. QED BY <1>11, <1>14, <3>2, <4>1
    <3>3. CASE k = 2 * M + 2
      <4>1. k % 2 = 0
        BY <3>3
      <4>2. QED BY <1>11, <1>14, <3>3, <4>1
    <3>4. QED BY <3>1, <3>2, <3>3
  <2>2. ASSUME NEW k \in 1 .. M + 1 PROVE file'[2 * k - 1].record = file'[2 * k].record
    <3>1. CASE k \in 1 .. M
      <4>1. 2 * k \in 1 .. 2 * M /\ 2 * k - 1 \in 1 .. 2 * M
        BY <3>1
      <4>2. file[2 * k - 1].record = file[2 * k].record
        BY <1>10, <1>15, <3>1 DEF FileGood
      <4>3. QED BY <1>14, <4>1, <4>2
    <3>2. CASE k = M + 1
      <4>1. 2 * k - 1 = 2 * M + 1 /\ 2 * k = 2 * M + 2
        BY <3>2
      <4>2. QED BY <1>11, <1>14, <4>1
    <3>3. QED BY <3>1, <3>2
  <2>3. QED BY <1>14, <1>15, <2>1, <2>2 DEF FileGood, P
<1>17. Recs' = Append(Recs, r)
  <2>1. Recs' = [k \in 1 .. M + 1 |-> file'[2 * k].record]
    BY <1>15 DEF Recs
  <2>2. \A k \in 1 .. M : Recs[k] = file[2 * k].record
    BY <1>15 DEF Recs
  <2>3. PICK s : s = Append(Recs, r)
    OBVIOUS
  <2>4. s \in Seq(Records) /\ Len(s) = M + 1 /\ s[M + 1] = r /\ \A k \in 1 .. M : s[k] = Recs[k]
    BY <1>2, <1>12, <1>15, <2>3
  <2>5. ASSUME NEW k \in 1 .. M + 1 PROVE file'[2 * k].record = s[k]
    <3>1. CASE k \in 1 .. M
      <4>1. 2 * k \in 1 .. 2 * M
        BY <3>1
      <4>2. QED BY <1>14, <2>2, <2>4, <3>1, <4>1
    <3>2. CASE k = M + 1
      <4>1. 2 * k = 2 * M + 2
        BY <3>2
      <4>2. QED BY <1>11, <1>14, <2>4, <3>2, <4>1
    <3>3. QED BY <3>1, <3>2
  <2>6. s = [k \in 1 .. M + 1 |-> s[k]]
    <3>1. s \in [1 .. Len(s) -> Records]
      BY <2>4, LenProperties
    <3>2. QED BY <2>4, <3>1
  <2>7. QED BY <2>1, <2>3, <2>5, <2>6
<1>18. ~restarted /\ pending = Directory!None
  BY <1>5 DEF Directory!MayLog
<1>19. entries = Rebuilt
  BY <1>18 DEF DirGood
<1>20. Rebuilt' = Directory!Apply(entries, r)
  <2>1. Rebuilt' = Directory!Replay(EmptyDir, Recs')
    BY DEF Rebuilt
  <2>2. Directory!Replay(EmptyDir, Append(Recs, r)) = Directory!Apply(Directory!Replay(EmptyDir, Recs), r)
    BY <1>2, <1>12, EmptyDirIs, ReplayAppend
  <2>3. QED BY <1>17, <1>19, <2>1, <2>2 DEF Rebuilt
<1>21. Matches(entries, expected)
  BY <1>19 DEF DirGood
<1>22. Matches(Rebuilt', expected')
  BY <1>1, <1>5, <1>20, <1>21, ApplyMatches
<1>23. Matches(Rebuilt, expected)'
  BY <1>22 DEF Matches
<1>24. pending' # Directory!None /\ pending' \in Records
  BY <1>2, <1>5, NoneIsNot
<1>25. Directory!Apply(entries', pending') = Rebuilt'
  BY <1>5, <1>20
<1>26. restarted' = FALSE
  BY <1>5, <1>18 DEF DirGood
<1>27. (Directory!None)' = Directory!None /\ (pending \in Records)' /\ (Directory!Apply(entries, pending) = Rebuilt)'
  BY <1>24, <1>25 DEF Directory!None, Records, Directory!Apply, Directory!Entries
<1>28. QED BY <1>6, <1>16, <1>23, <1>24, <1>26, <1>27 DEF DirGood

\* A crash leaves a new directory; the file still rebuilds the same.
LEMMA RestartGood ==
    ASSUME DirGood, FileGood', Recs' = Recs, NEW g \in Directory!Garbage, g.name \notin NAMES,
           NEW torn, Directory!Restart(g, torn)
    PROVE  DirGood'
<1>1. /\ entries' = Directory!init_directory(g) /\ slots' = Directory!create_journal /\ count' = 0
      /\ pending' = Directory!None /\ restarted' = TRUE /\ expected' = expected
  BY DEF Directory!Restart
<1>2. entries' = EmptyDir
  BY <1>1, GarbageIs
<1>3. Rebuilt' = Rebuilt
  BY DEF Rebuilt
<1>4. Matches(Rebuilt, expected)'
  <2>1. Matches(Rebuilt, expected) /\ expected' = expected
    BY <1>1 DEF DirGood
  <2>2. QED BY <1>3, <2>1
<1>5. count' \in 0 .. JOURNAL_SIZE /\ slots' = [k \in 0 .. JOURNAL_SIZE - 1 |-> slots'[k]]
  BY <1>1, SystemAssumption DEF Directory!create_journal
<1>6. (restarted => entries = EmptyDir /\ pending = Directory!None)'
  BY <1>1, <1>2 DEF EmptyDir
<1>7. QED BY <1>1, <1>4, <1>5, <1>6 DEF DirGood

LEMMA CrashInLogGood ==
    ASSUME DirGood, NEW o \in Directory!Operations, NEW e \in Directory!Entries,
           NEW g \in Directory!Garbage, Directory!CrashInLog(o, e, g),
           ~Directory!Torn, g.name \notin NAMES
    PROVE  DirGood'
<1>1. PICK r : r = [operation |-> o, entry |-> e]
  OBVIOUS
<1>2. r \in Records
  BY <1>1 DEF Records
<1>3. PICK a : a = Directory!Part(1, r)
  OBVIOUS
<1>4. file' = Append(file, a) /\ Directory!Restart(g, Directory!Torn)
  BY <1>1, <1>3 DEF Directory!CrashInLog, Directory!Record
<1>5. FileGood
  BY DEF DirGood
<1> DEFINE P == [half : {1, 2}, record : Records]
<1>6. a \in P /\ a.half = 1
  BY <1>2, <1>3 DEF Directory!Part
<1>7. Recs \in Seq(Records) /\ Len(file) \in Nat /\ Len(Recs) = Len(file) \div 2 /\ ~(Len(file) % 2 = 1)
  BY <1>5, RecsTyped
<1>8. PICK M \in Nat : Len(file) = 2 * M
  <2>1. Len(file) \div 2 \in Nat /\ Len(file) = 2 * (Len(file) \div 2)
    BY <1>7
  <2>2. QED BY <2>1
<1>9. /\ file' \in Seq(P) /\ Len(file') = 2 * M + 1 /\ file'[2 * M + 1] = a
      /\ \A k \in 1 .. 2 * M : file'[k] = file[k]
  <2> HIDE DEF P
  <2>1. file \in Seq(P)
    BY <1>5 DEF FileGood, P
  <2>2. QED BY <1>4, <1>6, <1>8, <2>1
<1> HIDE DEF P
<1>10. Len(file) \div 2 = M /\ Len(file') \div 2 = M
  BY <1>8, <1>9
<1>11. FileGood'
  <2>1. ASSUME NEW k \in 1 .. 2 * M + 1 PROVE file'[k].half = IF k % 2 = 1 THEN 1 ELSE 2
    <3>1. CASE k \in 1 .. 2 * M
      BY <1>5, <1>8, <1>9, <3>1 DEF FileGood
    <3>2. CASE k = 2 * M + 1
      <4>1. k % 2 = 1
        BY <3>2
      <4>2. QED BY <1>6, <1>9, <3>2, <4>1
    <3>3. QED BY <3>1, <3>2
  <2>2. ASSUME NEW k \in 1 .. M PROVE file'[2 * k - 1].record = file'[2 * k].record
    <3>1. 2 * k \in 1 .. 2 * M /\ 2 * k - 1 \in 1 .. 2 * M
      OBVIOUS
    <3>2. file[2 * k - 1].record = file[2 * k].record
      BY <1>5, <1>10 DEF FileGood
    <3>3. QED BY <1>9, <3>1, <3>2
  <2>3. QED BY <1>9, <1>10, <2>1, <2>2 DEF FileGood, P
<1>12. Recs' = Recs
  <2>1. \A k \in 1 .. M : file'[2 * k] = file[2 * k]
    BY <1>9
  <2>2. Recs = [k \in 1 .. M |-> file[2 * k].record] /\ Recs' = [k \in 1 .. M |-> file'[2 * k].record]
    BY <1>10 DEF Recs
  <2>3. QED BY <2>1, <2>2
<1>13. QED BY <1>4, <1>11, <1>12, RestartGood

LEMMA PerformGood ==
    ASSUME DirGood, Directory!Perform
    PROVE  DirGood'
<1>1. /\ pending # Directory!None /\ entries' = Directory!Apply(entries, pending)
      /\ pending' = Directory!None /\ UNCHANGED <<slots, count, file, restarted, expected>>
  BY DEF Directory!Perform
<1>2. FileGood' /\ Rebuilt' = Rebuilt
  BY <1>1 DEF DirGood, FileGood, Rebuilt, Recs
<1>3. entries' = Rebuilt /\ ~restarted
  BY <1>1 DEF DirGood
<1>4. Matches(Rebuilt, expected)'
  <2>1. Matches(Rebuilt, expected) /\ expected' = expected
    BY <1>1 DEF DirGood
  <2>2. QED BY <1>2, <2>1 DEF Matches
<1>5. QED BY <1>1, <1>2, <1>3, <1>4 DEF DirGood

LEMMA RecoverGood ==
    ASSUME DirGood, NEW guess, Directory!recover_directory_state(guess)
    PROVE  DirGood'
<1>1. /\ restarted /\ entries' = Directory!Replay(entries, Directory!ReadRecords(guess))
      /\ restarted' = FALSE /\ UNCHANGED <<slots, count, file, pending, expected>>
  BY DEF Directory!recover_directory_state
<1>2. FileGood /\ entries = EmptyDir /\ pending = Directory!None
  BY <1>1 DEF DirGood
<1>3. Len(file) \in Nat
  BY <1>2, RecsTyped
<1>4. ASSUME NEW k \in 1 .. Len(file) \div 2 PROVE Directory!Whole(k)
  <2>1. 2 * k \in 1 .. Len(file) /\ 2 * k - 1 \in 1 .. Len(file)
    BY <1>3
  <2>2. (2 * k) % 2 = 0 /\ (2 * k - 1) % 2 = 1
    BY <1>3
  <2>3. file[2 * k].half = 2 /\ file[2 * k - 1].half = 1
    BY <1>2, <2>1, <2>2 DEF FileGood
  <2>4. QED BY <1>2, <2>3 DEF FileGood, Directory!Whole
<1>5. Directory!ReadRecords(guess) = Recs
  BY <1>4 DEF Directory!ReadRecords, Recs
<1>6. entries' = Rebuilt
  BY <1>1, <1>2, <1>5 DEF Rebuilt
<1>7. FileGood' /\ Rebuilt' = Rebuilt
  BY <1>1, <1>2 DEF FileGood, Rebuilt, Recs
<1>8. Matches(Rebuilt, expected)'
  <2>1. Matches(Rebuilt, expected) /\ expected' = expected
    BY <1>1 DEF DirGood
  <2>2. QED BY <1>7, <2>1
<1>9. QED BY <1>1, <1>2, <1>6, <1>7, <1>8 DEF DirGood

LEMMA DirStep == DirInv /\ Directory!Next => DirInv'
<1> SUFFICES ASSUME DirInv, Directory!Next PROVE DirInv'
  OBVIOUS
<1>1. spoiled \in BOOLEAN /\ (~spoiled => DirGood)
  BY DEF DirInv
<1>2. ASSUME NEW o \in Directory!Operations, NEW e \in Directory!Entries, NEW given \in BOOLEAN,
             Directory!log_directory_operation(o, e, given)
      PROVE  DirInv'
  <2>1. spoiled' = (spoiled \/ Directory!Torn \/ ~given)
    BY <1>2 DEF Directory!log_directory_operation
  <2>2. CASE spoiled \/ Directory!Torn \/ ~given
    BY <2>1, <2>2 DEF DirInv
  <2>3. CASE ~spoiled /\ ~Directory!Torn /\ given
    <3>1. DirGood'
      BY <1>1, <1>2, <2>3, LogGood
    <3>2. QED BY <2>1, <3>1 DEF DirInv
  <2>4. QED BY <1>1, <2>2, <2>3
<1>3. ASSUME NEW o \in Directory!Operations, NEW e \in Directory!Entries, NEW g \in Directory!Garbage,
             Directory!CrashInLog(o, e, g)
      PROVE  DirInv'
  <2>1. spoiled' = (spoiled \/ g.name \in NAMES \/ Directory!Torn)
    BY <1>3 DEF Directory!CrashInLog, Directory!Restart
  <2>2. CASE spoiled \/ g.name \in NAMES \/ Directory!Torn
    BY <2>1, <2>2 DEF DirInv
  <2>3. CASE ~spoiled /\ ~Directory!Torn /\ g.name \notin NAMES
    <3>1. DirGood'
      BY <1>1, <1>3, <2>3, CrashInLogGood
    <3>2. QED BY <2>1, <3>1 DEF DirInv
  <2>4. QED BY <1>1, <2>2, <2>3
<1>4. CASE Directory!Perform
  <2>1. spoiled' = spoiled
    BY <1>4 DEF Directory!Perform
  <2>2. QED BY <1>1, <1>4, <2>1, PerformGood DEF DirInv
<1>5. ASSUME NEW g \in Directory!Garbage, Directory!Crash(g) PROVE DirInv'
  <2>1. file' = file /\ Directory!Restart(g, FALSE)
    BY <1>5 DEF Directory!Crash
  <2>2. spoiled' = (spoiled \/ g.name \in NAMES \/ FALSE)
    BY <2>1 DEF Directory!Restart
  <2>3. CASE spoiled \/ g.name \in NAMES
    BY <2>2, <2>3 DEF DirInv
  <2>4. CASE ~spoiled /\ g.name \notin NAMES
    <3>1. DirGood
      BY <1>1, <2>4
    <3>2. FileGood' /\ Recs' = Recs
      BY <2>1, <3>1 DEF DirGood, FileGood, Recs
    <3>3. DirGood'
      BY <2>1, <2>4, <3>1, <3>2, RestartGood
    <3>4. QED BY <2>2, <3>3 DEF DirInv
  <2>5. QED BY <1>1, <2>3, <2>4
<1>6. ASSUME NEW guess, Directory!recover_directory_state(guess) PROVE DirInv'
  <2>1. spoiled' = spoiled
    BY <1>6 DEF Directory!recover_directory_state
  <2>2. QED BY <1>1, <1>6, <2>1, RecoverGood DEF DirInv
<1>7. QED BY <1>2, <1>3, <1>4, <1>5, <1>6 DEF Directory!Next

LEMMA DirEnd == DirInv => Directory!Recovered
<1> SUFFICES ASSUME DirInv, pending = Directory!None, ~restarted, ~spoiled
             PROVE  /\ Len(Directory!Client) = Len(entries) - 2
                    /\ {<<Directory!Client[k].name, Directory!Client[k].type>> : k \in DOMAIN Directory!Client}
                            = {<<x, expected[x]>> : x \in DOMAIN expected}
                    /\ \A k, l \in DOMAIN Directory!Client :
                            Directory!Client[k].name = Directory!Client[l].name => k = l
  BY DEF Directory!Recovered, Directory!Settled
<1>1. Matches(entries, expected)
  BY DEF DirInv, DirGood
<1>2. PICK d : d = entries
  OBVIOUS
<1>3. PICK ex : ex = expected
  OBVIOUS
<1>4. Matches(d, ex)
  BY <1>1, <1>2, <1>3
<1>5. /\ d \in Seq(AnyEntries) /\ Len(d) \in Nat /\ Len(d) >= 2 /\ d[1].name = ".." /\ d[2].name = "?"
      /\ \A k \in 3 .. Len(d) : d[k].name \in NAMES
      /\ \A k, l \in 3 .. Len(d) : d[k].name = d[l].name => k = l
      /\ DOMAIN ex = {d[k].name : k \in 3 .. Len(d)}
      /\ \A k \in 3 .. Len(d) : ex[d[k].name] = d[k].type
  BY <1>4, MatchesFacts
<1>6. PICK c : c = SubSeq(d, 3, Len(d))
  OBVIOUS
<1>7. PICK M \in Nat : Len(d) = M + 2
  <2>1. Len(d) - 2 \in Nat /\ Len(d) = (Len(d) - 2) + 2
    BY <1>5
  <2>2. QED BY <2>1
<1>8. c \in Seq(AnyEntries) /\ Len(c) = M /\ \A k \in 1 .. M : c[k] = d[k + 2]
  <2>1. 3 \in Int /\ Len(d) \in Int /\ \A k \in 3 .. Len(d) : d[k] \in AnyEntries
    BY <1>5, ElementOfSeq
  <2>2. /\ c \in Seq(AnyEntries) /\ Len(c) = IF 3 <= Len(d) THEN Len(d) - 3 + 1 ELSE 0
        /\ \A k \in 1 .. Len(d) - 3 + 1 : c[k] = d[3 + k - 1]
    BY <1>6, <2>1, SubSeqProperties
  <2>3. Len(c) = M
    BY <1>7, <2>2
  <2>4. ASSUME NEW k \in 1 .. M PROVE c[k] = d[k + 2]
    <3>1. k \in 1 .. Len(d) - 3 + 1 /\ 3 + k - 1 = k + 2
      BY <1>7
    <3>2. QED BY <2>2, <3>1
  <2>5. QED BY <2>2, <2>3, <2>4
<1>9. DOMAIN c = 1 .. M
  BY <1>8
<1> HIDE <1>6
<1>10. \A k \in 1 .. M : k + 2 \in 3 .. Len(d)
  BY <1>7
<1>11. \A k, l \in 1 .. M : c[k].name = c[l].name => k = l
  <2> SUFFICES ASSUME NEW k \in 1 .. M, NEW l \in 1 .. M, c[k].name = c[l].name PROVE k = l
    OBVIOUS
  <2>1. k + 2 = l + 2
    BY <1>5, <1>8, <1>10
  <2>2. QED BY <2>1
<1>12. ASSUME NEW k \in 1 .. M PROVE \E x \in DOMAIN ex : <<c[k].name, c[k].type>> = <<x, ex[x]>>
  <2>1. d[k + 2].name \in DOMAIN ex /\ ex[d[k + 2].name] = d[k + 2].type
    BY <1>5, <1>10
  <2>2. QED BY <1>8, <2>1
<1>13. ASSUME NEW x \in DOMAIN ex PROVE \E k \in 1 .. M : <<c[k].name, c[k].type>> = <<x, ex[x]>>
  <2>1. PICK l \in 3 .. Len(d) : x = d[l].name
    BY <1>5
  <2>2. PICK k : k = l - 2
    OBVIOUS
  <2>3. k \in 1 .. M /\ k + 2 = l
    BY <1>7, <2>2
  <2>4. c[k] = d[l]
    BY <1>8, <2>3
  <2>5. ex[x] = d[l].type
    BY <1>5, <2>1
  <2>6. QED BY <2>1, <2>3, <2>4, <2>5
<1>14. {<<c[k].name, c[k].type>> : k \in 1 .. M} = {<<x, ex[x]>> : x \in DOMAIN ex}
  BY <1>12, <1>13
<1>15. Directory!Client = c
  BY <1>2, <1>6 DEF Directory!Client
<1>16. Len(c) = Len(d) - 2
  BY <1>7, <1>8
<1>17. QED BY <1>2, <1>3, <1>9, <1>11, <1>14, <1>15, <1>16

-----------------------------------------------------------------------------
(* file_system_interface.c *)

FilesInv ==
    /\ open_files \in [Files!Handles -> [fd : DESCRIPTORS \cup {0}, position : Nat]]
    /\ DOMAIN offsets \subseteq DESCRIPTORS /\ offsets = [d \in DOMAIN offsets |-> offsets[d]]
    /\ close_failed \in BOOLEAN
    /\ Files!FilesKept

LEMMA FilesCardinality == \A S : Files!Cardinality(S) = Cardinality(S)
BY DEF Files!Cardinality, Cardinality

LEMMA HandlesFinite ==
    ASSUME NEW T, T \subseteq Files!Handles
    PROVE  IsFiniteSet(T) /\ Cardinality(T) \in Nat
<1>1. MAX_OPEN_FILES \in Nat
  BY SystemAssumption
<1>2. IsFiniteSet(Files!Handles)
  BY <1>1, FS_Interval DEF Files!Handles
<1>3. IsFiniteSet(T)
  BY <1>2, FS_Subset
<1>4. QED BY <1>3, FS_CardinalityType

LEMMA LowestIn ==
    ASSUME NEW T, T \subseteq Nat, T # {}
    PROVE  Files!Lowest(T) \in T
<1>1. \E x \in T : \A y \in T : x <= y
  BY LeastNatural
<1>2. QED BY <1>1 DEF Files!Lowest

LEMMA FilesStart == Files!Init => FilesInv
<1> SUFFICES ASSUME Files!Init PROVE FilesInv
  OBVIOUS
<1>1. /\ open_files = [h \in Files!Handles |-> [fd |-> 0, position |-> 0]] /\ file_count = 0
      /\ offsets = <<>> /\ close_failed = FALSE
  BY DEF Files!Init, Files!fs_init, Files!Cleared
<1>2. Files!Busy = {}
  BY <1>1 DEF Files!Busy, Files!FreeHandles
<1>3. DOMAIN offsets = {} /\ offsets = [d \in DOMAIN offsets |-> offsets[d]]
  BY <1>1
<1>4. Cardinality({}) = 0
  BY FS_EmptySet
<1>5. Files!CountKept
  BY <1>1, <1>2, <1>4, FilesCardinality DEF Files!CountKept
<1>6. Files!HandlesExact
  BY <1>2, <1>3 DEF Files!HandlesExact, Files!Used
<1>7. open_files \in [Files!Handles -> [fd : DESCRIPTORS \cup {0}, position : Nat]]
  BY <1>1
<1>8. Files!NoneLeaked
  BY <1>3 DEF Files!NoneLeaked, Files!Used
<1>9. QED BY <1>1, <1>3, <1>5, <1>6, <1>7, <1>8 DEF FilesInv, Files!FilesKept

LEMMA FilesOpen ==
    ASSUME FilesInv, Files!fs_open
    PROVE  FilesInv'
<1>1. /\ open_files \in [Files!Handles -> [fd : DESCRIPTORS \cup {0}, position : Nat]]
      /\ DOMAIN offsets \subseteq DESCRIPTORS
      /\ file_count = Cardinality(Files!Busy) /\ Files!HandlesExact /\ Files!NoneLeaked
      /\ DESCRIPTORS \subseteq Nat \ {0} /\ MAX_OPEN_FILES \in Nat /\ close_failed \in BOOLEAN
  BY SystemAssumption, FilesCardinality DEF FilesInv, Files!FilesKept, Files!CountKept
<1>2. PICK c : c = Files!Lowest(DESCRIPTORS \ Files!Used)
  OBVIOUS
<1>3. PICK h : h = Files!Lowest(Files!FreeHandles)
  OBVIOUS
<1>4. c \in DESCRIPTORS \ DOMAIN offsets
  <2>1. DESCRIPTORS \ Files!Used \subseteq Nat /\ DESCRIPTORS \ Files!Used # {}
    BY <1>1 DEF Files!fs_open
  <2>2. c \in DESCRIPTORS \ Files!Used
    BY <1>2, <2>1, LowestIn
  <2>3. QED BY <2>2 DEF Files!Used
<1>5. h \in Files!FreeHandles
  <2>1. Files!FreeHandles \subseteq Nat /\ Files!FreeHandles # {}
    BY <1>1 DEF Files!fs_open, Files!FreeHandles, Files!Handles
  <2>2. QED BY <1>3, <2>1, LowestIn
<1>6. h \in Files!Handles /\ open_files[h].fd = 0
  BY <1>5 DEF Files!FreeHandles
<1>7. /\ offsets' = [d \in DOMAIN offsets \cup {c} |-> IF d = c THEN 0 ELSE offsets[d]]
      /\ open_files' = [open_files EXCEPT ![h] = [fd |-> c, position |-> 0]]
      /\ file_count' = file_count + 1 /\ close_failed' = close_failed
  BY <1>2, <1>3 DEF Files!fs_open, Files!Used
<1>8. DOMAIN offsets' = DOMAIN offsets \cup {c} /\ offsets' = [d \in DOMAIN offsets' |-> offsets'[d]]
  BY <1>7
<1>9. /\ open_files' \in [Files!Handles -> [fd : DESCRIPTORS \cup {0}, position : Nat]]
      /\ open_files'[h] = [fd |-> c, position |-> 0]
      /\ \A g \in Files!Handles : g # h => open_files'[g] = open_files[g]
  BY <1>1, <1>4, <1>6, <1>7
<1>10. c # 0 /\ open_files'[h].fd = c /\ open_files'[h].position = 0
  BY <1>1, <1>4, <1>9
<1>11. \A g \in Files!Handles : g \in Files!Busy <=> open_files[g].fd # 0
  BY DEF Files!Busy, Files!FreeHandles
<1>12. Files!Busy' = Files!Busy \cup {h} /\ h \notin Files!Busy
  <2>1. Files!Busy' = {g \in Files!Handles : open_files'[g].fd # 0}
    BY DEF Files!Busy, Files!FreeHandles, Files!Handles
  <2>2. Files!Busy = {g \in Files!Handles : open_files[g].fd # 0}
    BY DEF Files!Busy, Files!FreeHandles
  <2>3. QED BY <1>6, <1>9, <1>10, <2>1, <2>2
<1>13. Files!CountKept'
  <2>1. IsFiniteSet(Files!Busy)
    BY HandlesFinite DEF Files!Busy
  <2>2. Cardinality(Files!Busy \cup {h}) = Cardinality(Files!Busy) + 1
    BY <1>12, <2>1, FS_AddElement
  <2>3. QED BY <1>1, <1>7, <1>12, <2>2, FilesCardinality DEF Files!CountKept
<1>14. Files!HandlesExact'
  <2>1. SUFFICES ASSUME ~close_failed
                 PROVE  /\ \A g, l \in Files!Busy' : open_files'[g].fd = open_files'[l].fd => g = l
                        /\ {open_files'[g].fd : g \in Files!Busy'} = DOMAIN offsets'
                        /\ \A g \in Files!Busy' : open_files'[g].position = offsets'[open_files'[g].fd]
    BY <1>7 DEF Files!HandlesExact, Files!Used
  <2>2. /\ \A g, l \in Files!Busy : open_files[g].fd = open_files[l].fd => g = l
        /\ {open_files[g].fd : g \in Files!Busy} = DOMAIN offsets
        /\ \A g \in Files!Busy : open_files[g].position = offsets[open_files[g].fd]
    BY <1>1, <2>1 DEF Files!HandlesExact, Files!Used
  <2>3. \A g \in Files!Busy : /\ open_files'[g] = open_files[g] /\ open_files[g].fd \in DOMAIN offsets
                              /\ open_files[g].fd # c
    <3>1. \A g \in Files!Busy : g \in Files!Handles /\ g # h
      BY <1>12 DEF Files!Busy
    <3>2. QED BY <1>4, <1>9, <2>2, <3>1
  <2>4. \A g, l \in Files!Busy' : open_files'[g].fd = open_files'[l].fd => g = l
    BY <1>10, <1>12, <2>2, <2>3
  <2>5. {open_files'[g].fd : g \in Files!Busy'} = DOMAIN offsets'
    BY <1>8, <1>10, <1>12, <2>2, <2>3
  <2>6. \A g \in Files!Busy' : open_files'[g].position = offsets'[open_files'[g].fd]
    BY <1>7, <1>10, <1>12, <2>2, <2>3
  <2>7. QED BY <2>4, <2>5, <2>6
<1>15. Files!NoneLeaked'
  <2>1. \A d \in DOMAIN offsets : \E g \in Files!Busy : open_files[g].fd = d
    BY <1>1 DEF Files!NoneLeaked, Files!Used
  <2>2. \A g \in Files!Busy : g \in Files!Busy' /\ open_files'[g].fd = open_files[g].fd
    <3>1. \A g \in Files!Busy : g \in Files!Handles /\ g # h
      BY <1>12 DEF Files!Busy
    <3>2. QED BY <1>9, <1>12, <3>1
  <2>3. ASSUME NEW d \in DOMAIN offsets' PROVE \E g \in Files!Busy' : open_files'[g].fd = d
    <3>1. CASE d = c
      BY <1>10, <1>12, <3>1
    <3>2. CASE d # c
      <4>1. d \in DOMAIN offsets
        BY <1>8, <2>3, <3>2
      <4>2. QED BY <2>1, <2>2, <4>1
    <3>3. QED BY <3>1, <3>2
  <2>4. QED BY <2>3 DEF Files!NoneLeaked, Files!Used
<1>16. QED
  BY <1>1, <1>4, <1>7, <1>8, <1>9, <1>13, <1>14, <1>15 DEF FilesInv, Files!FilesKept, Files!Handles

LEMMA FilesTransfer ==
    ASSUME FilesInv, NEW h \in Files!Handles, NEW b \in TRANSFERS, Files!Transfer(h, b)
    PROVE  FilesInv'
<1>1. /\ open_files \in [Files!Handles -> [fd : DESCRIPTORS \cup {0}, position : Nat]]
      /\ DOMAIN offsets \subseteq DESCRIPTORS /\ offsets = [d \in DOMAIN offsets |-> offsets[d]]
      /\ file_count = Cardinality(Files!Busy) /\ Files!HandlesExact /\ Files!NoneLeaked
      /\ b \in Nat /\ close_failed \in BOOLEAN
  BY SystemAssumption, FilesCardinality DEF FilesInv, Files!FilesKept, Files!CountKept
<1>2. PICK c : c = open_files[h].fd
  OBVIOUS
<1>3. /\ c # 0 /\ c \in DOMAIN offsets
      /\ offsets' = [offsets EXCEPT ![c] = @ + b]
      /\ open_files' = [open_files EXCEPT ![h].position = @ + b]
      /\ file_count' = file_count /\ close_failed' = close_failed
  BY <1>2 DEF Files!Transfer, Files!Used
<1>4. /\ DOMAIN offsets' = DOMAIN offsets /\ offsets' = [d \in DOMAIN offsets' |-> offsets'[d]]
      /\ offsets'[c] = offsets[c] + b
      /\ \A d \in DOMAIN offsets : d # c => offsets'[d] = offsets[d]
  <2>1. PICK u : u = offsets
    OBVIOUS
  <2>2. offsets' = [d \in DOMAIN u |-> IF d = c THEN u[c] + b ELSE u[d]]
    BY <1>1, <1>3, <2>1
  <2>3. QED BY <1>3, <2>1, <2>2
<1>5. /\ open_files' \in [Files!Handles -> [fd : DESCRIPTORS \cup {0}, position : Nat]]
      /\ open_files'[h].fd = c /\ open_files'[h].position = open_files[h].position + b
      /\ \A g \in Files!Handles : g # h => open_files'[g] = open_files[g]
  <2>1. PICK x : x = open_files[h]
    OBVIOUS
  <2>2. x \in [fd : DESCRIPTORS \cup {0}, position : Nat] /\ x.fd = c
    BY <1>1, <1>2, <2>1
  <2>3. [x EXCEPT !.position = @ + b] = [fd |-> c, position |-> x.position + b]
    BY <2>2
  <2>4. open_files' = [open_files EXCEPT ![h] = [fd |-> c, position |-> x.position + b]]
    BY <1>3, <2>1, <2>3
  <2>5. [fd |-> c, position |-> x.position + b] \in [fd : DESCRIPTORS \cup {0}, position : Nat]
    BY <1>1, <2>2
  <2>6. QED BY <1>1, <2>1, <2>4, <2>5
<1>6. \A g \in Files!Handles : open_files'[g].fd = open_files[g].fd
  BY <1>2, <1>5
<1>7. Files!Busy' = Files!Busy
  <2>1. Files!Busy' = {g \in Files!Handles : open_files'[g].fd # 0}
    BY DEF Files!Busy, Files!FreeHandles, Files!Handles
  <2>2. Files!Busy = {g \in Files!Handles : open_files[g].fd # 0}
    BY DEF Files!Busy, Files!FreeHandles
  <2>3. QED BY <1>6, <2>1, <2>2
<1>8. Files!CountKept'
  BY <1>1, <1>3, <1>7, FilesCardinality DEF Files!CountKept
<1>9. Files!HandlesExact'
  <2>1. SUFFICES ASSUME ~close_failed
                 PROVE  /\ \A g, l \in Files!Busy : open_files'[g].fd = open_files'[l].fd => g = l
                        /\ {open_files'[g].fd : g \in Files!Busy} = DOMAIN offsets'
                        /\ \A g \in Files!Busy : open_files'[g].position = offsets'[open_files'[g].fd]
    BY <1>3, <1>7 DEF Files!HandlesExact, Files!Used
  <2>2. /\ \A g, l \in Files!Busy : open_files[g].fd = open_files[l].fd => g = l
        /\ {open_files[g].fd : g \in Files!Busy} = DOMAIN offsets
        /\ \A g \in Files!Busy : open_files[g].position = offsets[open_files[g].fd]
    BY <1>1, <2>1 DEF Files!HandlesExact, Files!Used
  <2>3. \A g \in Files!Busy : g \in Files!Handles /\ open_files[g].fd \in DOMAIN offsets
    BY <2>2 DEF Files!Busy
  <2>4. h \in Files!Busy
    BY <1>2, <1>3 DEF Files!Busy, Files!FreeHandles
  <2>5. ASSUME NEW g \in Files!Busy PROVE open_files'[g].position = offsets'[open_files'[g].fd]
    <3>1. CASE g = h
      BY <1>2, <1>4, <1>5, <2>2, <2>4, <3>1
    <3>2. CASE g # h
      <4>1. open_files[g].fd # c
        BY <1>2, <2>2, <2>4, <3>2
      <4>2. QED BY <1>4, <1>5, <2>2, <2>3, <3>2, <4>1
    <3>3. QED BY <3>1, <3>2
  <2>6. \A g \in Files!Busy : open_files'[g].fd = open_files[g].fd
    BY <1>6, <2>3
  <2>7. {open_files'[g].fd : g \in Files!Busy} = {open_files[g].fd : g \in Files!Busy}
    BY <2>6
  <2>8. \A g, l \in Files!Busy : open_files'[g].fd = open_files'[l].fd => g = l
    BY <2>2, <2>6
  <2>9. QED BY <1>4, <2>2, <2>5, <2>7, <2>8
<1>10. Files!NoneLeaked'
  <2>1. \A d \in DOMAIN offsets : \E g \in Files!Busy : open_files[g].fd = d
    BY <1>1 DEF Files!NoneLeaked, Files!Used
  <2>2. \A g \in Files!Busy : open_files'[g].fd = open_files[g].fd
    BY <1>6 DEF Files!Busy
  <2>3. \A d \in DOMAIN offsets' : \E g \in Files!Busy' : open_files'[g].fd = d
    BY <1>4, <1>7, <2>1, <2>2
  <2>4. QED BY <2>3 DEF Files!NoneLeaked, Files!Used
<1>11. QED BY <1>1, <1>3, <1>4, <1>5, <1>8, <1>9, <1>10 DEF FilesInv, Files!FilesKept, Files!Handles

LEMMA FilesClose ==
    ASSUME FilesInv, NEW h \in Files!Handles, Files!fs_close(h)
    PROVE  FilesInv'
<1>1. /\ open_files \in [Files!Handles -> [fd : DESCRIPTORS \cup {0}, position : Nat]]
      /\ DOMAIN offsets \subseteq DESCRIPTORS
      /\ file_count = Cardinality(Files!Busy) /\ Files!HandlesExact /\ close_failed \in BOOLEAN
      /\ \A d \in DOMAIN offsets : \E g \in Files!Busy : open_files[g].fd = d
  BY FilesCardinality DEF FilesInv, Files!FilesKept, Files!CountKept, Files!NoneLeaked, Files!Used
<1>2. PICK c : c = open_files[h].fd
  OBVIOUS
<1>3. c # 0 /\ offsets' = [d \in DOMAIN offsets \ {c} |-> offsets[d]]
  BY <1>2 DEF Files!fs_close, Files!Used
<1>4. /\ DOMAIN offsets' = DOMAIN offsets \ {c} /\ offsets' = [d \in DOMAIN offsets' |-> offsets'[d]]
      /\ \A d \in DOMAIN offsets \ {c} : offsets'[d] = offsets[d]
  BY <1>3
<1>5. CASE close_failed' = TRUE /\ open_files' = open_files /\ file_count' = file_count
  <2>1. Files!CountKept'
    BY <1>1, <1>5, FilesCardinality DEF Files!CountKept, Files!Busy, Files!FreeHandles, Files!Handles
  <2>2. Files!HandlesExact'
    BY <1>5 DEF Files!HandlesExact
  <2>3. Files!NoneLeaked'
    <3>1. Files!Busy' = Files!Busy
      BY <1>5 DEF Files!Busy, Files!FreeHandles, Files!Handles
    <3>2. \A d \in DOMAIN offsets' : \E g \in Files!Busy' : open_files'[g].fd = d
      BY <1>1, <1>4, <1>5, <3>1
    <3>3. QED BY <3>2 DEF Files!NoneLeaked, Files!Used
  <2>4. QED BY <1>1, <1>4, <1>5, <2>1, <2>2, <2>3 DEF FilesInv, Files!FilesKept, Files!Handles
<1>6. CASE /\ c \in DOMAIN offsets /\ open_files' = [open_files EXCEPT ![h] = Files!Cleared]
           /\ file_count' = file_count - 1 /\ close_failed' = close_failed
  <2>1. /\ open_files' \in [Files!Handles -> [fd : DESCRIPTORS \cup {0}, position : Nat]]
        /\ open_files'[h].fd = 0
        /\ \A g \in Files!Handles : g # h => open_files'[g] = open_files[g]
    BY <1>1, <1>6 DEF Files!Cleared
  <2>2. Files!Busy' = Files!Busy \ {h} /\ h \in Files!Busy
    <3>1. Files!Busy' = {g \in Files!Handles : open_files'[g].fd # 0}
      BY DEF Files!Busy, Files!FreeHandles, Files!Handles
    <3>2. Files!Busy = {g \in Files!Handles : open_files[g].fd # 0}
      BY DEF Files!Busy, Files!FreeHandles
    <3>3. QED BY <1>2, <1>3, <2>1, <3>1, <3>2
  <2>3. Files!CountKept'
    <3>1. IsFiniteSet(Files!Busy)
      BY HandlesFinite DEF Files!Busy
    <3>2. Cardinality(Files!Busy \ {h}) = Cardinality(Files!Busy) - 1
      BY <2>2, <3>1, FS_RemoveElement
    <3>3. QED BY <1>1, <1>6, <2>2, <3>2, FilesCardinality DEF Files!CountKept
  <2>4. Files!HandlesExact'
    <3>1. SUFFICES ASSUME ~close_failed
                   PROVE  /\ \A g, l \in Files!Busy' : open_files'[g].fd = open_files'[l].fd => g = l
                          /\ {open_files'[g].fd : g \in Files!Busy'} = DOMAIN offsets'
                          /\ \A g \in Files!Busy' : open_files'[g].position = offsets'[open_files'[g].fd]
      BY <1>6 DEF Files!HandlesExact, Files!Used
    <3>2. /\ \A g, l \in Files!Busy : open_files[g].fd = open_files[l].fd => g = l
          /\ {open_files[g].fd : g \in Files!Busy} = DOMAIN offsets
          /\ \A g \in Files!Busy : open_files[g].position = offsets[open_files[g].fd]
      BY <1>1, <3>1 DEF Files!HandlesExact, Files!Used
    <3>3. \A g \in Files!Busy \ {h} : /\ open_files'[g] = open_files[g] /\ open_files[g].fd # c
                                      /\ open_files[g].fd \in DOMAIN offsets \ {c}
      <4>1. \A g \in Files!Busy \ {h} : g \in Files!Handles
        BY DEF Files!Busy
      <4>2. QED BY <1>2, <2>1, <2>2, <3>2, <4>1
    <3>4. \A g, l \in Files!Busy' : open_files'[g].fd = open_files'[l].fd => g = l
      BY <2>2, <3>2, <3>3
    <3>5. {open_files'[g].fd : g \in Files!Busy'} = DOMAIN offsets'
      <4>1. \A d \in DOMAIN offsets \ {c} : \E g \in Files!Busy \ {h} : open_files[g].fd = d
        BY <1>2, <3>2
      <4>2. QED BY <1>4, <2>2, <3>3, <4>1
    <3>6. \A g \in Files!Busy' : open_files'[g].position = offsets'[open_files'[g].fd]
      BY <1>4, <2>2, <3>2, <3>3
    <3>7. QED BY <3>4, <3>5, <3>6
  <2>5. Files!NoneLeaked'
    <3>1. ASSUME NEW d \in DOMAIN offsets \ {c}
          PROVE  \E g \in Files!Busy \ {h} : open_files'[g].fd = d
      <4>1. PICK g \in Files!Busy : open_files[g].fd = d
        BY <1>1
      <4>2. g \in Files!Handles /\ g # h
        BY <1>2, <3>1, <4>1 DEF Files!Busy
      <4>3. QED BY <2>1, <4>1, <4>2
    <3>2. \A d \in DOMAIN offsets' : \E g \in Files!Busy' : open_files'[g].fd = d
      BY <1>4, <2>2, <3>1
    <3>3. QED BY <3>2 DEF Files!NoneLeaked, Files!Used
  <2>6. QED BY <1>1, <1>4, <1>6, <2>1, <2>3, <2>4, <2>5 DEF FilesInv, Files!FilesKept, Files!Handles
<1>7. QED BY <1>2, <1>5, <1>6 DEF Files!fs_close, Files!Used

LEMMA FilesStep == FilesInv /\ Files!Next => FilesInv'
<1> SUFFICES ASSUME FilesInv, Files!Next PROVE FilesInv'
  OBVIOUS
<1>1. CASE Files!fs_open
  BY <1>1, FilesOpen
<1>2. ASSUME NEW h \in Files!Handles, NEW b \in TRANSFERS \ {0},
             Files!fs_read(h, b) \/ Files!fs_write(h, b)
      PROVE  FilesInv'
  BY <1>2, FilesTransfer DEF Files!fs_read, Files!fs_write
<1>3. ASSUME NEW h \in Files!Handles, Files!fs_close(h) PROVE FilesInv'
  BY <1>3, FilesClose
<1>4. QED BY <1>1, <1>2, <1>3 DEF Files!Next

LEMMA FilesEnd == FilesInv => Files!FilesKept
BY DEF FilesInv

-----------------------------------------------------------------------------
(* multi_level_index_allocation.c *)

LEMMA DivMod ==
    ASSUME NEW m \in Nat, NEW d \in Nat \ {0}
    PROVE  \E q \in Nat, r \in 0 .. d - 1 : q = m \div d /\ r = m % d /\ m = q * d + r
<1>1. m \div d \in Nat /\ m % d \in 0 .. d - 1
  OBVIOUS
<1>2. PICK q \in Nat : q = m \div d
  BY <1>1
<1>3. PICK r \in 0 .. d - 1 : r = m % d
  BY <1>1
<1>4. m = d * q + r
  BY <1>2, <1>3
<1>5. d * q = q * d
  OBVIOUS
<1>6. m = q * d + r
  BY <1>4, <1>5
<1>7. QED BY <1>2, <1>3, <1>6

LEMMA RowBelow ==
    ASSUME NEW d \in Nat \ {0}, NEW q \in Nat, NEW m \in Nat, q * d < m * d
    PROVE  q < m
<1>1. SUFFICES ASSUME m <= q PROVE FALSE
  OBVIOUS
<1>2. PICK x \in Nat : q = m + x
  <2>1. q - m \in Nat /\ q = m + (q - m)
    BY <1>1
  <2>2. QED BY <2>1
<1>3. (m + x) * d = m * d + x * d /\ x * d \in Nat /\ m * d \in Nat
  OBVIOUS
<1>4. QED BY <1>2, <1>3

LEMMA DivModIs ==
    ASSUME NEW q \in Nat, NEW d \in Nat \ {0}, NEW e \in 0 .. d - 1
    PROVE  (q * d + e) \div d = q /\ (q * d + e) % d = e
<1>1. PICK m \in Nat : m = q * d + e
  <2>1. q * d \in Nat
    OBVIOUS
  <2>2. QED BY <2>1
<1>2. PICK r \in Nat, c \in 0 .. d - 1 : r = m \div d /\ c = m % d /\ m = r * d + c
  BY DivMod
<1>4. q * d + e = r * d + c
  BY <1>1, <1>2
<1>5. q = r
  <2>1. q * d \in Nat /\ r * d \in Nat /\ (q + 1) * d = q * d + d /\ (r + 1) * d = r * d + d
    OBVIOUS
  <2>2. q * d < (r + 1) * d /\ r * d < (q + 1) * d
    BY <1>4, <2>1
  <2>3. q < r + 1 /\ r < q + 1
    BY <2>2, RowBelow
  <2>4. QED BY <2>3
<1>6. e = c
  <2>1. q * d \in Nat
    OBVIOUS
  <2>2. QED BY <1>4, <1>5, <2>1
<1>7. QED BY <1>1, <1>2, <1>5, <1>6

D == DIRECT_BLOCKS
I == INDIRECT_BLOCKS
Indexed == Len(addresses)
Indirect == Indexed - Index!Single          \* blocks behind the double indirect block

\* Indirect block 0 is the single indirect one, 1 the double indirect one, and the
\* others those it names.
IndexInv ==
    /\ addresses \in Seq(Int) /\ Indexed <= Index!Double /\ used \in Nat
    /\ idx \in [direct : [0 .. D - 1 -> Int], single_indirect : Int, double_indirect : Int,
                triple_indirect : Int]
    /\ indirect_blocks \in [Index!Addresses \cup {0} -> [Index!Entries -> Int]]
    /\ \A k \in 0 .. D - 1 : k < Indexed => idx.direct[k] = addresses[k + 1]
    /\ Indexed <= D => used = 0
    /\ Indexed > D => /\ idx.single_indirect = 0
                      /\ Indexed <= Index!Single => used = 1
    /\ \A k \in 0 .. I - 1 : D + k < Indexed => indirect_blocks[0][k] = addresses[D + k + 1]
    /\ Indexed > Index!Single =>
        /\ idx.double_indirect = 1
        /\ used >= 3 /\ (used - 3) * I < Indirect /\ Indirect <= (used - 2) * I
    /\ \A q, e \in 0 .. I - 1 : q * I + e < Indirect =>
        /\ indirect_blocks[1][q] = 2 + q
        /\ indirect_blocks[2 + q][e] = addresses[Index!Single + (q * I + e) + 1]

LEMMA IndexSizes ==
    /\ D \in Nat \ {0} /\ I \in Nat \ {0} /\ I * I \in Nat
    /\ Index!Single = D + I /\ Index!Double = D + I + I * I
    /\ \A q \in 0 .. I - 1 : 2 + q \in Index!Addresses
    /\ 1 \in Index!Addresses
<1>1. D \in Nat \ {0} /\ I \in Nat \ {0}
  BY SystemAssumption DEF D, I
<1>2. I * I \in Nat /\ I * I >= 1
  BY <1>1
<1>3. Index!Single = D + I /\ Index!Double = D + I + I * I
  BY DEF Index!Single, Index!Double, D, I
<1>4. Index!Addresses = 1 .. D + I + I * I
  BY <1>3 DEF Index!Addresses
<1>5. QED BY <1>1, <1>2, <1>3, <1>4

LEMMA IndexStart == Index!Init => IndexInv
<1> SUFFICES ASSUME Index!Init PROVE IndexInv
  OBVIOUS
<1>1. /\ idx = [direct |-> [k \in 0 .. D - 1 |-> 0],
              single_indirect |-> 0, double_indirect |-> 0, triple_indirect |-> 0]
      /\ indirect_blocks \in {[b \in Index!Addresses \cup {0} |-> [e \in Index!Entries |-> x]] : x \in {0, 1}}
      /\ used = 0 /\ addresses = <<>>
  BY DEF Index!Init, Index!init_multilevel_allocator, D
<1>2. addresses \in Seq(Int) /\ Indexed = 0
  BY <1>1, EmptySeq DEF Indexed
<1>3. /\ D \in Nat \ {0} /\ I \in Nat \ {0} /\ I * I \in Nat
      /\ Index!Single = D + I /\ Index!Double = D + I + I * I
  BY IndexSizes
<1>4. indirect_blocks \in [Index!Addresses \cup {0} -> [Index!Entries -> Int]]
  BY <1>1
<1>5. idx \in [direct : [0 .. D - 1 -> Int], single_indirect : Int, double_indirect : Int, triple_indirect : Int]
  BY <1>1
<1>6. Indirect < 0 /\ Indirect \in Int
  BY <1>2, <1>3 DEF Indirect
<1>7. \A q, e \in 0 .. I - 1 : q * I + e >= 0 /\ q * I + e \in Int
  BY <1>3
<1>8. \A q, e \in 0 .. I - 1 : ~(q * I + e < Indirect)
  BY <1>6, <1>7
<1>9. /\ Indexed <= Index!Double /\ ~(Indexed > D) /\ ~(Indexed > Index!Single)
      /\ \A k \in 0 .. D - 1 : ~(k < Indexed)
      /\ \A k \in 0 .. I - 1 : ~(D + k < Indexed)
  BY <1>2, <1>3
<1>10. QED BY <1>1, <1>2, <1>4, <1>5, <1>8, <1>9 DEF IndexInv

\* What every append does to the list of addresses.
LEMMA IndexGrows ==
    ASSUME IndexInv, NEW a \in Index!Addresses, Index!AppendBlock(a), NEW K, K = Indexed
    PROVE  /\ K \in Nat /\ K < Index!Double /\ a \in Int
           /\ addresses' \in Seq(Int) /\ Indexed' = K + 1 /\ addresses'[K + 1] = a
           /\ \A k \in 1 .. K : addresses'[k] = addresses[k]
<1>1. a \in Int
  BY IndexSizes DEF Index!Addresses
<1>2. addresses \in Seq(Int)
  BY DEF IndexInv
<1>3. addresses' = Append(addresses, a) /\ Len(addresses) < Index!Double
  BY DEF Index!AppendBlock
<1>4. QED BY <1>1, <1>2, <1>3 DEF Indexed

LEMMA IndexDirect ==
    ASSUME IndexInv, NEW a \in Index!Addresses, Index!AppendBlock(a), Indexed < D,
           idx' = [idx EXCEPT !.direct[Indexed] = a], UNCHANGED <<indirect_blocks, used>>
    PROVE  IndexInv'
<1>1. PICK K : K = Indexed
  OBVIOUS
<1>2. /\ K \in Nat /\ K < Index!Double /\ a \in Int
      /\ addresses' \in Seq(Int) /\ Indexed' = K + 1 /\ addresses'[K + 1] = a
      /\ \A k \in 1 .. K : addresses'[k] = addresses[k]
  BY <1>1, IndexGrows
<1>3. /\ D \in Nat \ {0} /\ I \in Nat \ {0} /\ I * I \in Nat
      /\ Index!Single = D + I /\ Index!Double = D + I + I * I
  BY IndexSizes
<1>4. K < D /\ K \in 0 .. D - 1
  BY <1>1, <1>2, <1>3
<1>5. PICK x : x = idx
  OBVIOUS
<1>6. x \in [direct : [0 .. D - 1 -> Int], single_indirect : Int, double_indirect : Int, triple_indirect : Int]
  BY <1>5 DEF IndexInv
<1>7. idx' = [x EXCEPT !.direct = [x.direct EXCEPT ![K] = a]]
  BY <1>1, <1>5
<1>8. PICK y : y = [x.direct EXCEPT ![K] = a]
  OBVIOUS
<1>9. y \in [0 .. D - 1 -> Int] /\ y[K] = a /\ \A k \in 0 .. D - 1 : k # K => y[k] = x.direct[k]
  BY <1>2, <1>4, <1>6, <1>8
<1>10. idx' = [x EXCEPT !.direct = y]
  BY <1>7, <1>8
<1>11. /\ idx' \in [direct : [0 .. D - 1 -> Int], single_indirect : Int, double_indirect : Int, triple_indirect : Int]
       /\ idx'.direct = y
  BY <1>6, <1>9, <1>10
<1>12. ASSUME NEW k \in 0 .. D - 1, k < K + 1 PROVE idx'.direct[k] = addresses'[k + 1]
  <2>1. CASE k = K
    BY <1>2, <1>9, <1>11, <2>1
  <2>2. CASE k # K
    <3>1. k < K /\ k + 1 \in 1 .. K
      BY <1>2, <1>12, <2>2
    <3>2. x.direct[k] = addresses[k + 1]
      BY <1>1, <1>5, <3>1 DEF IndexInv
    <3>3. QED BY <1>2, <1>9, <1>11, <2>2, <3>1, <3>2
  <2>3. QED BY <2>1, <2>2
<1>13. used = 0 /\ used' = 0
  BY <1>1, <1>4, <1>2, <1>3 DEF IndexInv
<1>14. Indirect' = K + 1 - (D + I)
  BY <1>2, <1>3 DEF Indirect
<1>15. Indirect' < 0 /\ Indirect' \in Int
  <2>1. D \in Nat /\ I \in Nat \ {0} /\ K < D /\ K \in Nat
    BY <1>2, <1>3, <1>4
  <2>2. QED BY <1>14, <2>1
<1>16. \A q, e \in 0 .. I - 1 : ~(q * I + e < Indirect')
  <2>1. \A q, e \in 0 .. I - 1 : q * I + e >= 0 /\ q * I + e \in Int
    BY <1>3
  <2>2. QED BY <1>15, <2>1
<1>17. indirect_blocks' \in [Index!Addresses \cup {0} -> [Index!Entries -> Int]]
  BY DEF IndexInv
<1>18. ~(K + 1 > D) /\ ~(K + 1 > Index!Single) /\ K + 1 <= Index!Double /\ \A k \in 0 .. I - 1 : ~(D + k < K + 1)
  BY <1>2, <1>3, <1>4
<1>19. QED
  BY <1>2, <1>11, <1>12, <1>13, <1>16, <1>17, <1>18
  DEF IndexInv, Index!Addresses, Index!Entries, Index!Double, Index!Single, D, I

LEMMA IndexSingle ==
    ASSUME IndexInv, NEW a \in Index!Addresses, Index!AppendBlock(a), D <= Indexed, Indexed < Index!Single,
           Index!AppendSingle(Indexed - D, a)
    PROVE  IndexInv'
<1>1. PICK K : K = Indexed
  OBVIOUS
<1>2. /\ K \in Nat /\ K < Index!Double /\ a \in Int
      /\ addresses' \in Seq(Int) /\ Indexed' = K + 1 /\ addresses'[K + 1] = a
      /\ \A k \in 1 .. K : addresses'[k] = addresses[k]
  BY <1>1, IndexGrows
<1>3. D \in Nat \ {0} /\ I \in Nat \ {0} /\ Index!Single = D + I
  BY IndexSizes
<1>4. PICK m : m = K - D
  OBVIOUS
<1>5. m \in 0 .. I - 1 /\ K = D + m
  BY <1>1, <1>2, <1>3, <1>4
<1>6. (IF m = 0 THEN used ELSE idx.single_indirect) = 0
  <2>1. CASE m = 0
    BY <1>1, <1>3, <1>5, <2>1 DEF IndexInv
  <2>2. CASE m # 0
    <3>1. K > D
      BY <1>3, <1>5, <2>2
    <3>2. QED BY <1>1, <2>2, <3>1 DEF IndexInv
  <2>3. QED BY <2>1, <2>2
<1>7. /\ idx' = [idx EXCEPT !.single_indirect = 0]
      /\ indirect_blocks' = [indirect_blocks EXCEPT ![0][m] = a]
      /\ used' = IF m = 0 THEN used + 1 ELSE used
  BY <1>1, <1>4, <1>6 DEF Index!AppendSingle
<1>8. used' = 1
  <2>1. CASE m = 0
    <3>1. used = 0
      BY <1>1, <1>3, <1>5, <2>1 DEF IndexInv
    <3>2. QED BY <1>7, <2>1, <3>1
  <2>2. CASE m # 0
    <3>1. K > D /\ K <= Index!Single
      BY <1>3, <1>5, <2>2
    <3>2. used = 1
      BY <1>1, <3>1 DEF IndexInv
    <3>3. QED BY <1>7, <2>2, <3>2
  <2>3. QED BY <2>1, <2>2
<1>9. idx \in [direct : [0 .. D - 1 -> Int], single_indirect : Int, double_indirect : Int, triple_indirect : Int]
  BY DEF IndexInv
<1>10. /\ idx' \in [direct : [0 .. D - 1 -> Int], single_indirect : Int, double_indirect : Int, triple_indirect : Int]
       /\ idx'.single_indirect = 0 /\ idx'.direct = idx.direct
  BY <1>7, <1>9
<1>11. indirect_blocks \in [Index!Addresses \cup {0} -> [Index!Entries -> Int]]
  BY DEF IndexInv
<1>12. m \in Index!Entries
  BY <1>5 DEF Index!Entries, I
<1>13. PICK y : y = [indirect_blocks[0] EXCEPT ![m] = a]
  OBVIOUS
<1>14. y \in [Index!Entries -> Int] /\ y[m] = a /\ \A k \in Index!Entries : k # m => y[k] = indirect_blocks[0][k]
  BY <1>2, <1>11, <1>12, <1>13
<1>15. indirect_blocks' = [indirect_blocks EXCEPT ![0] = y]
  BY <1>7, <1>13
<1>16. indirect_blocks' \in [Index!Addresses \cup {0} -> [Index!Entries -> Int]] /\ indirect_blocks'[0] = y
  BY <1>11, <1>14, <1>15
<1>17. ASSUME NEW k \in 0 .. I - 1, D + k < K + 1 PROVE indirect_blocks'[0][k] = addresses'[D + k + 1]
  <2>1. CASE k = m
    BY <1>2, <1>5, <1>14, <1>16, <2>1
  <2>2. CASE k # m
    <3>1. D + k < K /\ D + k + 1 \in 1 .. K
      BY <1>2, <1>3, <1>5, <1>17, <2>2
    <3>2. indirect_blocks[0][k] = addresses[D + k + 1]
      BY <1>1, <3>1 DEF IndexInv
    <3>3. k \in Index!Entries
      BY DEF Index!Entries, I
    <3>4. QED BY <1>2, <1>14, <1>16, <2>2, <3>1, <3>2, <3>3
  <2>3. QED BY <2>1, <2>2
<1>18. ASSUME NEW k \in 0 .. D - 1, k < K + 1 PROVE idx'.direct[k] = addresses'[k + 1]
  <2>1. k < K /\ k + 1 \in 1 .. K
    BY <1>3, <1>5
  <2>2. idx.direct[k] = addresses[k + 1]
    BY <1>1, <2>1 DEF IndexInv
  <2>3. QED BY <1>2, <1>10, <2>1, <2>2
<1>19. Indirect' = K + 1 - (D + I)
  BY <1>2, <1>3 DEF Indirect, Index!Single, D, I
<1>20. Indirect' <= 0 /\ Indirect' \in Int
  BY <1>3, <1>5, <1>19
<1>21. \A q, e \in 0 .. I - 1 : ~(q * I + e < Indirect')
  <2>1. \A q, e \in 0 .. I - 1 : q * I + e >= 0 /\ q * I + e \in Int
    BY <1>3
  <2>2. QED BY <1>20, <2>1
<1>22. ~(K + 1 <= D) /\ ~(K + 1 > Index!Single) /\ K + 1 <= Index!Double
  <2>1. Index!Double \in Int
    BY IndexSizes
  <2>2. QED BY <1>2, <1>3, <1>5, <2>1
<1>23. QED
  BY <1>2, <1>8, <1>10, <1>16, <1>17, <1>18, <1>21, <1>22
  DEF IndexInv, Index!Addresses, Index!Entries, Index!Double, Index!Single, D, I

LEMMA IndexDouble ==
    ASSUME IndexInv, NEW a \in Index!Addresses, Index!AppendBlock(a), Index!Single <= Indexed,
           Index!AppendDouble(Indexed - Index!Single, a)
    PROVE  IndexInv'
<1>1. PICK K : K = Indexed
  OBVIOUS
<1>2. /\ K \in Nat /\ K < Index!Double /\ a \in Int
      /\ addresses' \in Seq(Int) /\ Indexed' = K + 1 /\ addresses'[K + 1] = a
      /\ \A k \in 1 .. K : addresses'[k] = addresses[k]
  BY <1>1, IndexGrows
<1>3. /\ D \in Nat \ {0} /\ I \in Nat \ {0} /\ I * I \in Nat
      /\ Index!Single = D + I /\ Index!Double = D + I + I * I
      /\ \A q \in 0 .. I - 1 : 2 + q \in Index!Addresses
      /\ 1 \in Index!Addresses
  BY IndexSizes
<1>4. PICK m : m = K - Index!Single
  OBVIOUS
<1>5. m \in Nat /\ m < I * I /\ K = Index!Single + m /\ Index!Single \in Nat /\ Indirect = m
  BY <1>1, <1>2, <1>3, <1>4 DEF Indirect
<1>6. PICK q \in Nat, e \in 0 .. I - 1 : q = m \div I /\ e = m % I /\ m = q * I + e
  BY <1>3, <1>5, DivMod
<1>7. q \in 0 .. I - 1
  <2>1. q * I \in Nat /\ q * I < I * I
    BY <1>3, <1>5, <1>6
  <2>2. q < I
    BY <1>3, <2>1, RowBelow
  <2>3. QED BY <1>3, <2>2
<1>8. (IF m = 0 THEN used ELSE idx.double_indirect) = 1
  <2>1. CASE m = 0
    <3>1. K > D /\ K <= Index!Single
      BY <1>3, <1>5, <2>1
    <3>2. used = 1
      BY <1>1, <3>1 DEF IndexInv
    <3>3. QED BY <2>1, <3>2
  <2>2. CASE m # 0
    <3>1. K > Index!Single
      BY <1>5, <2>2
    <3>2. QED BY <1>1, <2>2, <3>1 DEF IndexInv
  <2>3. QED BY <2>1, <2>2
<1>9. m # 0 => used \in Nat /\ used >= 3 /\ (used - 3) * I < m /\ m <= (used - 2) * I
  <2>1. m # 0 => K > Index!Single
    BY <1>5
  <2>2. QED BY <1>1, <1>5, <2>1 DEF IndexInv
<1>10. m = 0 => used = 1
  BY <1>8
<1>11. (m # 0 /\ e = 0) => used = 2 + q
  <2>1. SUFFICES ASSUME m # 0, e = 0 PROVE used = 2 + q
    OBVIOUS
  <2>2. PICK u \in Nat : used = u + 3
    <3>1. used - 3 \in Nat /\ used = (used - 3) + 3
      BY <1>9, <2>1
    <3>2. QED BY <3>1
  <2>3. u * I < q * I /\ q * I <= (u + 1) * I
    <3>1. m = q * I
      BY <1>3, <1>6, <2>1
    <3>2. (used - 3) * I < m /\ m <= (used - 2) * I
      BY <1>9, <2>1
    <3>3. used - 3 = u /\ used - 2 = u + 1
      BY <2>2
    <3>4. QED BY <3>1, <3>2, <3>3
  <2>4. u < q
    BY <1>3, <2>3, RowBelow
  <2>5. q < u + 2
    <3>1. (u + 1) * I + I = (u + 2) * I /\ (u + 1) * I \in Nat /\ q * I \in Nat
      BY <1>3
    <3>2. q * I < (u + 2) * I
      BY <1>3, <2>3, <3>1
    <3>3. u + 2 \in Nat
      OBVIOUS
    <3>4. QED BY <1>3, <3>2, <3>3, RowBelow
  <2>6. QED BY <2>2, <2>4, <2>5
<1>12. (m # 0 /\ e # 0) => indirect_blocks[1][q] = 2 + q
  <2>1. SUFFICES ASSUME m # 0, e # 0 PROVE indirect_blocks[1][q] = 2 + q
    OBVIOUS
  <2>2. 0 \in 0 .. I - 1 /\ q * I + 0 < m
    BY <1>3, <1>6, <2>1
  <2>3. QED BY <1>5, <1>7, <2>2 DEF IndexInv
<1>13. PICK leaf : leaf = IF m = 0 THEN used + 1 ELSE IF m % I = 0 THEN used ELSE indirect_blocks[1][q]
  OBVIOUS
<1>14. leaf = 2 + q
  <2>1. CASE m = 0
    <3>1. q = 0
      <4>1. q * I >= 0 /\ (q > 0 => q * I > 0)
        BY <1>3
      <4>2. QED BY <1>3, <1>6, <2>1, <4>1
    <3>2. QED BY <1>10, <1>13, <2>1, <3>1
  <2>2. CASE m # 0 /\ e = 0
    BY <1>6, <1>11, <1>13, <2>2
  <2>3. CASE m # 0 /\ e # 0
    BY <1>6, <1>12, <1>13, <2>3
  <2>4. QED BY <2>1, <2>2, <2>3
<1>15. /\ idx' = [idx EXCEPT !.double_indirect = 1]
       /\ indirect_blocks' = [indirect_blocks EXCEPT ![1][q] = leaf, ![leaf][e] = a]
       /\ used' = IF m = 0 THEN used + 2 ELSE IF m % I = 0 THEN used + 1 ELSE used
  BY <1>1, <1>4, <1>6, <1>8, <1>13 DEF Index!AppendDouble, I
<1>16. idx \in [direct : [0 .. D - 1 -> Int], single_indirect : Int, double_indirect : Int, triple_indirect : Int]
  BY DEF IndexInv
<1>17. /\ idx' \in [direct : [0 .. D - 1 -> Int], single_indirect : Int, double_indirect : Int, triple_indirect : Int]
       /\ idx'.double_indirect = 1 /\ idx'.direct = idx.direct /\ idx'.single_indirect = idx.single_indirect
  BY <1>15, <1>16
<1>18. PICK b : b = indirect_blocks
  OBVIOUS
<1>19. b \in [Index!Addresses \cup {0} -> [Index!Entries -> Int]]
  BY <1>18 DEF IndexInv
<1>20. q \in Index!Entries /\ e \in Index!Entries /\ leaf \in Index!Addresses /\ 1 \in Index!Addresses /\ leaf # 1 /\ leaf # 0
       /\ leaf \in Int
  BY <1>3, <1>7, <1>14 DEF Index!Entries, I
<1>21. PICK y : y = [b[1] EXCEPT ![q] = leaf]
  OBVIOUS
<1>22. PICK z : z = [b[leaf] EXCEPT ![e] = a]
  OBVIOUS
<1>23. /\ y \in [Index!Entries -> Int] /\ y[q] = leaf /\ \A k \in Index!Entries : k # q => y[k] = b[1][k]
       /\ z \in [Index!Entries -> Int] /\ z[e] = a /\ \A k \in Index!Entries : k # e => z[k] = b[leaf][k]
  BY <1>2, <1>19, <1>20, <1>21, <1>22
<1>24. indirect_blocks' = [[b EXCEPT ![1] = y] EXCEPT ![leaf] = z]
  <2>1. PICK c : c = [b EXCEPT ![1] = y]
    OBVIOUS
  <2>2. c[leaf] = b[leaf]
    BY <1>19, <1>20, <2>1
  <2>3. [b EXCEPT ![1][q] = leaf] = c
    BY <1>21, <2>1
  <2>4. indirect_blocks' = [c EXCEPT ![leaf][e] = a]
    BY <1>15, <1>18, <2>3
  <2>5. [c EXCEPT ![leaf][e] = a] = [c EXCEPT ![leaf] = [c[leaf] EXCEPT ![e] = a]]
    OBVIOUS
  <2>6. QED BY <1>22, <2>1, <2>2, <2>4, <2>5
<1>25. /\ indirect_blocks' \in [Index!Addresses \cup {0} -> [Index!Entries -> Int]]
       /\ indirect_blocks'[1] = y /\ indirect_blocks'[leaf] = z
       /\ \A x \in Index!Addresses \cup {0} : x # 1 /\ x # leaf => indirect_blocks'[x] = b[x]
  <2>1. PICK c : c = [b EXCEPT ![1] = y]
    OBVIOUS
  <2>2. /\ c \in [Index!Addresses \cup {0} -> [Index!Entries -> Int]] /\ c[1] = y
        /\ \A x \in Index!Addresses \cup {0} : x # 1 => c[x] = b[x]
    BY <1>19, <1>20, <1>23, <2>1
  <2>3. QED BY <1>20, <1>23, <1>24, <2>1, <2>2
<1>26. indirect_blocks'[0] = indirect_blocks[0]
  BY <1>18, <1>20, <1>25
<1>27. Indirect' = m + 1
  BY <1>2, <1>5 DEF Indirect, Index!Single, D, I
<1>28. ASSUME NEW r \in 0 .. I - 1, NEW f \in 0 .. I - 1, r * I + f < m + 1
       PROVE  /\ indirect_blocks'[1][r] = 2 + r
              /\ indirect_blocks'[2 + r][f] = addresses'[Index!Single + (r * I + f) + 1]
  <2>1. r * I + f \in Nat /\ r \in Index!Entries /\ f \in Index!Entries /\ r \in Nat
    BY <1>3 DEF Index!Entries, I
  <2>2. CASE r * I + f = m
    <3>1. r = q /\ f = e
      <4>1. (r * I + f) \div I = r /\ (r * I + f) % I = f
        BY <1>3, <2>1, DivModIs
      <4>2. m \div I = r /\ m % I = f
        BY <2>2, <4>1
      <4>3. QED BY <1>6, <4>2
    <3>2. Index!Single + (r * I + f) + 1 = K + 1
      BY <1>5, <2>2
    <3>3. QED BY <1>2, <1>14, <1>23, <1>25, <3>1, <3>2
  <2>3. CASE r * I + f # m
    <3>1. r * I + f < m
      BY <1>5, <1>28, <2>1, <2>3
    <3>2. b[1][r] = 2 + r /\ b[2 + r][f] = addresses[Index!Single + (r * I + f) + 1]
      BY <1>5, <1>18, <3>1 DEF IndexInv
    <3>3. indirect_blocks'[1][r] = 2 + r
      BY <1>14, <1>23, <1>25, <2>1, <3>2
    <3>4. Index!Single + (r * I + f) + 1 \in 1 .. K
      BY <1>5, <2>1, <3>1
    <3>5. indirect_blocks'[2 + r][f] = b[2 + r][f]
      <4>1. CASE r = q
        <5>1. f # e
          BY <1>6, <2>3, <4>1
        <5>2. QED BY <1>14, <1>23, <1>25, <2>1, <4>1, <5>1
      <4>2. CASE r # q
        <5>1. 2 + r \in Index!Addresses /\ 2 + r # 1 /\ 2 + r # leaf
          BY <1>3, <1>14, <2>1, <4>2
        <5>2. QED BY <1>25, <5>1
      <4>3. QED BY <4>1, <4>2
    <3>6. QED BY <1>2, <3>2, <3>3, <3>4, <3>5
  <2>4. QED BY <2>2, <2>3
<1>29. used' \in Nat /\ used' = 3 + q
  <2>1. CASE m = 0
    <3>1. q = 0
      BY <1>10, <1>13, <1>14, <2>1
    <3>2. QED BY <1>10, <1>15, <2>1, <3>1
  <2>2. CASE m # 0 /\ e = 0
    BY <1>6, <1>11, <1>15, <2>2
  <2>3. CASE m # 0 /\ e # 0
    <3>1. used' = used /\ used \in Nat /\ used >= 3
      BY <1>6, <1>9, <1>15, <2>3
    <3>2. PICK u \in Nat : used = u + 3
      <4>1. used - 3 \in Nat /\ used = (used - 3) + 3
        BY <3>1
      <4>2. QED BY <4>1
    <3>3. u * I < m /\ m <= (u + 1) * I
      <4>1. used - 3 = u /\ used - 2 = u + 1
        BY <3>2
      <4>2. QED BY <1>9, <2>3, <4>1
    <3>4. q * I \in Nat /\ (q + 1) * I = q * I + I /\ u * I \in Nat /\ (u + 1) * I \in Nat /\ q + 1 \in Nat /\ u + 1 \in Nat
      BY <1>3
    <3>5. u * I < (q + 1) * I /\ q * I < (u + 1) * I
      BY <1>3, <1>6, <2>3, <3>3, <3>4
    <3>6. u < q + 1 /\ q < u + 1
      BY <1>3, <3>4, <3>5, RowBelow
    <3>7. QED BY <3>1, <3>2, <3>6
  <2>4. QED BY <2>1, <2>2, <2>3
<1>30. used' >= 3 /\ (used' - 3) * I < m + 1 /\ m + 1 <= (used' - 2) * I
  <2>1. used' - 3 = q /\ used' - 2 = q + 1
    BY <1>29
  <2>2. q * I \in Nat /\ (q + 1) * I = q * I + I
    BY <1>3
  <2>3. q * I < m + 1 /\ m + 1 <= (q + 1) * I
    BY <1>3, <1>6, <2>2
  <2>4. QED BY <1>29, <2>1, <2>3
<1>31. ASSUME NEW k \in 0 .. D - 1, k < K + 1 PROVE idx'.direct[k] = addresses'[k + 1]
  <2>1. k < K /\ k + 1 \in 1 .. K
    BY <1>3, <1>5
  <2>2. idx.direct[k] = addresses[k + 1]
    BY <1>1, <2>1 DEF IndexInv
  <2>3. QED BY <1>2, <1>17, <2>1, <2>2
<1>32. ASSUME NEW k \in 0 .. I - 1, D + k < K + 1 PROVE indirect_blocks'[0][k] = addresses'[D + k + 1]
  <2>1. D + k < K /\ D + k + 1 \in 1 .. K
    BY <1>3, <1>5
  <2>2. indirect_blocks[0][k] = addresses[D + k + 1]
    BY <1>1, <2>1 DEF IndexInv
  <2>3. QED BY <1>2, <1>26, <2>1, <2>2
<1>33. ~(K + 1 <= D) /\ ~(K + 1 <= Index!Single) /\ K + 1 <= Index!Double
  BY <1>2, <1>3, <1>5
<1>34. idx'.single_indirect = 0
  <2>1. K > D
    BY <1>3, <1>5
  <2>2. QED BY <1>1, <1>17, <2>1 DEF IndexInv
<1>35. /\ (Index!Double)' = Index!Double /\ (Index!Single)' = Index!Single
       /\ (Index!Addresses)' = Index!Addresses /\ (Index!Entries)' = Index!Entries /\ D' = D /\ I' = I
  BY DEF Index!Addresses, Index!Entries, Index!Double, Index!Single, D, I
<1>36. \A r, f \in 0 .. I - 1 : r * I + f < m + 1 =>
          /\ indirect_blocks'[1][r] = 2 + r
          /\ indirect_blocks'[2 + r][f] = addresses'[Index!Single + (r * I + f) + 1]
  BY <1>28
<1>37. /\ addresses' \in Seq(Int) /\ Indexed' <= Index!Double /\ used' \in Nat
       /\ \A k \in 0 .. D - 1 : k < Indexed' => idx'.direct[k] = addresses'[k + 1]
       /\ ~(Indexed' <= D) /\ ~(Indexed' <= Index!Single)
       /\ \A k \in 0 .. I - 1 : D + k < Indexed' => indirect_blocks'[0][k] = addresses'[D + k + 1]
  BY <1>2, <1>29, <1>31, <1>32, <1>33
<1>38. (\A r, f \in 0 .. I - 1 : r * I + f < Indirect =>
           /\ indirect_blocks[1][r] = 2 + r
           /\ indirect_blocks[2 + r][f] = addresses[Index!Single + (r * I + f) + 1])'
  BY <1>27, <1>35, <1>36
<1>39. (/\ Indexed <= D => used = 0
        /\ Indexed > D => /\ idx.single_indirect = 0
                          /\ Indexed <= Index!Single => used = 1
        /\ Indexed > Index!Single =>
            /\ idx.double_indirect = 1
            /\ used >= 3 /\ (used - 3) * I < Indirect /\ Indirect <= (used - 2) * I)'
  BY <1>17, <1>27, <1>30, <1>34, <1>35, <1>37
<1>40. QED
  BY <1>17, <1>25, <1>35, <1>37, <1>38, <1>39 DEF IndexInv

LEMMA IndexStep == IndexInv /\ Index!Next => IndexInv'
<1> SUFFICES ASSUME IndexInv, Index!Next PROVE IndexInv'
  OBVIOUS
<1>1. PICK a \in Index!Addresses : Index!AppendBlock(a)
  BY DEF Index!Next
<1>2. CASE /\ Len(addresses) < DIRECT_BLOCKS /\ idx' = [idx EXCEPT !.direct[Len(addresses)] = a]
           /\ UNCHANGED <<indirect_blocks, used>>
  BY <1>1, <1>2, IndexDirect DEF D, Indexed
<1>3. CASE /\ DIRECT_BLOCKS <= Len(addresses) /\ Len(addresses) < Index!Single
           /\ Index!AppendSingle(Len(addresses) - DIRECT_BLOCKS, a)
  BY <1>1, <1>3, IndexSingle DEF D, Indexed
<1>4. CASE Index!Single <= Len(addresses) /\ Index!AppendDouble(Len(addresses) - Index!Single, a)
  BY <1>1, <1>4, IndexDouble DEF Indexed
<1>5. QED BY <1>1, <1>2, <1>3, <1>4 DEF Index!AppendBlock

LEMMA IndexEnd == IndexInv => Index!AddressesExact
<1> SUFFICES ASSUME IndexInv, NEW l \in DOMAIN addresses
             PROVE  Index!get_block_address(l - 1) = addresses[l]
  BY DEF Index!AddressesExact
<1>1. addresses \in Seq(Int) /\ Indexed \in Nat /\ Indexed <= Index!Double
  BY DEF IndexInv, Indexed
<1>2. l \in 1 .. Indexed
  BY <1>1 DEF Indexed
<1>3. PICK k \in Nat : l = k + 1 /\ k = l - 1
  <2>1. l - 1 \in Nat /\ l = (l - 1) + 1
    BY <1>2
  <2>2. QED BY <2>1
<1>4. /\ D \in Nat \ {0} /\ I \in Nat \ {0} /\ I * I \in Nat
      /\ Index!Single = D + I /\ Index!Double = D + I + I * I
  BY IndexSizes
<1>5. k < Indexed
  BY <1>1, <1>2, <1>3
<1>6. CASE k < D
  <2>1. Index!get_block_address(k) = idx.direct[k]
    BY <1>6, <1>4 DEF Index!get_block_address, D
  <2>2. k \in 0 .. D - 1
    BY <1>4, <1>6
  <2>3. QED BY <1>3, <1>5, <2>1, <2>2 DEF IndexInv
<1>7. CASE D <= k /\ k < Index!Single
  <2>1. PICK m : m = k - D
    OBVIOUS
  <2>2. m \in 0 .. I - 1 /\ k = D + m /\ Indexed > D
    BY <1>1, <1>4, <1>5, <1>7, <2>1
  <2>3. Index!get_block_address(k) = indirect_blocks[idx.single_indirect][m]
    BY <1>4, <1>7, <2>1 DEF Index!get_block_address, D
  <2>4. idx.single_indirect = 0
    BY <2>2 DEF IndexInv
  <2>5. indirect_blocks[0][m] = addresses[D + m + 1]
    BY <1>5, <2>2 DEF IndexInv
  <2>6. QED BY <1>3, <2>2, <2>3, <2>4, <2>5
<1>8. CASE Index!Single <= k
  <2>1. k < Index!Double /\ ~(k < D) /\ ~(k < Index!Single) /\ ~(Index!Double <= k)
    BY <1>1, <1>4, <1>5, <1>8
  <2>2. PICK m : m = k - Index!Single
    OBVIOUS
  <2>3. m \in Nat /\ m < I * I /\ k = Index!Single + m /\ m < Indirect /\ Indexed > Index!Single
    BY <1>1, <1>4, <1>5, <1>8, <2>1, <2>2 DEF Indirect
  <2>4. PICK q \in Nat, e \in 0 .. I - 1 : q = m \div I /\ e = m % I /\ m = q * I + e
    BY <1>4, <2>3, DivMod
  <2>5. q \in 0 .. I - 1
    <3>1. q * I \in Nat /\ q * I < I * I
      BY <1>4, <2>3, <2>4
    <3>2. q < I
      BY <1>4, <3>1, RowBelow
    <3>3. QED BY <1>4, <3>2
  <2>6. Index!get_block_address(k) = Index!DoubleAddress(m)
    BY <1>4, <1>8, <2>1, <2>2 DEF Index!get_block_address, D
  <2>7. Index!DoubleAddress(m) = indirect_blocks[indirect_blocks[idx.double_indirect][q]][e]
    BY <2>4 DEF Index!DoubleAddress, I
  <2>8. idx.double_indirect = 1
    BY <2>3 DEF IndexInv
  <2>9. /\ indirect_blocks[1][q] = 2 + q
        /\ indirect_blocks[2 + q][e] = addresses[Index!Single + (q * I + e) + 1]
    BY <2>3, <2>4, <2>5 DEF IndexInv
  <2>10. Index!Single + (q * I + e) + 1 = l
    BY <1>3, <2>3, <2>4
  <2>11. QED BY <1>3, <2>6, <2>7, <2>8, <2>9, <2>10
<1>9. QED BY <1>4, <1>6, <1>7, <1>8

-----------------------------------------------------------------------------
(* fragmentation_management.c *)

Rg == [block_start : Nat, block_len : Nat \ {0}]

\* The regions s are the blocks F, each of them in one region.
Cut(s, F) ==
    /\ s \in Seq(Rg)
    /\ F = UNION {Regions!BlocksOf(s[k]) : k \in 1 .. Len(s)}
    /\ \A j, k \in 1 .. Len(s) : j # k => Regions!BlocksOf(s[j]) \cap Regions!BlocksOf(s[k]) = {}

LEMMA RegionsCardinality == \A S : Regions!Cardinality(S) = Cardinality(S)
BY DEF Regions!Cardinality, Cardinality

LEMMA RegionBlocks ==
    ASSUME NEW r \in Rg
    PROVE  /\ IsFiniteSet(Regions!BlocksOf(r)) /\ Cardinality(Regions!BlocksOf(r)) = r.block_len
           /\ Regions!BlocksOf(r) # {} /\ Regions!BlocksOf(r) \subseteq Nat
<1>1. PICK a \in Nat, l \in Nat \ {0} : a = r.block_start /\ l = r.block_len
  BY DEF Rg
<1>2. Regions!BlocksOf(r) = a .. a + l - 1
  BY <1>1 DEF Regions!BlocksOf
<1>3. a \in Int /\ a + l - 1 \in Int /\ ~(a > a + l - 1) /\ (a + l - 1) - a + 1 = l
  OBVIOUS
<1>4. IsFiniteSet(a .. a + l - 1) /\ Cardinality(a .. a + l - 1) = (a + l - 1) - a + 1
  BY <1>3, FS_Interval
<1>5. a \in a .. a + l - 1 /\ a .. a + l - 1 \subseteq Nat
  OBVIOUS
<1>6. QED BY <1>1, <1>2, <1>3, <1>4, <1>5

\* A function over 1 .. N is a sequence.
LEMMA FunctionSeq ==
    ASSUME NEW S, NEW N \in Nat, NEW z \in [1 .. N -> S]
    PROVE  z \in Seq(S) /\ Len(z) = N
OBVIOUS

\* The lengths of disjoint regions add up to the number of their blocks.
LEMMA CutTotal ==
    ASSUME NEW s, NEW F, Cut(s, F)
    PROVE  IsFiniteSet(F) /\ Regions!TotalLen(s) = Cardinality(F)
<1>1. PICK N \in Nat : N = Len(s)
  BY LenProperties DEF Cut
<1>2. \A k \in 1 .. N : s[k] \in Rg
  BY <1>1, ElementOfSeq DEF Cut
<1>3. \A k \in 1 .. N : s[k].block_len \in Int
  BY <1>2 DEF Rg
<1> DEFINE t == [k \in 1 .. N |-> s[k].block_len]
           Is(h) == h = [k \in 0 .. N |-> IF k = 0 THEN 0 ELSE h[k - 1] + s[k].block_len]
<1>4. \A k \in 1 .. N : t[k] \in Int /\ t[k] = s[k].block_len
  BY <1>3
<1> HIDE DEF t
<1>5. PICK g : IsSum(g, t, N)
  BY <1>4, SumExists
<1>6. Is(g)
  BY <1>4, <1>5 DEF IsSum
<1>7. PICK h : h = CHOOSE x : Is(x)
  OBVIOUS
<1>8. Is(h)
  BY <1>6, <1>7
<1>9. Regions!TotalLen(s) = h[N]
  BY <1>1, <1>7 DEF Regions!TotalLen
<1>10. h[0] = 0 /\ \A k \in 1 .. N : h[k] = h[k - 1] + s[k].block_len
  BY <1>8
<1> DEFINE U == [k \in 0 .. N |-> UNION {Regions!BlocksOf(s[j]) : j \in 1 .. k}]
<1>11. U[0] = {} /\ U[N] = F
  BY <1>1 DEF Cut
<1>12. ASSUME NEW k \in 1 .. N
       PROVE  U[k] = U[k - 1] \cup Regions!BlocksOf(s[k]) /\ U[k - 1] \cap Regions!BlocksOf(s[k]) = {}
  <2>1. k \in 0 .. N /\ k - 1 \in 0 .. N /\ \A j \in 1 .. k : j \in 1 .. k - 1 \/ j = k
    OBVIOUS
  <2>2. \A j \in 1 .. k - 1 : j \in 1 .. k /\ j \in 1 .. N /\ j # k
    OBVIOUS
  <2>3. U[k] = UNION {Regions!BlocksOf(s[j]) : j \in 1 .. k} /\ k \in 1 .. k
        /\ U[k - 1] = UNION {Regions!BlocksOf(s[j]) : j \in 1 .. k - 1}
    BY <2>1
  <2> HIDE DEF U
  <2>4. U[k] = U[k - 1] \cup Regions!BlocksOf(s[k])
    BY <2>1, <2>2, <2>3
  <2>5. \A j \in 1 .. k - 1 : Regions!BlocksOf(s[j]) \cap Regions!BlocksOf(s[k]) = {}
    BY <1>1, <2>2 DEF Cut
  <2>6. U[k - 1] \cap Regions!BlocksOf(s[k]) = {}
    BY <2>3, <2>5
  <2>7. QED BY <2>4, <2>6
<1> HIDE DEF U
<1> DEFINE S == {k \in 0 .. N : IsFiniteSet(U[k]) /\ h[k] = Cardinality(U[k])}
<1>13. 0 \in S
  BY <1>10, <1>11, FS_EmptySet
<1>14. ASSUME NEW k \in 1 .. N, k - 1 \in S PROVE k \in S
  <2>1. IsFiniteSet(U[k - 1]) /\ h[k - 1] = Cardinality(U[k - 1])
    BY <1>14
  <2>2. PICK B : B = Regions!BlocksOf(s[k])
    OBVIOUS
  <2>3. IsFiniteSet(B) /\ Cardinality(B) = s[k].block_len
    BY <1>2, <2>2, RegionBlocks
  <2>4. IsFiniteSet(U[k - 1] \cup B)
        /\ Cardinality(U[k - 1] \cup B) = Cardinality(U[k - 1]) + Cardinality(B) - Cardinality(U[k - 1] \cap B)
    BY <2>1, <2>3, FS_Union
  <2>5. Cardinality(U[k - 1] \cap B) = 0
    BY <1>12, <2>2, FS_EmptySet
  <2>6. Cardinality(U[k - 1]) \in Nat /\ Cardinality(B) \in Nat
    BY <2>1, <2>3, FS_CardinalityType
  <2>7. U[k] = U[k - 1] \cup B
    BY <1>12, <2>2
  <2>8. Cardinality(U[k - 1] \cup B) = h[k - 1] + s[k].block_len
    BY <2>1, <2>3, <2>4, <2>5, <2>6
  <2>9. h[k] = h[k - 1] + s[k].block_len
    BY <1>10
  <2>10. IsFiniteSet(U[k]) /\ h[k] = Cardinality(U[k]) /\ k \in 0 .. N
    BY <2>4, <2>7, <2>8, <2>9
  <2>11. QED BY <2>10
<1> HIDE DEF S
<1>15. 0 .. N \subseteq S
  BY <1>13, <1>14, Upwards
<1>16. N \in S
  BY <1>15
<1>17. QED BY <1>9, <1>11, <1>16 DEF S

LEMMA CutSwap ==
    ASSUME NEW s, NEW F, Cut(s, F), NEW j \in 1 .. Len(s), NEW l \in 1 .. Len(s),
           NEW z \in Seq(Rg), Len(z) = Len(s), z[j] = s[l], z[l] = s[j],
           \A k \in 1 .. Len(s) : k # j /\ k # l => z[k] = s[k]
    PROVE  Cut(z, F)
<1>1. PICK N \in Nat : N = Len(s)
  BY LenProperties DEF Cut
<1> DEFINE to(k) == IF k = j THEN l ELSE IF k = l THEN j ELSE k
<1>5. \A k \in 1 .. N : to(k) \in 1 .. N /\ z[k] = s[to(k)] /\ s[k] = z[to(k)]
  BY <1>1
<1>6. \A k, m \in 1 .. N : k # m => to(k) # to(m)
  OBVIOUS
<1> HIDE DEF to
<1>7. ASSUME NEW k \in 1 .. N, NEW m \in 1 .. N, k # m
      PROVE  Regions!BlocksOf(z[k]) \cap Regions!BlocksOf(z[m]) = {}
  <2>1. PICK a \in 1 .. N, b \in 1 .. N : a # b /\ z[k] = s[a] /\ z[m] = s[b]
    BY <1>5, <1>6, <1>7
  <2>2. QED BY <1>1, <2>1 DEF Cut
<1>8. UNION {Regions!BlocksOf(z[k]) : k \in 1 .. N} = UNION {Regions!BlocksOf(s[k]) : k \in 1 .. N}
  BY <1>5
<1>9. QED BY <1>1, <1>7, <1>8 DEF Cut

\* The turns of the inner loop.
LEMMA CutPass ==
    ASSUME NEW s, NEW F, Cut(s, F), NEW p \in 1 .. Len(s) - 1
    PROVE  /\ Cut(Regions!Pass(s, p), F) /\ Len(Regions!Pass(s, p)) = Len(s)
           /\ Len(s) - p = 1 => Regions!Pass(s, p) = Regions!Swap(s, p, 1)
<1>1. PICK N \in Nat : N = Len(s)
  BY LenProperties DEF Cut
<1>2. PICK M : M = N - p
  OBVIOUS
<1>3. M \in Nat /\ M < N /\ M >= 1
  BY <1>1, <1>2
<1> DEFINE A == {z \in Seq(Rg) : Cut(z, F) /\ Len(z) = N}
           G == [k \in 1 .. M |-> [v \in A |-> Regions!Swap(v, p, k)]]
           W == [k \in 0 .. M |-> A]
           Is(h) == h = [k \in 0 .. M |-> IF k = 0 THEN s ELSE Regions!Swap(h[k - 1], p, k)]
<1>4. s \in A
  BY <1>1 DEF Cut
<1>5. \A k \in 0 .. M : W[k] = A
  OBVIOUS
<1>6. \A k \in 1 .. M : \A v \in A : Regions!Swap(v, p, k) \in A
  <2> TAKE k \in 1 .. M
  <2> TAKE v \in A
  <2>1. v \in Seq(Rg) /\ Cut(v, F) /\ Len(v) = N /\ k \in 1 .. Len(v) /\ k + 1 \in 1 .. Len(v)
    BY <1>3
  <2>2. PICK z : z = [v EXCEPT ![k] = v[k + 1], ![k + 1] = v[k]]
    OBVIOUS
  <2>3. Cut(z, F) /\ Len(z) = N
    <3> HIDE DEF A
    <3>1. v \in [1 .. N -> Rg]
      BY <2>1, LenProperties
    <3>2. /\ z \in [1 .. N -> Rg] /\ z[k] = v[k + 1] /\ z[k + 1] = v[k]
          /\ \A c \in 1 .. N : c # k /\ c # k + 1 => z[c] = v[c]
      BY <1>3, <2>1, <2>2, <3>1
    <3>3. z \in Seq(Rg) /\ Len(z) = N
      BY <3>2, FunctionSeq
    <3>4. QED BY <2>1, <3>2, <3>3, CutSwap
  <2>4. z \in A
    BY <2>3 DEF Cut
  <2>5. Regions!Swap(v, p, k) = z \/ Regions!Swap(v, p, k) = v
    BY <2>2 DEF Regions!Swap
  <2>6. QED BY <2>4, <2>5
<1>7. \A k \in 1 .. M : \A v \in A : G[k][v] = Regions!Swap(v, p, k)
  OBVIOUS
<1> HIDE DEF G, W, A
<1>8. PICK g : Runs(g, M, s, G, W)
  <2>1. s \in W[0]
    BY <1>3, <1>4, <1>5
  <2>2. \A k \in 1 .. M : \A v \in W[k - 1] : G[k][v] \in W[k]
    BY <1>3, <1>5, <1>6, <1>7
  <2>3. QED BY <1>3, <2>1, <2>2, LoopRuns
<1>9. \A k \in 1 .. M : g[k] = Regions!Swap(g[k - 1], p, k)
  <2> TAKE k \in 1 .. M
  <2>1. k - 1 \in 0 .. M
    BY <1>3
  <2>2. g[k - 1] \in A /\ g[k] = G[k][g[k - 1]]
    BY <1>5, <1>8, <2>1 DEF Runs
  <2>3. QED BY <1>7, <2>2
<1>10. Is(g)
  <2>1. g = [k \in 0 .. M |-> g[k]] /\ g[0] = s
    BY <1>8 DEF Runs
  <2>2. ASSUME NEW k \in 0 .. M PROVE g[k] = IF k = 0 THEN s ELSE Regions!Swap(g[k - 1], p, k)
    <3>1. CASE k = 0
      BY <2>1, <3>1
    <3>2. CASE k \in 1 .. M
      BY <1>9, <3>2
    <3>3. QED BY <1>3, <3>1, <3>2
  <2>3. QED BY <2>1, <2>2
<1>11. PICK h : h = CHOOSE x : Is(x)
  OBVIOUS
<1>12. Is(h)
  BY <1>10, <1>11
<1>13. Regions!Pass(s, p) = h[M]
  BY <1>1, <1>2, <1>11 DEF Regions!Pass
<1>14. h[0] = s /\ \A k \in 1 .. M : h[k] = Regions!Swap(h[k - 1], p, k)
  BY <1>3, <1>12
<1>15. \A k \in 0 .. M : h[k] \in W[k]
  <2>1. h[0] \in W[0]
    BY <1>3, <1>4, <1>5, <1>14
  <2>2. ASSUME NEW k \in 1 .. M, h[k - 1] \in W[k - 1] PROVE h[k] \in W[k]
    <3>1. k - 1 \in 0 .. M /\ k \in 0 .. M
      BY <1>3
    <3>2. QED BY <1>5, <1>6, <1>14, <2>2, <3>1
  <2>3. QED BY <1>3, <2>1, <2>2, LoopKeeps
<1>16. h[M] \in A
  BY <1>3, <1>5, <1>15
<1>17. M = 1 => h[M] = Regions!Swap(s, p, 1)
  BY <1>14
<1>18. QED BY <1>1, <1>2, <1>13, <1>16, <1>17 DEF A

LEMMA CutSort ==
    ASSUME NEW s, NEW F, Cut(s, F), Len(s) >= 1
    PROVE  /\ Cut(Regions!Sort(s), F) /\ Len(Regions!Sort(s)) = Len(s)
           /\ Len(s) = 1 => Regions!Sort(s) = s
           /\ Len(s) = 2 => Regions!Sort(s) = Regions!Swap(s, 1, 1)
<1>1. PICK N \in Nat : N = Len(s)
  BY LenProperties DEF Cut
<1>2. PICK M : M = N - 1
  OBVIOUS
<1>3. M \in Nat /\ M < N
  BY <1>1, <1>2
<1> DEFINE A == {z \in Seq(Rg) : Cut(z, F) /\ Len(z) = N}
           G == [k \in 1 .. M |-> [v \in A |-> Regions!Pass(v, k)]]
           W == [k \in 0 .. M |-> A]
           Is(h) == h = [k \in 0 .. M |-> IF k = 0 THEN s ELSE Regions!Pass(h[k - 1], k)]
<1>4. s \in A
  BY <1>1 DEF Cut
<1>5. \A k \in 0 .. M : W[k] = A
  OBVIOUS
<1>6. \A k \in 1 .. M : \A v \in A : Regions!Pass(v, k) \in A
  <2> TAKE k \in 1 .. M
  <2> TAKE v \in A
  <2>1. v \in Seq(Rg) /\ Cut(v, F) /\ Len(v) = N /\ k \in 1 .. Len(v) - 1
    BY <1>2, <1>3
  <2>2. PICK z : z = Regions!Pass(v, k)
    OBVIOUS
  <2>3. Cut(z, F) /\ Len(z) = N
    BY <2>1, <2>2, CutPass
  <2>4. z \in A
    BY <2>3 DEF Cut
  <2>5. QED BY <2>2, <2>4
<1>7. \A k \in 1 .. M : \A v \in A : G[k][v] = Regions!Pass(v, k)
  OBVIOUS
<1> HIDE DEF G, W, A
<1>8. PICK g : Runs(g, M, s, G, W)
  <2>1. s \in W[0]
    BY <1>3, <1>4, <1>5
  <2>2. \A k \in 1 .. M : \A v \in W[k - 1] : G[k][v] \in W[k]
    BY <1>3, <1>5, <1>6, <1>7
  <2>3. QED BY <1>3, <2>1, <2>2, LoopRuns
<1>9. \A k \in 1 .. M : g[k] = Regions!Pass(g[k - 1], k)
  <2> TAKE k \in 1 .. M
  <2>1. k - 1 \in 0 .. M
    BY <1>3
  <2>2. g[k - 1] \in A /\ g[k] = G[k][g[k - 1]]
    BY <1>5, <1>8, <2>1 DEF Runs
  <2>3. QED BY <1>7, <2>2
<1>10. Is(g)
  <2>1. g = [k \in 0 .. M |-> g[k]] /\ g[0] = s
    BY <1>8 DEF Runs
  <2>2. ASSUME NEW k \in 0 .. M PROVE g[k] = IF k = 0 THEN s ELSE Regions!Pass(g[k - 1], k)
    <3>1. CASE k = 0
      BY <2>1, <3>1
    <3>2. CASE k \in 1 .. M
      BY <1>9, <3>2
    <3>3. QED BY <1>3, <3>1, <3>2
  <2>3. QED BY <2>1, <2>2
<1>11. PICK h : h = CHOOSE x : Is(x)
  OBVIOUS
<1>12. Is(h)
  BY <1>10, <1>11
<1>13. Regions!Sort(s) = h[M]
  BY <1>1, <1>2, <1>11 DEF Regions!Sort
<1>14. h[0] = s /\ \A k \in 1 .. M : h[k] = Regions!Pass(h[k - 1], k)
  BY <1>3, <1>12
<1>15. \A k \in 0 .. M : h[k] \in W[k]
  <2>1. h[0] \in W[0]
    BY <1>3, <1>4, <1>5, <1>14
  <2>2. ASSUME NEW k \in 1 .. M, h[k - 1] \in W[k - 1] PROVE h[k] \in W[k]
    <3>1. k - 1 \in 0 .. M /\ k \in 0 .. M
      BY <1>3
    <3>2. QED BY <1>5, <1>6, <1>14, <2>2, <3>1
  <2>3. QED BY <1>3, <2>1, <2>2, LoopKeeps
<1>16. h[M] \in A
  BY <1>3, <1>5, <1>15
<1>17. M = 0 => h[M] = s
  BY <1>14
<1>18. M = 1 => h[M] = Regions!Swap(s, 1, 1)
  <2>1. ASSUME M = 1 PROVE h[M] = Regions!Swap(s, 1, 1)
    <3>0. N - 1 = 1
      BY <1>2, <2>1, Zenon
    <3>1. 1 \in 1 .. Len(s) - 1 /\ Len(s) - 1 = 1 /\ 1 \in 1 .. M /\ 1 - 1 = 0
      BY <1>1, <2>1, <3>0
    <3>2. h[M] = Regions!Pass(s, 1)
      BY <1>14, <2>1, <3>1
    <3>3. QED BY <3>1, <3>2, CutPass
  <2>2. QED BY <2>1
<1>19. QED BY <1>1, <1>2, <1>13, <1>16, <1>17, <1>18 DEF A

\* A region that follows the last one is added to it, any other appended.
LEMMA CutMerge ==
    ASSUME NEW m, NEW U, Cut(m, U), Len(m) >= 1, NEW r \in Rg, Regions!BlocksOf(r) \cap U = {}
    PROVE  /\ Cut(Regions!Merge(m, r), U \cup Regions!BlocksOf(r))
           /\ Len(Regions!Merge(m, r)) >= 1
<1>1. PICK N \in Nat : N = Len(m)
  BY LenProperties DEF Cut
<1>2. m \in [1 .. N -> Rg] /\ N \in 1 .. N /\ N >= 1 /\ m \in Seq(Rg)
  BY <1>1, LenProperties DEF Cut
<1>3. PICK c \in Rg : c = m[N]
  BY <1>2
<1>4. U = UNION {Regions!BlocksOf(m[k]) : k \in 1 .. N}
  BY <1>1 DEF Cut
<1>5. \A j, k \in 1 .. N : j # k => Regions!BlocksOf(m[j]) \cap Regions!BlocksOf(m[k]) = {}
  BY <1>1 DEF Cut
<1>6. PICK B : B = Regions!BlocksOf(r)
  OBVIOUS
<1>7. CASE c.block_start + c.block_len = r.block_start
  <2>1. PICK d : d = [c EXCEPT !.block_len = c.block_len + r.block_len]
    OBVIOUS
  <2>2. d \in Rg /\ d.block_start = c.block_start /\ d.block_len = c.block_len + r.block_len
    BY <2>1 DEF Rg
  <2>3. Regions!BlocksOf(d) = Regions!BlocksOf(c) \cup B
    <3>1. PICK a \in Nat, l \in Nat, x \in Nat : a = c.block_start /\ l = c.block_len /\ x = r.block_len
      BY DEF Rg
    <3>2. a .. a + (l + x) - 1 = (a .. a + l - 1) \cup ((a + l) .. (a + l) + x - 1)
      OBVIOUS
    <3>3. Regions!BlocksOf(d) = a .. a + (l + x) - 1
      BY <2>2, <3>1 DEF Regions!BlocksOf
    <3>4. Regions!BlocksOf(c) = a .. a + l - 1 /\ B = (a + l) .. (a + l) + x - 1
      BY <1>6, <1>7, <3>1 DEF Regions!BlocksOf
    <3>5. QED BY <3>2, <3>3, <3>4
  <2>4. PICK z : z = [m EXCEPT ![N] = d]
    OBVIOUS
  <2>5. Regions!Merge(m, r) = z
    BY <1>1, <1>3, <1>7, <2>1, <2>4 DEF Regions!Merge
  <2>6. z \in [1 .. N -> Rg] /\ z[N] = d /\ \A k \in 1 .. N : k # N => z[k] = m[k]
    BY <1>2, <2>2, <2>4
  <2>7. z \in Seq(Rg) /\ Len(z) = N
    BY <2>6, FunctionSeq
  <2>8. \A k \in 1 .. N : Regions!BlocksOf(z[k]) = IF k = N THEN Regions!BlocksOf(m[k]) \cup B ELSE Regions!BlocksOf(m[k])
    BY <1>3, <2>3, <2>6
  <2>9. \A k \in 1 .. N : Regions!BlocksOf(m[k]) \cap B = {}
    BY <1>4, <1>6
  <2>10. \A j, k \in 1 .. N : j # k => Regions!BlocksOf(z[j]) \cap Regions!BlocksOf(z[k]) = {}
    BY <1>5, <2>8, <2>9
  <2>11. UNION {Regions!BlocksOf(z[k]) : k \in 1 .. N} = U \cup B
    <3>1. \A k \in 1 .. N : /\ Regions!BlocksOf(z[k]) \subseteq Regions!BlocksOf(m[k]) \cup B
                            /\ Regions!BlocksOf(m[k]) \subseteq Regions!BlocksOf(z[k])
      BY <2>8
    <3>2. B \subseteq Regions!BlocksOf(z[N])
      BY <1>2, <2>8
    <3>3. QED BY <1>2, <1>4, <3>1, <3>2
  <2>12. Cut(z, U \cup B)
    BY <2>7, <2>10, <2>11 DEF Cut
  <2>13. QED BY <1>2, <1>6, <2>5, <2>7, <2>12
<1>8. CASE c.block_start + c.block_len # r.block_start
  <2>1. PICK z : z = Append(m, r)
    OBVIOUS
  <2>2. Regions!Merge(m, r) = z
    BY <1>1, <1>3, <1>8, <2>1 DEF Regions!Merge
  <2>3. z \in Seq(Rg) /\ Len(z) = N + 1 /\ z[N + 1] = r /\ \A k \in 1 .. N : z[k] = m[k]
    BY <1>1, <1>2, <2>1
  <2>4. /\ \A k \in 1 .. N + 1 : k \in 1 .. N \/ k = N + 1
        /\ \A k \in 1 .. N : k \in 1 .. N + 1 /\ k # N + 1
        /\ N + 1 \in 1 .. N + 1
    OBVIOUS
  <2>5. \A k \in 1 .. N : Regions!BlocksOf(z[k]) = Regions!BlocksOf(m[k]) /\ Regions!BlocksOf(m[k]) \cap B = {}
    BY <1>4, <1>6, <2>3
  <2>6. Regions!BlocksOf(z[N + 1]) = B
    BY <1>6, <2>3
  <2>7. \A j, k \in 1 .. N + 1 : j # k => Regions!BlocksOf(z[j]) \cap Regions!BlocksOf(z[k]) = {}
    BY <1>5, <2>4, <2>5, <2>6
  <2>8. UNION {Regions!BlocksOf(z[k]) : k \in 1 .. N + 1} = U \cup B
    BY <1>4, <2>4, <2>5, <2>6
  <2>9. QED BY <1>6, <2>2, <2>3, <2>7, <2>8 DEF Cut
<1>9. QED BY <1>7, <1>8

LEMMA CutMergeAll ==
    ASSUME NEW s, NEW F, Cut(s, F), Len(s) >= 1
    PROVE  /\ Cut(Regions!MergeAll(s), F)
           /\ Len(s) = 1 => Regions!MergeAll(s) = <<s[1]>>
           /\ Len(s) = 2 => Regions!MergeAll(s) = Regions!Merge(<<s[1]>>, s[2])
<1>1. PICK N \in Nat : N = Len(s)
  BY LenProperties DEF Cut
<1>2. PICK M : M = N - 1
  OBVIOUS
<1>3. M \in Nat /\ N = M + 1
  BY <1>1, <1>2
<1>4. \A k \in 1 .. N : s[k] \in Rg
  BY <1>1, ElementOfSeq DEF Cut
<1> DEFINE U == [k \in 0 .. M |-> UNION {Regions!BlocksOf(s[j]) : j \in 1 .. k + 1}]
           W == [k \in 0 .. M |-> {z \in Seq(Rg) : Cut(z, U[k]) /\ Len(z) >= 1}]
           G == [k \in 1 .. M |-> [v \in W[k - 1] |-> Regions!Merge(v, s[k + 1])]]
           Is(h) == h = [k \in 0 .. M |-> IF k = 0 THEN <<s[1]>> ELSE Regions!Merge(h[k - 1], s[k + 1])]
<1>5. U[0] = Regions!BlocksOf(s[1]) /\ U[M] = F
  <2>1. \A j \in 1 .. 0 + 1 : j = 1
    OBVIOUS
  <2>2. 1 \in 1 .. 0 + 1 /\ 0 \in 0 .. M /\ M \in 0 .. M
    BY <1>3
  <2>3. U[0] = UNION {Regions!BlocksOf(s[j]) : j \in 1 .. 0 + 1}
    BY <2>2
  <2>4. U[M] = UNION {Regions!BlocksOf(s[j]) : j \in 1 .. N}
    BY <1>3, <2>2
  <2>5. QED BY <1>1, <2>1, <2>2, <2>3, <2>4 DEF Cut
<1>6. ASSUME NEW k \in 1 .. M
      PROVE  U[k] = U[k - 1] \cup Regions!BlocksOf(s[k + 1]) /\ Regions!BlocksOf(s[k + 1]) \cap U[k - 1] = {}
  <2>1. /\ k \in 0 .. M /\ k - 1 \in 0 .. M /\ \A j \in 1 .. k + 1 : j \in 1 .. k \/ j = k + 1
        /\ (k - 1) + 1 = k /\ k + 1 \in 1 .. N
    BY <1>3
  <2>2. \A j \in 1 .. k : j \in 1 .. k + 1 /\ j \in 1 .. N /\ j # k + 1
    BY <1>3
  <2>3. U[k] = UNION {Regions!BlocksOf(s[j]) : j \in 1 .. k + 1} /\ k + 1 \in 1 .. k + 1
        /\ U[k - 1] = UNION {Regions!BlocksOf(s[j]) : j \in 1 .. k}
    BY <2>1
  <2> HIDE DEF U
  <2>4. U[k] = U[k - 1] \cup Regions!BlocksOf(s[k + 1])
    BY <2>1, <2>2, <2>3
  <2>5. \A j \in 1 .. k : Regions!BlocksOf(s[j]) \cap Regions!BlocksOf(s[k + 1]) = {}
    BY <1>1, <2>1, <2>2 DEF Cut
  <2>6. Regions!BlocksOf(s[k + 1]) \cap U[k - 1] = {}
    BY <2>3, <2>5
  <2>7. QED BY <2>4, <2>6
<1> HIDE DEF U
<1>7. \A k \in 0 .. M : \A z : z \in W[k] <=> z \in Seq(Rg) /\ Cut(z, U[k]) /\ Len(z) >= 1
  OBVIOUS
<1>8. \A k \in 1 .. M : \A v \in W[k - 1] : G[k][v] = Regions!Merge(v, s[k + 1])
  OBVIOUS
<1> HIDE DEF G, W
<1>9. \A k \in 1 .. M : \A v \in W[k - 1] : Regions!Merge(v, s[k + 1]) \in W[k]
  <2> TAKE k \in 1 .. M
  <2> TAKE v \in W[k - 1]
  <2>1. k - 1 \in 0 .. M /\ k \in 0 .. M /\ k + 1 \in 1 .. N
    BY <1>3
  <2>2. Cut(v, U[k - 1]) /\ Len(v) >= 1 /\ s[k + 1] \in Rg
    BY <1>4, <1>7, <2>1
  <2>3. PICK z : z = Regions!Merge(v, s[k + 1])
    OBVIOUS
  <2>4. Cut(z, U[k]) /\ Len(z) >= 1
    <3>1. Regions!BlocksOf(s[k + 1]) \cap U[k - 1] = {}
      BY <1>6
    <3>2. Cut(z, U[k - 1] \cup Regions!BlocksOf(s[k + 1])) /\ Len(z) >= 1
      BY <2>2, <2>3, <3>1, CutMerge
    <3>3. QED BY <1>6, <3>2
  <2>5. z \in Seq(Rg)
    BY <2>4 DEF Cut
  <2>6. z \in W[k]
    BY <1>7, <2>1, <2>4, <2>5
  <2>7. QED BY <2>3, <2>6
<1>10. <<s[1]>> \in W[0]
  <2>1. PICK z : z = <<s[1]>>
    OBVIOUS
  <2>2. s[1] \in Rg
    BY <1>3, <1>4
  <2>3. z \in Seq(Rg) /\ Len(z) = 1 /\ z[1] = s[1]
    BY <2>1, <2>2
  <2>4. \A j \in 1 .. 1 : j = 1
    OBVIOUS
  <2>5. UNION {Regions!BlocksOf(z[j]) : j \in 1 .. 1} = Regions!BlocksOf(s[1])
    BY <2>3, <2>4
  <2>6. Cut(z, U[0])
    BY <1>5, <2>3, <2>4, <2>5 DEF Cut
  <2>7. 0 \in 0 .. M /\ Len(z) >= 1
    BY <1>3, <2>3
  <2>8. z \in W[0]
    BY <1>7, <2>3, <2>6, <2>7
  <2>9. QED BY <2>1, <2>8
<1>11. PICK g : Runs(g, M, <<s[1]>>, G, W)
  <2>1. PICK z : z = <<s[1]>>
    OBVIOUS
  <2>2. z \in W[0]
    BY <1>10, <2>1
  <2>3. \A k \in 1 .. M : \A v \in W[k - 1] : G[k][v] \in W[k]
    BY <1>8, <1>9
  <2>4. \E g : Runs(g, M, z, G, W)
    BY <1>3, <2>2, <2>3, LoopRuns
  <2>5. QED BY <2>1, <2>4
<1>12. \A k \in 1 .. M : g[k] = Regions!Merge(g[k - 1], s[k + 1])
  <2> TAKE k \in 1 .. M
  <2>1. k - 1 \in 0 .. M
    BY <1>3
  <2>2. g[k - 1] \in W[k - 1] /\ g[k] = G[k][g[k - 1]]
    BY <1>11, <2>1 DEF Runs
  <2>3. QED BY <1>8, <2>2
<1>13. Is(g)
  <2>1. g = [k \in 0 .. M |-> g[k]] /\ g[0] = <<s[1]>>
    BY <1>11 DEF Runs
  <2>2. ASSUME NEW k \in 0 .. M PROVE g[k] = IF k = 0 THEN <<s[1]>> ELSE Regions!Merge(g[k - 1], s[k + 1])
    <3>1. CASE k = 0
      BY <2>1, <3>1
    <3>2. CASE k \in 1 .. M
      BY <1>12, <3>2
    <3>3. QED BY <1>3, <3>1, <3>2
  <2>3. QED BY <2>1, <2>2
<1>14. PICK h : h = CHOOSE x : Is(x)
  OBVIOUS
<1>15. Is(h)
  BY <1>13, <1>14
<1>16. Regions!MergeAll(s) = h[M]
  BY <1>1, <1>2, <1>14 DEF Regions!MergeAll
<1>17. h[0] = <<s[1]>> /\ \A k \in 1 .. M : h[k] = Regions!Merge(h[k - 1], s[k + 1])
  BY <1>3, <1>15
<1>18. \A k \in 0 .. M : h[k] \in W[k]
  <2>1. h[0] \in W[0]
    BY <1>10, <1>17
  <2>2. ASSUME NEW k \in 1 .. M, h[k - 1] \in W[k - 1] PROVE h[k] \in W[k]
    BY <1>9, <1>17, <2>2
  <2>3. QED BY <1>3, <2>1, <2>2, LoopKeeps
<1>19. Cut(h[M], F)
  BY <1>3, <1>5, <1>7, <1>18
<1>20. N = 1 => h[M] = <<s[1]>>
  BY <1>3, <1>17
<1>21. N = 2 => h[M] = Regions!Merge(<<s[1]>>, s[2])
  <2>1. ASSUME N = 2 PROVE h[M] = Regions!Merge(<<s[1]>>, s[2])
    <3>1. M = 1 /\ 1 \in 1 .. M /\ 1 - 1 = 0 /\ 1 + 1 = 2
      BY <1>3, <2>1
    <3>2. QED BY <1>17, <3>1
  <2>2. QED BY <2>1
<1>22. QED BY <1>1, <1>16, <1>19, <1>20, <1>21

RegionInv ==
    /\ Cut(free_regions, free) /\ free \subseteq Regions!Blocks
    /\ measured => /\ used_space = REGION_BLOCKS - Cardinality(free)
                   /\ \E b \in Regions!Blocks : b .. b + largest_free_block - 1 \subseteq free
    /\ tidied \in {1, 2} => \A j, k \in 1 .. Len(free_regions) :
            free_regions[j].block_start + free_regions[j].block_len # free_regions[k].block_start

LEMMA RegionsStart == Regions!Init => RegionInv
<1> SUFFICES ASSUME Regions!Init PROVE RegionInv
  OBVIOUS
<1>1. REGION_BLOCKS \in Nat \ {0}
  BY SystemAssumption
<1>2. PICK r : r = Regions!Region(0, REGION_BLOCKS)
  OBVIOUS
<1>3. r \in Rg /\ r.block_start = 0 /\ r.block_len = REGION_BLOCKS
  BY <1>1, <1>2 DEF Regions!Region, Rg
<1>4. free_regions = <<r>> /\ used_space = 0 /\ largest_free_block = REGION_BLOCKS
      /\ free = Regions!Blocks /\ tidied = 0
  BY <1>2 DEF Regions!Init, Regions!init_fragmentation_manager
<1>5. Regions!BlocksOf(r) = Regions!Blocks /\ Regions!Blocks = 0 .. REGION_BLOCKS - 1
  BY <1>1, <1>3 DEF Regions!BlocksOf, Regions!Blocks
<1>6. Cardinality(Regions!Blocks) = REGION_BLOCKS
  BY <1>3, <1>5, RegionBlocks
<1>7. free_regions \in Seq(Rg) /\ Len(free_regions) = 1 /\ free_regions[1] = r
  BY <1>3, <1>4
<1>8. \A k \in 1 .. 1 : k = 1
  OBVIOUS
<1>9. UNION {Regions!BlocksOf(free_regions[k]) : k \in 1 .. 1} = Regions!BlocksOf(r)
  BY <1>7, <1>8
<1>10. Cut(free_regions, free)
  BY <1>4, <1>5, <1>7, <1>8, <1>9 DEF Cut
<1>11. 0 \in Regions!Blocks /\ 0 .. 0 + largest_free_block - 1 \subseteq free
  BY <1>1, <1>4, <1>5
<1>12. used_space = REGION_BLOCKS - Cardinality(free)
  BY <1>1, <1>4, <1>6
<1>13. QED BY <1>4, <1>10, <1>11, <1>12 DEF RegionInv

LEMMA RegionRemoved ==
    ASSUME NEW s \in Seq(Rg), NEW p \in 1 .. Len(s), NEW z,
           z = SubSeq(s, 1, p - 1) \o SubSeq(s, p + 1, Len(s))
    PROVE  /\ z \in Seq(Rg) /\ Len(z) = Len(s) - 1
           /\ \A k \in 1 .. Len(s) - 1 : z[k] = IF k < p THEN s[k] ELSE s[k + 1]
BY Removed

LEMMA RegionsTake ==
    ASSUME RegionInv, NEW p \in DOMAIN free_regions, NEW c \in 1 .. REGION_BLOCKS, Regions!Take(p, c)
    PROVE  RegionInv'
<1>1. PICK s, F : s = free_regions /\ F = free
  OBVIOUS
<1>2. PICK N \in Nat : N = Len(s)
  BY <1>1, LenProperties DEF RegionInv, Cut
<1>3. s \in [1 .. N -> Rg] /\ p \in 1 .. N /\ s \in Seq(Rg) /\ Cut(s, F)
  <2>1. Cut(s, F)
    BY <1>1 DEF RegionInv
  <2>2. s \in Seq(Rg)
    BY <2>1 DEF Cut
  <2>3. s \in [1 .. N -> Rg]
    BY <1>2, <2>2, LenProperties
  <2>4. QED BY <1>1, <2>1, <2>2, <2>3
<1>4. PICK r \in Rg : r = s[p]
  BY <1>3
<1>5. PICK a \in Nat, l \in Nat \ {0} : a = r.block_start /\ l = r.block_len
  BY DEF Rg
<1>6. PICK T : T = a .. a + c - 1
  OBVIOUS
<1>7. /\ c <= l /\ free' = F \ T /\ measured' = FALSE /\ tidied' = 0
      /\ free_regions' = IF c = l THEN SubSeq(s, 1, p - 1) \o SubSeq(s, p + 1, Len(s))
                         ELSE [s EXCEPT ![p] = Regions!Region(a + c, l - c)]
  BY <1>1, <1>4, <1>5, <1>6 DEF Regions!Take
<1>8. F = UNION {Regions!BlocksOf(s[k]) : k \in 1 .. N}
  BY <1>2, <1>3 DEF Cut
<1>9. \A j, k \in 1 .. N : j # k => Regions!BlocksOf(s[j]) \cap Regions!BlocksOf(s[k]) = {}
  BY <1>2, <1>3 DEF Cut
<1>10. Regions!BlocksOf(s[p]) = a .. a + l - 1
  BY <1>4, <1>5 DEF Regions!BlocksOf
<1>11. c \in Nat \ {0}
  BY SystemAssumption
<1>12. T \subseteq Regions!BlocksOf(s[p])
  BY <1>6, <1>7, <1>10, <1>11
<1>13. ASSUME NEW k \in 1 .. N, k # p PROVE Regions!BlocksOf(s[k]) \ T = Regions!BlocksOf(s[k])
  <2>1. Regions!BlocksOf(s[k]) \cap Regions!BlocksOf(s[p]) = {}
    BY <1>3, <1>9, <1>13
  <2>2. QED BY <1>12, <2>1
<1>14. PICK z : z = free_regions'
  OBVIOUS
<1>15. Cut(z, F \ T)
  <2>1. CASE c = l
    <3>1. z = SubSeq(s, 1, p - 1) \o SubSeq(s, p + 1, Len(s))
      BY <1>7, <1>14, <2>1
    <3>2. /\ z \in Seq(Rg) /\ Len(z) = Len(s) - 1
          /\ \A k \in 1 .. Len(s) - 1 : z[k] = IF k < p THEN s[k] ELSE s[k + 1]
      <4>1. p \in 1 .. Len(s)
        BY <1>2, <1>3
      <4>2. s \in Seq(Rg)
        BY <1>3
      <4>3. QED BY <3>1, <4>1, <4>2, RegionRemoved
    <3>3. T = Regions!BlocksOf(s[p])
      BY <1>6, <1>10, <2>1
    <3> DEFINE from(k) == IF k < p THEN k ELSE k + 1
               to(k) == IF k < p THEN k ELSE k - 1
    <3>4. \A k \in 1 .. N - 1 : from(k) \in 1 .. N /\ from(k) # p /\ z[k] = s[from(k)]
      BY <1>2, <1>3, <3>2
    <3>5. \A k \in 1 .. N : k # p => to(k) \in 1 .. N - 1 /\ from(to(k)) = k
      BY <1>3
    <3>6. \A j, k \in 1 .. N - 1 : j # k => from(j) # from(k)
      BY <1>3
    <3> HIDE DEF from, to
    <3>7. ASSUME NEW j \in 1 .. N - 1, NEW k \in 1 .. N - 1, j # k
          PROVE  Regions!BlocksOf(z[j]) \cap Regions!BlocksOf(z[k]) = {}
      <4>1. PICK x \in 1 .. N, y \in 1 .. N : x # y /\ z[j] = s[x] /\ z[k] = s[y]
        BY <3>4, <3>6, <3>7
      <4>2. QED BY <1>9, <4>1
    <3>8. \A k \in 1 .. N - 1 : \E j \in 1 .. N : j # p /\ z[k] = s[j]
      BY <3>4
    <3>9. \A k \in 1 .. N : k # p => \E j \in 1 .. N - 1 : z[j] = s[k]
      BY <3>4, <3>5
    <3>10. F \ T = UNION {Regions!BlocksOf(z[k]) : k \in 1 .. N - 1}
      <4>1. ASSUME NEW b \in F \ T PROVE b \in UNION {Regions!BlocksOf(z[k]) : k \in 1 .. N - 1}
        <5>1. PICK k \in 1 .. N : b \in Regions!BlocksOf(s[k])
          BY <1>8
        <5>2. k # p
          BY <3>3, <5>1
        <5>3. QED BY <3>9, <5>1, <5>2
      <4>2. ASSUME NEW k \in 1 .. N - 1, NEW b \in Regions!BlocksOf(z[k]) PROVE b \in F \ T
        <5>1. PICK j \in 1 .. N : j # p /\ z[k] = s[j]
          BY <3>8
        <5>2. b \in Regions!BlocksOf(s[j])
          BY <5>1
        <5>3. QED BY <1>8, <1>9, <1>3, <3>3, <5>1, <5>2
      <4>3. QED BY <4>1, <4>2
    <3>11. QED BY <1>2, <3>2, <3>7, <3>10 DEF Cut
  <2>2. CASE c # l
    <3>1. PICK d : d = Regions!Region(a + c, l - c)
      OBVIOUS
    <3>2. d \in Rg /\ d.block_start = a + c /\ d.block_len = l - c
      BY <1>7, <1>11, <2>2, <3>1 DEF Rg, Regions!Region
    <3>3. Regions!BlocksOf(d) = Regions!BlocksOf(s[p]) \ T
      <4>1. Regions!BlocksOf(d) = a + c .. (a + c) + (l - c) - 1
        BY <3>2 DEF Regions!BlocksOf
      <4>2. a + c .. (a + c) + (l - c) - 1 = (a .. a + l - 1) \ (a .. a + c - 1)
        BY <1>7, <1>11
      <4>3. QED BY <1>6, <1>10, <4>1, <4>2
    <3>4. z = [s EXCEPT ![p] = d]
      BY <1>7, <1>14, <2>2, <3>1
    <3>5. z \in [1 .. N -> Rg] /\ z[p] = d /\ \A k \in 1 .. N : k # p => z[k] = s[k]
      BY <1>3, <3>2, <3>4
    <3>6. z \in Seq(Rg) /\ Len(z) = N
      BY <3>5, FunctionSeq
    <3>7. \A k \in 1 .. N : Regions!BlocksOf(z[k]) = Regions!BlocksOf(s[k]) \ T
      BY <1>13, <3>3, <3>5
    <3>8. \A j, k \in 1 .. N : j # k => Regions!BlocksOf(z[j]) \cap Regions!BlocksOf(z[k]) = {}
      BY <1>9, <3>7
    <3>9. F \ T = UNION {Regions!BlocksOf(z[k]) : k \in 1 .. N}
      BY <1>8, <3>7
    <3>10. QED BY <3>6, <3>8, <3>9 DEF Cut
  <2>3. QED BY <2>1, <2>2
<1>16. (Regions!Blocks)' = Regions!Blocks /\ F \ T \subseteq Regions!Blocks
  BY <1>1 DEF RegionInv, Regions!Blocks
<1>17. (Cut(free_regions, free))'
  BY <1>7, <1>14, <1>15
<1>18. QED BY <1>7, <1>16, <1>17 DEF RegionInv

LEMMA RegionsGiveBack ==
    ASSUME RegionInv, NEW a \in Regions!Blocks, NEW c \in 1 .. REGION_BLOCKS, Regions!GiveBack(a, c)
    PROVE  RegionInv'
<1>1. PICK s, F : s = free_regions /\ F = free
  OBVIOUS
<1>2. PICK N \in Nat : N = Len(s)
  BY <1>1, LenProperties DEF RegionInv, Cut
<1>3. s \in Seq(Rg) /\ Cut(s, F)
  BY <1>1 DEF RegionInv, Cut
<1>4. PICK r : r = Regions!Region(a, c)
  OBVIOUS
<1>5. r \in Rg
  <2>1. a \in Nat /\ c \in Nat \ {0}
    BY SystemAssumption DEF Regions!Blocks
  <2>2. QED BY <1>4, <2>1 DEF Regions!Region, Rg
<1>6. PICK B : B = Regions!BlocksOf(r)
  OBVIOUS
<1>7. /\ B \subseteq Regions!Blocks \ F /\ free' = F \cup B /\ measured' = FALSE /\ tidied' = 0
      /\ free_regions' = Append(s, r)
  BY <1>1, <1>4, <1>6 DEF Regions!GiveBack
<1>8. PICK z : z = free_regions'
  OBVIOUS
<1>9. z \in Seq(Rg) /\ Len(z) = N + 1 /\ z[N + 1] = r /\ \A k \in 1 .. N : z[k] = s[k]
  BY <1>2, <1>3, <1>5, <1>7, <1>8
<1>10. /\ \A k \in 1 .. N + 1 : k \in 1 .. N \/ k = N + 1
       /\ \A k \in 1 .. N : k \in 1 .. N + 1 /\ k # N + 1
       /\ N + 1 \in 1 .. N + 1
  OBVIOUS
<1>11. F = UNION {Regions!BlocksOf(s[k]) : k \in 1 .. N}
  BY <1>2, <1>3 DEF Cut
<1>12. \A j, k \in 1 .. N : j # k => Regions!BlocksOf(s[j]) \cap Regions!BlocksOf(s[k]) = {}
  BY <1>2, <1>3 DEF Cut
<1>13. \A k \in 1 .. N : Regions!BlocksOf(z[k]) = Regions!BlocksOf(s[k]) /\ Regions!BlocksOf(s[k]) \cap B = {}
  BY <1>7, <1>9, <1>11
<1>14. Regions!BlocksOf(z[N + 1]) = B
  BY <1>6, <1>9
<1>15. \A j, k \in 1 .. N + 1 : j # k => Regions!BlocksOf(z[j]) \cap Regions!BlocksOf(z[k]) = {}
  BY <1>10, <1>12, <1>13, <1>14
<1>16. UNION {Regions!BlocksOf(z[k]) : k \in 1 .. N + 1} = F \cup B
  BY <1>10, <1>11, <1>13, <1>14
<1>17. Cut(z, F \cup B)
  BY <1>9, <1>15, <1>16 DEF Cut
<1>18. (Regions!Blocks)' = Regions!Blocks /\ F \cup B \subseteq Regions!Blocks
  BY <1>1, <1>7 DEF RegionInv, Regions!Blocks
<1>19. (Cut(free_regions, free))'
  BY <1>7, <1>8, <1>17
<1>20. QED BY <1>7, <1>18, <1>19 DEF RegionInv

LEMMA RegionsMeasured ==
    ASSUME RegionInv, Regions!update_fragmentation_metrics
    PROVE  RegionInv'
<1>1. PICK s, F : s = free_regions /\ F = free
  OBVIOUS
<1>2. PICK N \in Nat : N = Len(s)
  BY <1>1, LenProperties DEF RegionInv, Cut
<1>3. s \in Seq(Rg) /\ Cut(s, F) /\ F \subseteq Regions!Blocks
  BY <1>1 DEF RegionInv, Cut
<1>4. \A k \in 1 .. N : s[k] \in Rg
  BY <1>2, <1>3, ElementOfSeq
<1>5. IsFiniteSet(F) /\ Regions!TotalLen(s) = Cardinality(F)
  BY <1>3, CutTotal
<1>6. used_space' = REGION_BLOCKS - Cardinality(F)
  BY <1>1, <1>5 DEF Regions!update_fragmentation_metrics
<1>7. PICK L : L = {0} \cup {s[k].block_len : k \in 1 .. N}
  OBVIOUS
<1>8. Regions!Range(s) = {s[k] : k \in 1 .. N}
  BY <1>2, <1>3, LenProperties DEF Regions!Range
<1>9. largest_free_block' = CHOOSE x \in L : \A y \in L : x >= y
  <2>1. {r.block_len : r \in Regions!Range(s)} = {s[k].block_len : k \in 1 .. N}
    BY <1>8
  <2>2. QED BY <1>1, <1>7, <2>1 DEF Regions!update_fragmentation_metrics
<1>10. REGION_BLOCKS \in Nat \ {0} /\ Regions!Blocks = 0 .. REGION_BLOCKS - 1
  BY SystemAssumption DEF Regions!Blocks
<1>11. \A k \in 1 .. N : Regions!BlocksOf(s[k]) \subseteq F
  BY <1>2, <1>3 DEF Cut
<1>12. ASSUME NEW k \in 1 .. N
       PROVE  /\ s[k].block_len \in Nat /\ s[k].block_len <= REGION_BLOCKS
              /\ s[k].block_start \in Regions!Blocks
              /\ s[k].block_start .. s[k].block_start + s[k].block_len - 1 \subseteq F
  <2>1. PICK a \in Nat, l \in Nat \ {0} : a = s[k].block_start /\ l = s[k].block_len
    BY <1>4 DEF Rg
  <2>2. a .. a + l - 1 \subseteq F
    BY <1>11, <2>1 DEF Regions!BlocksOf
  <2>3. a \in a .. a + l - 1 /\ a + l - 1 \in a .. a + l - 1
    OBVIOUS
  <2>4. a \in 0 .. REGION_BLOCKS - 1 /\ a + l - 1 \in 0 .. REGION_BLOCKS - 1
    BY <1>3, <1>10, <2>2, <2>3
  <2>5. l <= REGION_BLOCKS
    BY <1>10, <2>4
  <2>6. QED BY <1>10, <2>1, <2>2, <2>4, <2>5
<1>13. \A x \in L : x \in Nat /\ x <= REGION_BLOCKS
  BY <1>7, <1>10, <1>12
<1>14. \E x \in L : \A y \in L : x >= y
  <2> DEFINE T == {REGION_BLOCKS - x : x \in L}
  <2>1. T \subseteq Nat /\ T # {}
    BY <1>7, <1>10, <1>13
  <2>2. \E t \in T : \A u \in T : t <= u
    <3> HIDE DEF T
    <3>1. QED BY <2>1, LeastNatural
  <2>3. PICK x \in L : \A u \in T : REGION_BLOCKS - x <= u
    BY <2>2
  <2>4. ASSUME NEW y \in L PROVE x >= y
    <3>1. REGION_BLOCKS - x <= REGION_BLOCKS - y
      BY <2>3
    <3>2. QED BY <1>10, <1>13, <3>1
  <2>5. QED BY <2>4
<1>15. largest_free_block' \in L
  BY <1>9, <1>14
<1>16. \E b \in Regions!Blocks : b .. b + largest_free_block' - 1 \subseteq F
  <2>1. CASE largest_free_block' = 0
    <3>1. 0 \in Regions!Blocks /\ 0 .. 0 + largest_free_block' - 1 \subseteq F
      BY <1>10, <2>1
    <3>2. QED BY <3>1
  <2>2. CASE largest_free_block' # 0
    <3>1. PICK k \in 1 .. N : largest_free_block' = s[k].block_len
      BY <1>7, <1>15, <2>2
    <3>2. QED BY <1>12, <3>1
  <2>3. QED BY <2>1, <2>2
<1>17. free_regions' = s /\ free' = F /\ tidied' = tidied /\ (Regions!Blocks)' = Regions!Blocks
  BY <1>1 DEF Regions!update_fragmentation_metrics, Regions!Blocks
<1>18. (Cut(free_regions, free))'
  BY <1>3, <1>17
<1>19. QED BY <1>1, <1>3, <1>6, <1>16, <1>17, <1>18 DEF RegionInv

\* Of one or two regions, defragment leaves no two adjoining.
LEMMA RegionsTidied ==
    ASSUME NEW s, NEW F, Cut(s, F), Len(s) \in {1, 2}, NEW z, z = Regions!MergeAll(Regions!Sort(s))
    PROVE  \A j, k \in 1 .. Len(z) : z[j].block_start + z[j].block_len # z[k].block_start
<1>1. s \in Seq(Rg) /\ \A k \in 1 .. Len(s) : s[k] \in Rg
  BY ElementOfSeq DEF Cut
<1>2. PICK x : x = Regions!Sort(s)
  OBVIOUS
<1>3. /\ Cut(x, F) /\ Len(x) = Len(s)
      /\ Len(s) = 1 => x = s
      /\ Len(s) = 2 => x = Regions!Swap(s, 1, 1)
  BY <1>2, CutSort
<1>4. x \in Seq(Rg) /\ \A k \in 1 .. Len(x) : x[k] \in Rg
  BY <1>3, ElementOfSeq DEF Cut
<1>5. CASE Len(s) = 1
  <2>1. z = <<x[1]>> /\ x[1] \in Rg
    BY <1>2, <1>3, <1>4, <1>5, CutMergeAll
  <2>2. Len(z) = 1 /\ z[1] = x[1]
    BY <2>1
  <2>3. x[1].block_start + x[1].block_len # x[1].block_start
    BY <2>1 DEF Rg
  <2>4. QED BY <2>2, <2>3
<1>6. CASE Len(s) = 2
  <2>1. z = Regions!Merge(<<x[1]>>, x[2])
    BY <1>2, <1>3, <1>6, CutMergeAll
  <2>2. x[1] \in Rg /\ x[2] \in Rg /\ s[1] \in Rg /\ s[2] \in Rg
    BY <1>1, <1>3, <1>4, <1>6
  <2>3. x[1].block_start <= x[2].block_start
    <3>1. x = IF s[1].block_start > s[2].block_start THEN [s EXCEPT ![1] = s[2], ![2] = s[1]] ELSE s
      BY <1>3, <1>6 DEF Regions!Swap
    <3>2. s[1].block_start \in Nat /\ s[2].block_start \in Nat
      BY <2>2 DEF Rg
    <3>3. CASE s[1].block_start > s[2].block_start
      <4>1. s \in [1 .. 2 -> Rg]
        BY <1>1, <1>6, LenProperties
      <4>2. x[1] = s[2] /\ x[2] = s[1]
        BY <3>1, <3>3, <4>1
      <4>3. QED BY <3>2, <3>3, <4>2
    <3>4. CASE ~(s[1].block_start > s[2].block_start)
      BY <3>1, <3>2, <3>4
    <3>5. QED BY <3>3, <3>4
  <2>4. PICK a \in Rg, b \in Rg : a = x[1] /\ b = x[2]
    BY <2>2
  <2>5. a.block_start \in Nat /\ b.block_start \in Nat /\ a.block_len \in Nat \ {0} /\ b.block_len \in Nat \ {0}
    BY DEF Rg
  <2>6. PICK m : m = <<a>>
    OBVIOUS
  <2>7. m \in Seq(Rg) /\ Len(m) = 1 /\ m[1] = a /\ m \in [1 .. 1 -> Rg]
    BY <2>6
  <2>8. z = IF a.block_start + a.block_len = b.block_start
            THEN [m EXCEPT ![1].block_len = @ + b.block_len] ELSE Append(m, b)
    BY <2>1, <2>4, <2>6, <2>7 DEF Regions!Merge
  <2>9. CASE a.block_start + a.block_len = b.block_start
    <3>1. PICK d : d = [a EXCEPT !.block_len = a.block_len + b.block_len]
      OBVIOUS
    <3>2. d \in Rg /\ d.block_start = a.block_start /\ d.block_len = a.block_len + b.block_len
      BY <3>1 DEF Rg
    <3>3. z = [m EXCEPT ![1] = d]
      BY <2>7, <2>8, <2>9, <3>1
    <3>4. z \in [1 .. 1 -> Rg] /\ z[1] = d
      BY <2>7, <3>2, <3>3
    <3>5. Len(z) = 1
      BY <3>4, FunctionSeq
    <3>6. QED BY <2>5, <3>2, <3>4, <3>5
  <2>10. CASE a.block_start + a.block_len # b.block_start
    <3>1. z = Append(m, b)
      BY <2>8, <2>10
    <3>2. Len(z) = 2 /\ z[1] = a /\ z[2] = b
      <4>1. z = Append(<<a>>, b)
        BY <2>6, <3>1
      <4>2. QED BY <4>1
    <3>3. a.block_start <= b.block_start
      BY <2>3, <2>4
    <3>4. /\ a.block_start + a.block_len # a.block_start /\ b.block_start + b.block_len # b.block_start
          /\ b.block_start + b.block_len # a.block_start
      <4>1. PICK u \in Nat, v \in Nat, w \in Nat \ {0}, y \in Nat \ {0} :
                u = a.block_start /\ v = b.block_start /\ w = a.block_len /\ y = b.block_len
        BY <2>5
      <4>2. u <= v
        BY <3>3, <4>1
      <4>3. u + w # u /\ v + y # v /\ v + y # u
        BY <4>2
      <4>4. QED BY <4>1, <4>3
    <3>5. \A k \in 1 .. 2 : k = 1 \/ k = 2
      OBVIOUS
    <3>6. QED BY <2>10, <3>2, <3>4, <3>5
  <2>11. QED BY <2>9, <2>10
<1>7. QED BY <1>5, <1>6

LEMMA RegionsMerged ==
    ASSUME RegionInv, Regions!defragment
    PROVE  RegionInv'
<1>1. PICK s, F : s = free_regions /\ F = free
  OBVIOUS
<1>2. s \in Seq(Rg) /\ Cut(s, F) /\ F \subseteq Regions!Blocks /\ s # <<>>
  BY <1>1 DEF RegionInv, Cut, Regions!defragment
<1>3. Len(s) \in Nat /\ Len(s) >= 1
  BY <1>2
<1>4. PICK x : x = Regions!Sort(s)
  OBVIOUS
<1>5. Cut(x, F) /\ Len(x) >= 1
  BY <1>2, <1>3, <1>4, CutSort
<1>6. PICK z : z = Regions!MergeAll(x)
  OBVIOUS
<1>7. Cut(z, F)
  BY <1>5, <1>6, CutMergeAll
<1>8. /\ free_regions' = z /\ tidied' = Len(s) /\ free' = F
      /\ used_space' = used_space /\ largest_free_block' = largest_free_block /\ measured' = measured
  BY <1>1, <1>4, <1>6 DEF Regions!defragment
<1>9. Len(s) \in {1, 2} => \A j, k \in 1 .. Len(z) : z[j].block_start + z[j].block_len # z[k].block_start
  BY <1>2, <1>4, <1>6, RegionsTidied
<1>10. (Cut(free_regions, free))' /\ (Regions!Blocks)' = Regions!Blocks
  BY <1>7, <1>8 DEF Regions!Blocks
<1>11. measured' => /\ used_space' = REGION_BLOCKS - Cardinality(free')
                    /\ \E b \in Regions!Blocks : b .. b + largest_free_block' - 1 \subseteq free'
  BY <1>1, <1>8 DEF RegionInv
<1>12. QED BY <1>2, <1>8, <1>9, <1>10, <1>11 DEF RegionInv

LEMMA RegionsStep == RegionInv /\ Regions!Next => RegionInv'
BY RegionsTake, RegionsGiveBack, RegionsMeasured, RegionsMerged DEF Regions!Next

LEMMA RegionsEnd == RegionInv => Regions!RegionsKept
<1> SUFFICES ASSUME RegionInv PROVE Regions!RegionsKept
  OBVIOUS
<1>1. PICK N \in Nat : N = Len(free_regions)
  BY LenProperties DEF RegionInv, Cut
<1>2. Cut(free_regions, free) /\ free_regions \in Seq(Rg)
  BY DEF RegionInv, Cut
<1>3. Regions!Range(free_regions) = {free_regions[k] : k \in 1 .. N}
  BY <1>1, <1>2, LenProperties DEF Regions!Range
<1>4. UNION {Regions!BlocksOf(r) : r \in Regions!Range(free_regions)} = free
  <2>1. free = UNION {Regions!BlocksOf(free_regions[k]) : k \in 1 .. N}
    BY <1>1, <1>2 DEF Cut
  <2>2. QED BY <1>3, <2>1
<1>5. Regions!TotalLen(free_regions) = Cardinality(free)
  BY <1>2, CutTotal
<1>6. tidied \in {1, 2} => \A r, s \in Regions!Range(free_regions) : r.block_start + r.block_len # s.block_start
  BY <1>1, <1>3 DEF RegionInv
<1>7. measured => /\ used_space = REGION_BLOCKS - Cardinality(free)
                  /\ \E b \in Regions!Blocks : b .. b + largest_free_block - 1 \subseteq free
  BY DEF RegionInv
<1>8. QED BY <1>4, <1>5, <1>6, <1>7, RegionsCardinality DEF Regions!RegionsKept

-----------------------------------------------------------------------------
(* The allocators of d27 that only give blocks out *)

Members(x) == {x[k] : k \in 1 .. Len(x)}
Owned(fs) == UNION {Members(fs[f]) : f \in 1 .. Len(fs)}
Distinct(x) == \A j, k \in 1 .. Len(x) : x[j] = x[k] => j = k

\* No block is twice in the files fs, and none of M is in them.
Apart(fs, M) ==
    /\ fs \in Seq(Seq(Int))
    /\ \A f \in 1 .. Len(fs) : Distinct(fs[f])
    /\ \A f, g \in 1 .. Len(fs) : f # g => Members(fs[f]) \cap Members(fs[g]) = {}
    /\ Owned(fs) \subseteq Allocators!Blocks \ M

\* The files fs are runs, each the first one that the earlier ones and M left.
FirstFit(fs, M) ==
    \A f \in 1 .. Len(fs) :
        /\ \A k \in 1 .. Len(fs[f]) - 1 : fs[f][k + 1] = fs[f][k] + 1
        /\ \A s \in 0 .. fs[f][1] - 1 :
              Allocators!RunAt(s, Len(fs[f])) \cap (M \cup UNION {Members(fs[g]) : g \in 1 .. f - 1}) # {}

\* Each file of fs is the chain next of its first block.
Chained(fs, next) ==
    /\ next \in [Allocators!Blocks -> Int]
    /\ \A f \in 1 .. Len(fs) :
        /\ Len(fs[f]) >= 1
        /\ \A k \in 1 .. Len(fs[f]) : next[fs[f][k]] = IF k = Len(fs[f]) THEN -1 ELSE fs[f][k + 1]

\* The stack methods give out the blocks from the last one down.
BlocksInv ==
    /\ Apart(files, marked) /\ marked \subseteq Allocators!Blocks
    /\ \/ /\ method \in {"contiguous", "extent"}
          /\ disk_blocks = marked \cup Owned(files)
          /\ free_blocks = BLOCKS - Cardinality(Owned(files))
          /\ FirstFit(files, marked)
       \/ /\ method \in {"linked", "indexed", "dynamic"} /\ marked = {}
          /\ free_list = Allocators!AllBlocks /\ free_blocks \in 0 .. BLOCKS
          /\ Owned(files) = free_blocks .. BLOCKS - 1
          /\ method = "linked" => Chained(files, next_block)
       \/ /\ method = "sub" /\ marked = {} /\ disk_blocks = Owned(files)
          /\ free_sub_blocks \in [Allocators!Groups -> Int]
          /\ \A g \in Allocators!Groups :
                free_sub_blocks[g] = GROUP - Cardinality({b \in Owned(files) : Allocators!Group(b) = g})

LEMMA BlocksCardinality == \A S : Allocators!Cardinality(S) = Cardinality(S)
BY DEF Allocators!Cardinality, Cardinality

LEMMA BlocksFacts ==
    /\ BLOCKS \in Nat /\ GROUP \in Nat \ {0} /\ REQUESTS \subseteq Nat
    /\ Allocators!Blocks = 0 .. BLOCKS - 1
    /\ IsFiniteSet(Allocators!Blocks) /\ Cardinality(Allocators!Blocks) = BLOCKS
<1>1. BLOCKS \in Nat /\ GROUP \in Nat \ {0} /\ REQUESTS \subseteq Nat
  BY SystemAssumption
<1>2. Allocators!Blocks = 0 .. BLOCKS - 1
  BY DEF Allocators!Blocks
<1>3. IsFiniteSet(0 .. BLOCKS - 1) /\ Cardinality(0 .. BLOCKS - 1) = IF 0 > BLOCKS - 1 THEN 0 ELSE (BLOCKS - 1) - 0 + 1
  BY <1>1, FS_Interval
<1>4. QED BY <1>1, <1>2, <1>3

LEMMA ApartNone ==
    ASSUME NEW M
    PROVE  Apart(<<>>, M) /\ Owned(<<>>) = {} /\ Len(<<>>) = 0
<1>1. <<>> \in Seq(Seq(Int)) /\ Len(<<>>) = 0
  BY EmptySeq
<1>2. 1 .. 0 = {}
  OBVIOUS
<1>3. Owned(<<>>) = {}
  BY <1>1, <1>2 DEF Owned
<1>4. QED BY <1>1, <1>2, <1>3 DEF Apart

\* The blocks of x may become a file beside the files fs.
MayGive(x, fs, M) ==
    /\ x \in Seq(Int) /\ Distinct(x)
    /\ Members(x) \subseteq Allocators!Blocks \ M /\ Members(x) \cap Owned(fs) = {}

Added(z, fs, x) ==
    /\ z \in Seq(Seq(Int)) /\ Len(z) = Len(fs) + 1 /\ z[Len(fs) + 1] = x
    /\ \A f \in 1 .. Len(fs) : z[f] = fs[f]

LEMMA ApartAdded ==
    ASSUME NEW fs, NEW M, Apart(fs, M), NEW x \in Seq(Int)
    PROVE  Added(Append(fs, x), fs, x)
<1>1. fs \in Seq(Seq(Int))
  BY DEF Apart
<1>2. QED BY <1>1 DEF Added

LEMMA ApartAppend ==
    ASSUME NEW fs, NEW M, Apart(fs, M), NEW x, MayGive(x, fs, M), NEW z, Added(z, fs, x)
    PROVE  Apart(z, M) /\ Owned(z) = Owned(fs) \cup Members(x)
<1>1. PICK N \in Nat : N = Len(fs)
  BY LenProperties DEF Apart
<1>2. fs \in Seq(Seq(Int))
  BY DEF Apart
<1>3. z \in Seq(Seq(Int)) /\ Len(z) = N + 1 /\ z[N + 1] = x /\ \A f \in 1 .. N : z[f] = fs[f]
  BY <1>1, <1>2 DEF Added
<1>4. /\ \A f \in 1 .. N + 1 : f \in 1 .. N \/ f = N + 1
      /\ \A f \in 1 .. N : f \in 1 .. N + 1 /\ f # N + 1
      /\ N + 1 \in 1 .. N + 1
  OBVIOUS
<1>5. Owned(fs) = UNION {Members(fs[f]) : f \in 1 .. N}
  BY <1>1 DEF Owned
<1>6. Owned(z) = UNION {Members(z[f]) : f \in 1 .. N + 1}
  BY <1>3 DEF Owned
<1>7. \A f \in 1 .. N : Members(z[f]) = Members(fs[f])
  BY <1>3
<1>8. Members(z[N + 1]) = Members(x)
  BY <1>3
<1>9. Owned(z) = Owned(fs) \cup Members(x)
  <2>1. Owned(fs) \subseteq Owned(z)
    BY <1>4, <1>5, <1>6, <1>7
  <2>2. Members(x) \subseteq Owned(z)
    BY <1>4, <1>6, <1>8
  <2>3. ASSUME NEW b \in Owned(z) PROVE b \in Owned(fs) \cup Members(x)
    <3>1. PICK f \in 1 .. N + 1 : b \in Members(z[f])
      BY <1>6
    <3>2. QED BY <1>4, <1>5, <1>7, <1>8, <3>1
  <2>4. QED BY <2>1, <2>2, <2>3
<1>10. \A f, g \in 1 .. N + 1 : f # g => Members(z[f]) \cap Members(z[g]) = {}
  <2>1. \A f, g \in 1 .. N : f # g => Members(fs[f]) \cap Members(fs[g]) = {}
    BY <1>1 DEF Apart
  <2>2. \A f \in 1 .. N : Members(fs[f]) \cap Members(x) = {}
    BY <1>5 DEF MayGive
  <2>3. QED BY <1>4, <1>7, <1>8, <2>1, <2>2
<1>11. \A f \in 1 .. N + 1 : Distinct(z[f])
  <2>1. \A f \in 1 .. N : Distinct(fs[f])
    BY <1>1 DEF Apart
  <2>2. QED BY <1>3, <1>4, <2>1 DEF MayGive
<1>12. Owned(z) \subseteq Allocators!Blocks \ M
  BY <1>9 DEF Apart, MayGive
<1>13. QED BY <1>1, <1>3, <1>9, <1>10, <1>11, <1>12 DEF Apart

LEMMA ApartGiven ==
    ASSUME NEW fs, NEW M, Apart(fs, M)
    PROVE  IsFiniteSet(Owned(fs)) /\ Cardinality(Owned(fs)) \in Nat
<1>1. Owned(fs) \in SUBSET Allocators!Blocks
  BY DEF Apart
<1>2. IsFiniteSet(Owned(fs))
  BY <1>1, BlocksFacts, FS_Subset
<1>3. QED BY <1>2, FS_CardinalityType

LEMMA BlocksStart == Allocators!Init => BlocksInv
<1> SUFFICES ASSUME Allocators!Init PROVE BlocksInv
  OBVIOUS
<1>1. files = <<>> /\ disk_blocks = marked /\ free_blocks = BLOCKS
      /\ free_sub_blocks = [g \in Allocators!Groups |-> GROUP]
      /\ next_block = [b \in Allocators!Blocks |-> -1]
  BY DEF Allocators!Init, Allocators!NoBlock
<1>2. Apart(files, marked) /\ Owned(files) = {} /\ Len(files) = 0
  BY <1>1, ApartNone
<1>3. /\ method \in {"contiguous", "extent", "linked", "indexed", "dynamic", "sub"}
      /\ marked \subseteq Allocators!Blocks
      /\ method \in {"linked", "indexed", "dynamic"} => marked = {} /\ free_list = Allocators!AllBlocks
      /\ method = "sub" => marked = {}
  BY DEF Allocators!Init, Allocators!init_contiguous_allocator, Allocators!init_extent_allocator,
         Allocators!init_linked_allocator, Allocators!init_index_allocator,
         Allocators!init_dynamic_allocator, Allocators!init_block_size_manager
<1>4. Cardinality({}) = 0 /\ BLOCKS \in Nat /\ GROUP \in Nat
  BY FS_EmptySet, BlocksFacts
<1>5. CASE method \in {"contiguous", "extent"}
  <2>1. FirstFit(files, marked)
    BY <1>2 DEF FirstFit
  <2>2. free_blocks = BLOCKS - Cardinality(Owned(files))
    <3>1. Cardinality(Owned(files)) = 0
      BY <1>2, <1>4, Zenon
    <3>2. free_blocks = BLOCKS /\ BLOCKS \in Nat
      BY <1>1, <1>4
    <3>3. QED BY <3>1, <3>2
  <2>3. QED BY <1>1, <1>2, <1>3, <1>5, <2>1, <2>2 DEF BlocksInv
<1>6. CASE method \in {"linked", "indexed", "dynamic"}
  <2>1. free_blocks \in 0 .. BLOCKS /\ Owned(files) = free_blocks .. BLOCKS - 1
    <3>1. BLOCKS \in 0 .. BLOCKS /\ BLOCKS .. BLOCKS - 1 = {}
      BY <1>4
    <3>2. QED BY <1>1, <1>2, <3>1, Zenon
  <2>2. Chained(files, next_block)
    BY <1>1, <1>2 DEF Chained
  <2>3. QED BY <1>1, <1>2, <1>3, <1>6, <2>1, <2>2 DEF BlocksInv
<1>7. CASE method = "sub"
  <2>1. \A g \in Allocators!Groups : {b \in Owned(files) : Allocators!Group(b) = g} = {}
    BY <1>2
  <2>2. free_sub_blocks \in [Allocators!Groups -> Int] /\ \A g \in Allocators!Groups : free_sub_blocks[g] = GROUP
    BY <1>1, <1>4
  <2>3. \A g \in Allocators!Groups :
            free_sub_blocks[g] = GROUP - Cardinality({b \in Owned(files) : Allocators!Group(b) = g})
    BY <1>4, <2>1, <2>2
  <2>4. QED BY <1>1, <1>2, <1>3, <1>7, <2>2, <2>3 DEF BlocksInv
<1>8. QED BY <1>3, <1>5, <1>6, <1>7

\* The first run that is long enough.
LEMMA BlocksSearch ==
    ASSUME BlocksInv, method \in {"contiguous", "extent"}, NEW c \in REQUESTS,
           Allocators!allocate_contiguous(c), UNCHANGED <<method, marked>>
    PROVE  BlocksInv'
<1>1. PICK fs, M : fs = files /\ M = marked
  OBVIOUS
<1>2. /\ Apart(fs, M) /\ M \subseteq Allocators!Blocks /\ disk_blocks = M \cup Owned(fs)
      /\ free_blocks = BLOCKS - Cardinality(Owned(fs)) /\ FirstFit(fs, M)
  BY <1>1 DEF BlocksInv
<1>3. PICK T : T = Allocators!Starts(c)
  OBVIOUS
<1>4. PICK s : s = CHOOSE b \in T : \A d \in T : b <= d
  OBVIOUS
<1>5. PICK x : x = [k \in 1 .. c |-> s + k - 1]
  OBVIOUS
<1>6. /\ T # {} /\ disk_blocks' = disk_blocks \cup Allocators!RunAt(s, c)
      /\ files' = Append(fs, x) /\ free_blocks' = free_blocks - c
  BY <1>1, <1>3, <1>4, <1>5 DEF Allocators!allocate_contiguous
<1>7. BLOCKS \in Nat /\ Allocators!Blocks = 0 .. BLOCKS - 1 /\ c \in Nat
  BY BlocksFacts
<1>8. s \in T /\ \A d \in T : s <= d
  <2>1. T \subseteq Nat
    BY <1>3, <1>7 DEF Allocators!Starts
  <2>2. \E b \in T : \A d \in T : b <= d
    BY <1>6, <2>1, LeastNatural
  <2>3. QED BY <1>4, <2>2
<1>9. s \in Nat /\ c > 0 /\ s .. s + c - 1 \subseteq Allocators!Blocks \ disk_blocks
  BY <1>3, <1>7, <1>8 DEF Allocators!Starts, Allocators!RunAt
<1>10. x \in Seq(Int) /\ Len(x) = c /\ \A k \in 1 .. c : x[k] = s + k - 1
  BY <1>5, <1>7, <1>9
<1>11. Members(x) = s .. s + c - 1
  <2>1. Members(x) = {x[k] : k \in 1 .. c}
    BY <1>10 DEF Members
  <2>2. ASSUME NEW b \in s .. s + c - 1 PROVE \E k \in 1 .. c : x[k] = b
    <3>1. b - s + 1 \in 1 .. c /\ s + (b - s + 1) - 1 = b
      BY <1>7, <1>9
    <3>2. QED BY <1>10, <3>1
  <2>3. \A k \in 1 .. c : x[k] \in s .. s + c - 1
    BY <1>7, <1>9, <1>10
  <2>4. QED BY <2>1, <2>2, <2>3
<1>12. Distinct(x)
  BY <1>7, <1>9, <1>10 DEF Distinct
<1>13. Members(x) \subseteq Allocators!Blocks \ M /\ Members(x) \cap Owned(fs) = {}
  BY <1>2, <1>9, <1>11
<1>14. PICK z : z = Append(fs, x)
  OBVIOUS
<1>15. /\ Apart(z, M) /\ Owned(z) = Owned(fs) \cup Members(x)
       /\ Len(z) = Len(fs) + 1 /\ z[Len(fs) + 1] = x /\ \A f \in 1 .. Len(fs) : z[f] = fs[f]
  <2>1. Added(z, fs, x)
    BY <1>2, <1>10, <1>14, ApartAdded
  <2>2. MayGive(x, fs, M)
    BY <1>10, <1>12, <1>13 DEF MayGive
  <2>3. Apart(z, M) /\ Owned(z) = Owned(fs) \cup Members(x)
    BY <1>2, <2>1, <2>2, ApartAppend
  <2>4. QED BY <2>1, <2>3 DEF Added
<1>16. PICK N \in Nat : N = Len(fs)
  BY <1>2, LenProperties DEF Apart
<1>17. BLOCKS - Cardinality(Owned(z)) = free_blocks - c
  <2>1. IsFiniteSet(Owned(fs)) /\ Cardinality(Owned(fs)) \in Nat
    BY <1>2, ApartGiven
  <2>2. s \in Int /\ s + c - 1 \in Int /\ ~(s > s + c - 1) /\ (s + c - 1) - s + 1 = c
    BY <1>7, <1>9
  <2>3. IsFiniteSet(s .. s + c - 1) /\ Cardinality(s .. s + c - 1) = (s + c - 1) - s + 1
    BY <2>2, FS_Interval
  <2>4. IsFiniteSet(Members(x)) /\ Cardinality(Members(x)) = c
    BY <1>11, <2>2, <2>3
  <2>5. Cardinality(Owned(fs) \cup Members(x)) =
            Cardinality(Owned(fs)) + Cardinality(Members(x)) - Cardinality(Owned(fs) \cap Members(x))
    BY <2>1, <2>4, FS_Union
  <2>6. Cardinality(Owned(fs) \cap Members(x)) = 0
    BY <1>13, FS_EmptySet
  <2>7. Cardinality(Owned(z)) = Cardinality(Owned(fs)) + c
    BY <1>7, <1>15, <2>1, <2>4, <2>5, <2>6
  <2>8. QED BY <1>2, <1>7, <2>1, <2>7
<1>18. FirstFit(z, M)
  <2>1. ASSUME NEW f \in 1 .. Len(z)
        PROVE  /\ \A k \in 1 .. Len(z[f]) - 1 : z[f][k + 1] = z[f][k] + 1
               /\ \A t \in 0 .. z[f][1] - 1 :
                      Allocators!RunAt(t, Len(z[f])) \cap (M \cup UNION {Members(z[g]) : g \in 1 .. f - 1}) # {}
    <3>1. \A g \in 1 .. f - 1 : g \in 1 .. N
      BY <1>15, <1>16
    <3>2. UNION {Members(z[g]) : g \in 1 .. f - 1} = UNION {Members(fs[g]) : g \in 1 .. f - 1}
      BY <1>15, <1>16, <3>1
    <3>3. CASE f \in 1 .. N
      <4>1. z[f] = fs[f]
        BY <1>15, <1>16, <3>3
      <4>2. QED BY <1>2, <1>16, <3>2, <3>3, <4>1 DEF FirstFit
    <3>4. CASE f = N + 1
      <4>1. z[f] = x /\ f - 1 = N
        BY <1>15, <1>16, <3>4
      <4>2. UNION {Members(fs[g]) : g \in 1 .. f - 1} = Owned(fs)
        BY <1>16, <4>1 DEF Owned
      <4>3. ASSUME NEW k \in 1 .. c - 1 PROVE x[k + 1] = x[k] + 1
        <5>1. k + 1 \in 1 .. c /\ k \in 1 .. c
          BY <1>7
        <5>2. QED BY <1>9, <1>10, <5>1
      <4>4. ASSUME NEW t \in 0 .. s - 1 PROVE Allocators!RunAt(t, c) \cap disk_blocks # {}
        <5>1. t \notin T /\ t \in Nat /\ t < s
          BY <1>8, <1>9
        <5>2. s + c - 1 \in 0 .. BLOCKS - 1
          BY <1>7, <1>9
        <5>3. t .. t + c - 1 \subseteq Allocators!Blocks /\ t \in Allocators!Blocks
          BY <1>7, <1>9, <5>1, <5>2
        <5>4. ~(t .. t + c - 1 \subseteq Allocators!Blocks \ disk_blocks)
          BY <1>3, <1>9, <5>1, <5>3 DEF Allocators!Starts, Allocators!RunAt
        <5>5. QED BY <5>3, <5>4 DEF Allocators!RunAt
      <4>5. x[1] = s /\ Len(x) = c
        BY <1>7, <1>9, <1>10
      <4>6. QED BY <1>2, <3>2, <4>1, <4>2, <4>3, <4>4, <4>5
    <3>5. QED BY <1>15, <1>16, <3>3, <3>4
  <2>2. QED BY <2>1 DEF FirstFit
<1>19. files' = z /\ marked' = M /\ method' = method /\ disk_blocks' = M \cup Owned(z)
       /\ free_blocks' = BLOCKS - Cardinality(Owned(z)) /\ (Allocators!Blocks)' = Allocators!Blocks
  BY <1>1, <1>2, <1>6, <1>11, <1>14, <1>15, <1>17 DEF Allocators!RunAt, Allocators!Blocks
<1>20. (Apart(files, marked))' /\ (FirstFit(files, marked))' /\ (Owned(files))' = Owned(z)
  BY <1>15, <1>18, <1>19
<1>21. QED BY <1>2, <1>19, <1>20 DEF BlocksInv

StackMethods == {"linked", "indexed", "dynamic"}

\* The blocks of x are the next c ones off the stack.
LEMMA StackGives ==
    ASSUME BlocksInv, method \in StackMethods, NEW c \in Nat, c <= free_blocks,
           NEW x \in Seq(Int), Len(x) = c, \A k \in 1 .. c : x[k] = free_blocks - k
    PROVE  /\ MayGive(x, files, marked)
           /\ Owned(files) \cup Members(x) = free_blocks - c .. BLOCKS - 1
           /\ free_blocks - c \in 0 .. BLOCKS
<1>1. PICK B \in Nat : B = free_blocks /\ B <= BLOCKS /\ Owned(files) = B .. BLOCKS - 1 /\ marked = {}
  BY BlocksFacts DEF BlocksInv, StackMethods
<1>2. BLOCKS \in Nat /\ Allocators!Blocks = 0 .. BLOCKS - 1
  BY BlocksFacts
<1>3. Members(x) = B - c .. B - 1
  <2>1. Members(x) = {x[k] : k \in 1 .. c}
    BY DEF Members
  <2>2. ASSUME NEW b \in B - c .. B - 1 PROVE \E k \in 1 .. c : x[k] = b
    <3>1. B - b \in 1 .. c /\ B - (B - b) = b
      OBVIOUS
    <3>2. QED BY <1>1, <3>1
  <2>3. \A k \in 1 .. c : x[k] \in B - c .. B - 1
    BY <1>1
  <2>4. Members(x) \subseteq B - c .. B - 1
    BY <2>1, <2>3
  <2>5. B - c .. B - 1 \subseteq Members(x)
    BY <2>1, <2>2
  <2>6. QED BY <2>4, <2>5
<1>4. Distinct(x)
  BY <1>1 DEF Distinct
<1>5. Members(x) \subseteq Allocators!Blocks \ marked
  BY <1>1, <1>2, <1>3
<1>6. Members(x) \cap Owned(files) = {}
  BY <1>1, <1>2, <1>3
<1>7. Owned(files) \cup Members(x) = B - c .. BLOCKS - 1 /\ B - c \in 0 .. BLOCKS
  BY <1>1, <1>2, <1>3
<1>8. QED BY <1>1, <1>4, <1>5, <1>6, <1>7 DEF MayGive

LEMMA StackFacts ==
    ASSUME BlocksInv, method \in StackMethods
    PROVE  /\ Apart(files, marked) /\ marked = {} /\ free_list = Allocators!AllBlocks
           /\ free_blocks \in 0 .. BLOCKS /\ Owned(files) = free_blocks .. BLOCKS - 1
           /\ method = "linked" => Chained(files, next_block)
BY DEF BlocksInv, StackMethods

LEMMA BlocksDynamic ==
    ASSUME BlocksInv, method = "dynamic", NEW c \in REQUESTS, Allocators!allocate_blocks(c),
           UNCHANGED <<method, marked>>
    PROVE  BlocksInv'
<1>1. method \in StackMethods
  BY DEF StackMethods
<1>2. /\ Apart(files, marked) /\ marked = {} /\ free_list = Allocators!AllBlocks
      /\ free_blocks \in 0 .. BLOCKS /\ Owned(files) = free_blocks .. BLOCKS - 1
  BY <1>1, StackFacts
<1>3. BLOCKS \in Nat /\ c \in Nat
  BY BlocksFacts
<1>4. PICK B \in Nat : B = free_blocks /\ B <= BLOCKS
  BY <1>2, <1>3
<1>5. c <= B
  BY <1>4 DEF Allocators!allocate_blocks
<1>7. PICK x : x = [k \in 1 .. c |-> free_list[B - k + 1]]
  OBVIOUS
<1>8. files' = Append(files, x) /\ free_blocks' = B - c /\ free_list' = free_list
  BY <1>4, <1>7 DEF Allocators!allocate_blocks
<1>9. free_list \in [1 .. BLOCKS -> Int] /\ \A k \in 1 .. BLOCKS : free_list[k] = k - 1
  BY <1>2, <1>3 DEF Allocators!AllBlocks
<1>12. ASSUME NEW k \in 1 .. c PROVE x[k] = B - k
  <2>1. B - k + 1 \in 1 .. BLOCKS /\ (B - k + 1) - 1 = B - k
    BY <1>3, <1>4, <1>5
  <2>2. QED BY <1>7, <1>9, <2>1
<1>13. x \in Seq(Int) /\ Len(x) = c
  <2>1. x \in [1 .. c -> Int]
    BY <1>3, <1>4, <1>7, <1>12
  <2>2. QED BY <1>3, <2>1
<1>14. /\ MayGive(x, files, marked)
       /\ Owned(files) \cup Members(x) = free_blocks - c .. BLOCKS - 1
       /\ free_blocks - c \in 0 .. BLOCKS
  BY <1>1, <1>3, <1>4, <1>5, <1>12, <1>13, StackGives
<1>15. PICK z : z = Append(files, x)
  OBVIOUS
<1>16. Added(z, files, x)
  BY <1>2, <1>13, <1>15, ApartAdded
<1>17. Apart(z, marked) /\ Owned(z) = Owned(files) \cup Members(x)
  BY <1>2, <1>14, <1>16, ApartAppend
<1>18. files' = z /\ marked' = marked /\ (Allocators!AllBlocks)' = Allocators!AllBlocks
       /\ (Allocators!Blocks)' = Allocators!Blocks
  BY <1>8, <1>15 DEF Allocators!AllBlocks, Allocators!Blocks
<1>19. (Apart(files, marked))' /\ (Owned(files))' = Owned(z)
  BY <1>17, <1>18
<1>20. QED BY <1>2, <1>4, <1>8, <1>14, <1>17, <1>18, <1>19 DEF BlocksInv

\* The block on top of the stack.
LEMMA StackTop ==
    ASSUME BlocksInv, method \in StackMethods, free_blocks # 0
    PROVE  /\ Allocators!NewBlock = free_blocks - 1 /\ free_blocks - 1 \in Allocators!Blocks
           /\ free_blocks - 1 \in 0 .. BLOCKS /\ free_blocks - 1 \notin Owned(files)
           /\ MayGive(<<free_blocks - 1>>, files, marked)
           /\ Members(<<free_blocks - 1>>) = {free_blocks - 1}
           /\ Owned(files) \cup {free_blocks - 1} = free_blocks - 1 .. BLOCKS - 1
<1>1. /\ free_list = Allocators!AllBlocks
      /\ free_blocks \in 0 .. BLOCKS /\ Owned(files) = free_blocks .. BLOCKS - 1
  BY StackFacts
<1>2. BLOCKS \in Nat /\ Allocators!Blocks = 0 .. BLOCKS - 1
  BY BlocksFacts
<1>3. PICK B \in Nat : B = free_blocks /\ B <= BLOCKS /\ B >= 1
  BY <1>1, <1>2
<1>4. Allocators!NewBlock = B - 1 /\ B - 1 \in Allocators!Blocks /\ B - 1 \in 0 .. BLOCKS
  BY <1>1, <1>2, <1>3 DEF Allocators!NewBlock, Allocators!AllBlocks
<1>5. PICK x : x = <<B - 1>>
  OBVIOUS
<1>6. x \in Seq(Int) /\ Len(x) = 1 /\ x[1] = B - 1
  BY <1>5
<1>7. \A k \in 1 .. 1 : x[k] = free_blocks - k
  BY <1>3, <1>6
<1>8. MayGive(x, files, marked) /\ Owned(files) \cup Members(x) = free_blocks - 1 .. BLOCKS - 1
  BY <1>3, <1>6, <1>7, StackGives
<1>9. Members(x) = {B - 1}
  <2>1. 1 .. 1 = {1}
    OBVIOUS
  <2>2. QED BY <1>6, <2>1 DEF Members
<1>10. B - 1 \notin Owned(files)
  BY <1>8, <1>9 DEF MayGive
<1>11. QED BY <1>3, <1>4, <1>5, <1>8, <1>9, <1>10

LEMMA BlocksIndexed ==
    ASSUME BlocksInv, method = "indexed", Allocators!create_indexed_file, UNCHANGED <<method, marked>>
    PROVE  BlocksInv'
<1>1. method \in StackMethods /\ free_blocks # 0
  BY DEF StackMethods, Allocators!create_indexed_file
<1>2. /\ Apart(files, marked) /\ marked = {} /\ free_list = Allocators!AllBlocks
  BY <1>1, StackFacts
<1>3. PICK b : b = free_blocks - 1
  OBVIOUS
<1>4. /\ Allocators!NewBlock = b /\ b \in 0 .. BLOCKS /\ MayGive(<<b>>, files, marked)
      /\ Members(<<b>>) = {b} /\ Owned(files) \cup {b} = b .. BLOCKS - 1
  BY <1>1, <1>3, StackTop
<1>5. PICK x : x = <<b>>
  OBVIOUS
<1>6. x \in Seq(Int)
  BY <1>4, <1>5 DEF MayGive
<1>7. files' = Append(files, x) /\ free_blocks' = b /\ free_list' = free_list
  BY <1>3, <1>4, <1>5 DEF Allocators!create_indexed_file
<1>8. PICK z : z = Append(files, x)
  OBVIOUS
<1>9. Added(z, files, x)
  BY <1>2, <1>6, <1>8, ApartAdded
<1>10. Apart(z, marked) /\ Owned(z) = b .. BLOCKS - 1
  <2>1. Apart(z, marked) /\ Owned(z) = Owned(files) \cup Members(x)
    BY <1>2, <1>4, <1>5, <1>9, ApartAppend
  <2>2. QED BY <1>4, <1>5, <2>1
<1>11. files' = z /\ marked' = marked /\ (Allocators!AllBlocks)' = Allocators!AllBlocks
       /\ (Allocators!Blocks)' = Allocators!Blocks
  BY <1>7, <1>8 DEF Allocators!AllBlocks, Allocators!Blocks
<1>12. (Apart(files, marked))' /\ (Owned(files))' = Owned(z)
  BY <1>10, <1>11
<1>13. QED BY <1>2, <1>4, <1>7, <1>10, <1>11, <1>12 DEF BlocksInv

\* The file f grows by the block b.
Grown(z, fs, f, b) == z = [g \in 1 .. Len(fs) |-> IF g = f THEN Append(fs[f], b) ELSE fs[g]]

LEMMA ApartGrows ==
    ASSUME NEW fs, NEW M, Apart(fs, M), NEW b \in Allocators!Blocks \ M, b \notin Owned(fs),
           NEW f \in 1 .. Len(fs), NEW z, Grown(z, fs, f, b)
    PROVE  /\ Apart(z, M) /\ Owned(z) = Owned(fs) \cup {b} /\ Len(z) = Len(fs)
           /\ z[f] \in Seq(Int) /\ Len(z[f]) = Len(fs[f]) + 1 /\ z[f][Len(fs[f]) + 1] = b
           /\ \A k \in 1 .. Len(fs[f]) : z[f][k] = fs[f][k]
<1>0. PICK y : y = Append(fs[f], b)
  OBVIOUS
<1>1. PICK N \in Nat : N = Len(fs)
  BY LenProperties DEF Apart
<1>2. fs \in [1 .. N -> Seq(Int)]
  BY <1>1, LenProperties DEF Apart
<1>3. PICK x \in Seq(Int) : x = fs[f]
  BY <1>1, <1>2
<1>4. PICK L \in Nat : L = Len(x)
  BY LenProperties
<1>5. b \in Int
  BY BlocksFacts
<1>6. y \in Seq(Int) /\ Len(y) = L + 1 /\ y[L + 1] = b /\ \A k \in 1 .. L : y[k] = x[k]
  BY <1>0, <1>3, <1>4, <1>5
<1>7. /\ \A k \in 1 .. L + 1 : k \in 1 .. L \/ k = L + 1
      /\ \A k \in 1 .. L : k \in 1 .. L + 1 /\ k # L + 1
      /\ L + 1 \in 1 .. L + 1
  OBVIOUS
<1>8. Members(y) = Members(x) \cup {b}
  <2>1. Members(y) = {y[k] : k \in 1 .. L + 1} /\ Members(x) = {x[k] : k \in 1 .. L}
    BY <1>4, <1>6 DEF Members
  <2>2. Members(x) \subseteq Members(y) /\ b \in Members(y)
    BY <1>6, <1>7, <2>1
  <2>3. Members(y) \subseteq Members(x) \cup {b}
    BY <1>6, <1>7, <2>1
  <2>4. QED BY <2>2, <2>3
<1>9. Owned(fs) = UNION {Members(fs[g]) : g \in 1 .. N}
  BY <1>1 DEF Owned
<1>10. b \notin Members(x)
  BY <1>1, <1>3, <1>9
<1>11. Distinct(y)
  <2>1. \A j, k \in 1 .. L : x[j] = x[k] => j = k
    BY <1>3, <1>4 DEF Apart, Distinct
  <2>2. \A k \in 1 .. L : x[k] # b
    BY <1>4, <1>10 DEF Members
  <2>3. \A j, k \in 1 .. L + 1 : y[j] = y[k] => j = k
    BY <1>6, <1>7, <2>1, <2>2
  <2>4. QED BY <1>6, <2>3 DEF Distinct
<1>12. z \in [1 .. N -> Seq(Int)] /\ z[f] = y /\ \A g \in 1 .. N : g # f => z[g] = fs[g]
  <2>1. z = [g \in 1 .. N |-> IF g = f THEN y ELSE fs[g]]
    BY <1>0, <1>1 DEF Grown
  <2>2. QED BY <1>1, <1>2, <1>6, <2>1
<1>13. z \in Seq(Seq(Int)) /\ Len(z) = N
  BY <1>12
<1>14. \A g \in 1 .. N : Distinct(z[g])
  BY <1>1, <1>11, <1>12 DEF Apart
<1>15. \A g \in 1 .. N : g # f => Members(z[g]) = Members(fs[g])
  BY <1>12
<1>16. Members(z[f]) = Members(fs[f]) \cup {b}
  BY <1>3, <1>8, <1>12
<1>17. \A g \in 1 .. N : b \notin Members(fs[g])
  BY <1>9
<1>18. \A g, h \in 1 .. N : g # h => Members(fs[g]) \cap Members(fs[h]) = {}
  BY <1>1 DEF Apart
<1>19. ASSUME NEW g \in 1 .. N, NEW h \in 1 .. N, g # h PROVE Members(z[g]) \cap Members(z[h]) = {}
  <2>1. Members(fs[g]) \cap Members(fs[h]) = {}
    BY <1>18, <1>19
  <2>2. CASE g = f
    BY <1>15, <1>16, <1>17, <1>19, <2>1, <2>2
  <2>3. CASE h = f
    BY <1>15, <1>16, <1>17, <1>19, <2>1, <2>3
  <2>4. CASE g # f /\ h # f
    BY <1>15, <2>1, <2>4
  <2>5. QED BY <2>2, <2>3, <2>4
<1>20. Owned(z) = UNION {Members(z[g]) : g \in 1 .. N}
  BY <1>13 DEF Owned
<1>21. Owned(z) = Owned(fs) \cup {b}
  <2>1. \A g \in 1 .. N : Members(fs[g]) \subseteq Members(z[g]) /\ Members(z[g]) \subseteq Members(fs[g]) \cup {b}
    BY <1>15, <1>16
  <2>2. b \in Owned(z)
    BY <1>1, <1>16, <1>20
  <2>3. ASSUME NEW c \in Owned(fs) PROVE c \in Owned(z)
    <3>1. PICK g \in 1 .. N : c \in Members(fs[g])
      BY <1>9
    <3>2. c \in Members(z[g])
      BY <2>1, <3>1
    <3>3. QED BY <1>20, <3>2
  <2>4. ASSUME NEW c \in Owned(z) PROVE c \in Owned(fs) \cup {b}
    <3>1. PICK g \in 1 .. N : c \in Members(z[g])
      BY <1>20
    <3>2. c \in Members(fs[g]) \cup {b}
      BY <2>1, <3>1
    <3>3. QED BY <1>9, <3>2
  <2>5. QED BY <2>2, <2>3, <2>4
<1>22. Owned(z) \subseteq Allocators!Blocks \ M
  BY <1>21 DEF Apart
<1>23. Apart(z, M)
  BY <1>13, <1>14, <1>19, <1>22 DEF Apart
<1>24. QED BY <1>1, <1>3, <1>4, <1>6, <1>12, <1>13, <1>21, <1>23

LEMMA BlocksLinked ==
    ASSUME BlocksInv, method = "linked", UNCHANGED <<method, marked>>,
           NEW p \in {Allocators!NoBlock} \cup {Allocators!LastBlock(f) : f \in DOMAIN files},
           Allocators!allocate_linked_block(p)
    PROVE  BlocksInv'
<1>1. method \in StackMethods /\ free_blocks # 0
  BY DEF StackMethods, Allocators!allocate_linked_block
<1>2. PICK fs, next : fs = files /\ next = next_block
  OBVIOUS
<1>3. /\ Apart(fs, marked) /\ marked = {} /\ free_list = Allocators!AllBlocks /\ Chained(fs, next)
  BY <1>1, <1>2, StackFacts
<1>4. PICK b : b = free_blocks - 1
  OBVIOUS
<1>5. /\ Allocators!NewBlock = b /\ b \in 0 .. BLOCKS /\ MayGive(<<b>>, fs, marked) /\ b \notin Owned(fs)
      /\ Members(<<b>>) = {b} /\ Owned(fs) \cup {b} = b .. BLOCKS - 1 /\ b \in Allocators!Blocks
  BY <1>1, <1>2, <1>4, StackTop
<1>6. PICK N \in Nat : N = Len(fs)
  BY <1>3, LenProperties DEF Apart
<1>7. fs \in [1 .. N -> Seq(Int)] /\ DOMAIN fs = 1 .. N
  BY <1>3, <1>6, LenProperties DEF Apart
<1>8. BLOCKS \in Nat /\ Allocators!Blocks = 0 .. BLOCKS - 1
  BY BlocksFacts
<1>9. PICK after : after = [c \in Allocators!Blocks |-> CASE c = b -> -1 [] c = p -> b [] OTHER -> next[c]]
  OBVIOUS
<1>10. next_block' = after /\ free_blocks' = b /\ free_list' = free_list
  BY <1>2, <1>4, <1>5, <1>9 DEF Allocators!allocate_linked_block, Allocators!NoBlock
<1>12. \A f \in 1 .. N : \A k \in 1 .. Len(fs[f]) :
            fs[f][k] \in Members(fs[f]) /\ fs[f][k] \in Owned(fs) /\ fs[f][k] \in Allocators!Blocks /\ fs[f][k] # b
  <2>1. \A f \in 1 .. N : Members(fs[f]) \subseteq Owned(fs)
    BY <1>6 DEF Owned
  <2>2. \A f \in 1 .. N : \A k \in 1 .. Len(fs[f]) : fs[f][k] \in Members(fs[f])
    BY DEF Members
  <2>3. Owned(fs) \subseteq Allocators!Blocks
    BY <1>3 DEF Apart
  <2>4. QED BY <1>5, <2>1, <2>2, <2>3
<1>13. \A f \in 1 .. N : /\ Len(fs[f]) \in Nat /\ Len(fs[f]) >= 1
                         /\ \A k \in 1 .. Len(fs[f]) : next[fs[f][k]] = IF k = Len(fs[f]) THEN -1 ELSE fs[f][k + 1]
  <2>1. \A f \in 1 .. N : Len(fs[f]) \in Nat
    BY <1>7, LenProperties
  <2>2. QED BY <1>3, <1>6, <2>1 DEF Chained
<1>11. /\ after \in [Allocators!Blocks -> Int] /\ after[b] = -1
       /\ (p \in Allocators!Blocks /\ p # b) => after[p] = b
       /\ \A c \in Allocators!Blocks : c # b /\ c # p => after[c] = next[c]
  <2>0. p # b
    <3>1. CASE p = Allocators!NoBlock
      BY <1>5, <1>8, <3>1 DEF Allocators!NoBlock
    <3>2. CASE p # Allocators!NoBlock
      <4>1. PICK f \in 1 .. N : p = fs[f][Len(fs[f])]
        BY <1>2, <1>7, <3>2 DEF Allocators!LastBlock
      <4>2. Len(fs[f]) \in 1 .. Len(fs[f])
        BY <1>13
      <4>3. QED BY <1>12, <4>1, <4>2
    <3>3. QED BY <3>1, <3>2
  <2>1. next \in [Allocators!Blocks -> Int] /\ b \in Int
    BY <1>3, <1>5, <1>8 DEF Chained
  <2>2. \A c \in Allocators!Blocks : after[c] = IF c = b THEN -1 ELSE IF c = p THEN b ELSE next[c]
    BY <1>9, <2>0
  <2>3. after = [c \in Allocators!Blocks |-> after[c]]
    BY <1>9
  <2>4. \A c \in Allocators!Blocks : after[c] \in Int
    BY <2>1, <2>2
  <2>5. after \in [Allocators!Blocks -> Int]
    BY <2>3, <2>4
  <2>6. QED BY <1>5, <2>2, <2>5
<1>14. PICK z : z = files'
  OBVIOUS
<1>15. Apart(z, marked) /\ Owned(z) = Owned(fs) \cup {b} /\ Chained(z, after)
  <2>1. CASE p = -1
    <3>1. PICK x : x = <<b>>
      OBVIOUS
    <3>2. x \in Seq(Int) /\ Len(x) = 1 /\ x[1] = b
      BY <1>5, <1>8, <3>1
    <3>3. z = Append(fs, x)
      BY <1>2, <1>5, <1>14, <2>1, <3>1 DEF Allocators!allocate_linked_block, Allocators!NoBlock
    <3>4. Added(z, fs, x)
      BY <1>3, <3>2, <3>3, ApartAdded
    <3>5. Apart(z, marked) /\ Owned(z) = Owned(fs) \cup {b}
      BY <1>3, <1>5, <3>1, <3>4, ApartAppend
    <3>6. Len(z) = N + 1 /\ z[N + 1] = x /\ \A f \in 1 .. N : z[f] = fs[f]
      BY <1>6, <3>4 DEF Added
    <3>7. ASSUME NEW f \in 1 .. N + 1
          PROVE  /\ Len(z[f]) >= 1
                 /\ \A k \in 1 .. Len(z[f]) : after[z[f][k]] = IF k = Len(z[f]) THEN -1 ELSE z[f][k + 1]
      <4>1. CASE f = N + 1
        <5>1. Len(z[f]) = 1 /\ z[f][1] = b
          BY <3>2, <3>6, <4>1
        <5>2. \A k \in 1 .. 1 : k = 1
          OBVIOUS
        <5>3. QED BY <1>11, <5>1, <5>2
      <4>2. CASE f \in 1 .. N
        <5>1. \A c \in Allocators!Blocks : c # b => after[c] = next[c]
          BY <1>8, <1>11, <2>1
        <5>2. \A k \in 1 .. Len(fs[f]) : after[fs[f][k]] = next[fs[f][k]]
          BY <1>12, <4>2, <5>1
        <5>3. QED BY <1>13, <3>6, <4>2, <5>2
      <4>3. QED BY <4>1, <4>2
    <3>8. QED BY <1>11, <3>5, <3>6, <3>7 DEF Chained
  <2>2. CASE p # -1
    <3>1. PICK f \in 1 .. N : p = fs[f][Len(fs[f])]
      BY <1>2, <1>7, <2>2 DEF Allocators!LastBlock, Allocators!NoBlock
    <3>2. PICK L \in Nat : L = Len(fs[f]) /\ L >= 1
      BY <1>13
    <3>3. p = fs[f][L] /\ L \in 1 .. L /\ p \in Members(fs[f]) /\ p \in Allocators!Blocks /\ p # b
      BY <1>12, <3>1, <3>2
    <3>4. PICK y : y = Append(fs[f], b)
      OBVIOUS
    <3>5. ASSUME NEW g \in 1 .. N, g # f, NEW k \in 1 .. Len(fs[g]) PROVE fs[g][k] # p
      <4>1. Members(fs[g]) \cap Members(fs[f]) = {}
        BY <1>3, <1>6, <3>5 DEF Apart
      <4>2. fs[g][k] \in Members(fs[g])
        BY <1>12
      <4>3. QED BY <3>3, <4>1, <4>2
    <3>6. z = [g \in 1 .. N |-> IF fs[g][Len(fs[g])] = p THEN Append(fs[g], b) ELSE fs[g]]
      BY <1>2, <1>5, <1>7, <1>14, <2>2 DEF Allocators!allocate_linked_block, Allocators!NoBlock, Allocators!LastBlock
    <3>7. \A g \in 1 .. N : fs[g][Len(fs[g])] = p <=> g = f
      <4>1. \A g \in 1 .. N : Len(fs[g]) \in 1 .. Len(fs[g])
        BY <1>13
      <4>2. QED BY <3>1, <3>5, <4>1
    <3>8. Grown(z, fs, f, b) /\ z[f] = y
      <4>1. z = [g \in 1 .. N |-> IF g = f THEN Append(fs[f], b) ELSE fs[g]]
        BY <3>6, <3>7
      <4>2. QED BY <1>6, <3>4, <4>1 DEF Grown
    <3>9. /\ Apart(z, marked) /\ Owned(z) = Owned(fs) \cup {b} /\ Len(z) = N
          /\ y \in Seq(Int) /\ Len(y) = L + 1 /\ y[L + 1] = b
          /\ \A k \in 1 .. L : y[k] = fs[f][k]
      <4>1. b \in Allocators!Blocks \ marked /\ f \in 1 .. Len(fs)
        BY <1>3, <1>5, <1>6
      <4>2. /\ Apart(z, marked) /\ Owned(z) = Owned(fs) \cup {b} /\ Len(z) = Len(fs)
            /\ z[f] \in Seq(Int) /\ Len(z[f]) = Len(fs[f]) + 1 /\ z[f][Len(fs[f]) + 1] = b
            /\ \A k \in 1 .. Len(fs[f]) : z[f][k] = fs[f][k]
        <5>1. Apart(fs, marked) /\ b \notin Owned(fs) /\ Grown(z, fs, f, b)
          BY <1>3, <1>5, <3>8
        <5>2. QED BY <4>1, <5>1, ApartGrows
      <4>3. QED BY <1>6, <3>2, <3>8, <4>2
    <3>10. z[f] = y /\ \A g \in 1 .. N : g # f => z[g] = fs[g]
      BY <1>6, <3>8 DEF Grown
    <3>11. ASSUME NEW g \in 1 .. N
          PROVE  /\ Len(z[g]) >= 1
                 /\ \A k \in 1 .. Len(z[g]) : after[z[g][k]] = IF k = Len(z[g]) THEN -1 ELSE z[g][k + 1]
      <4>1. CASE g = f
        <5>1. ASSUME NEW k \in 1 .. L + 1 PROVE after[y[k]] = IF k = L + 1 THEN -1 ELSE y[k + 1]
          <6>1. CASE k = L + 1
            BY <1>11, <3>9, <6>1
          <6>2. CASE k = L
            <7>1. y[k] = p /\ y[k + 1] = b /\ k # L + 1
              BY <3>2, <3>3, <3>9, <6>2
            <7>2. QED BY <1>11, <3>3, <7>1
          <6>3. CASE k \in 1 .. L /\ k # L
            <7>1. k + 1 \in 1 .. L /\ k # L + 1
              BY <6>3
            <7>2. y[k] = fs[f][k] /\ y[k + 1] = fs[f][k + 1]
              BY <3>9, <6>3, <7>1
            <7>3. Distinct(fs[f])
              BY <1>3, <1>6 DEF Apart
            <7>4. fs[f][k] # p
              BY <3>2, <3>3, <6>3, <7>3 DEF Distinct
            <7>5. after[fs[f][k]] = next[fs[f][k]]
              BY <1>11, <1>12, <3>2, <6>3, <7>4
            <7>6. QED BY <1>13, <3>2, <6>3, <7>1, <7>2, <7>5
          <6>4. QED BY <6>1, <6>2, <6>3
        <5>2. QED BY <3>9, <3>10, <4>1, <5>1
      <4>2. CASE g # f
        <5>1. \A k \in 1 .. Len(fs[g]) : after[fs[g][k]] = next[fs[g][k]]
          BY <1>11, <1>12, <3>5, <4>2
        <5>2. z[g] = fs[g]
          BY <3>10, <4>2
        <5>3. Len(fs[g]) >= 1 /\ \A k \in 1 .. Len(fs[g]) :
                    next[fs[g][k]] = IF k = Len(fs[g]) THEN -1 ELSE fs[g][k + 1]
          BY <1>13
        <5>4. \A k \in 1 .. Len(fs[g]) : after[fs[g][k]] = IF k = Len(fs[g]) THEN -1 ELSE fs[g][k + 1]
          BY <5>1, <5>3
        <5>5. QED BY <5>2, <5>3, <5>4
      <4>3. QED BY <4>1, <4>2
    <3>12. QED BY <1>11, <3>9, <3>11 DEF Chained
  <2>3. QED BY <2>1, <2>2
<1>16. files' = z /\ marked' = marked /\ (Allocators!AllBlocks)' = Allocators!AllBlocks
       /\ (Allocators!Blocks)' = Allocators!Blocks
  BY <1>14 DEF Allocators!AllBlocks, Allocators!Blocks
<1>17. (Apart(files, marked))' /\ (Owned(files))' = Owned(z) /\ (Chained(files, next_block))'
  BY <1>10, <1>15, <1>16
<1>18. QED BY <1>3, <1>5, <1>10, <1>15, <1>16, <1>17 DEF BlocksInv

LEMMA BlocksSub ==
    ASSUME BlocksInv, method = "sub", Allocators!allocate_optimal_block, UNCHANGED <<method, marked>>
    PROVE  BlocksInv'
<1>1. PICK fs, w : fs = files /\ w = free_sub_blocks
  OBVIOUS
<1>2. /\ Apart(fs, marked) /\ marked = {} /\ disk_blocks = Owned(fs)
      /\ w \in [Allocators!Groups -> Int]
      /\ \A g \in Allocators!Groups :
            w[g] = GROUP - Cardinality({b \in Owned(fs) : Allocators!Group(b) = g})
  BY <1>1 DEF BlocksInv
<1>3. PICK T : T = {b \in Allocators!Blocks \ disk_blocks : w[Allocators!Group(b)] > 0}
  OBVIOUS
<1>4. PICK s : s = CHOOSE b \in T : \A c \in T : b <= c
  OBVIOUS
<1>5. PICK x : x = <<s>>
  OBVIOUS
<1>6. /\ T # {} /\ disk_blocks' = disk_blocks \cup {s} /\ files' = Append(fs, x)
      /\ free_sub_blocks' = [w EXCEPT ![Allocators!Group(s)] = w[Allocators!Group(s)] - 1]
  BY <1>1, <1>3, <1>4, <1>5 DEF Allocators!allocate_optimal_block
<1>7. BLOCKS \in Nat /\ Allocators!Blocks = 0 .. BLOCKS - 1 /\ GROUP \in Nat
  BY BlocksFacts
<1>8. s \in T
  <2>1. T \subseteq Nat
    BY <1>3, <1>7
  <2>2. \E b \in T : \A c \in T : b <= c
    BY <1>6, <2>1, LeastNatural
  <2>3. QED BY <1>4, <2>2
<1>9. s \in Allocators!Blocks /\ s \notin Owned(fs) /\ s \in Int
  BY <1>2, <1>3, <1>7, <1>8
<1>10. x \in Seq(Int) /\ Len(x) = 1 /\ x[1] = s
  BY <1>5, <1>9
<1>11. Members(x) = {s} /\ Distinct(x)
  <2>1. 1 .. 1 = {1}
    OBVIOUS
  <2>2. QED BY <1>10, <2>1 DEF Members, Distinct
<1>12. MayGive(x, fs, marked)
  BY <1>2, <1>9, <1>10, <1>11 DEF MayGive
<1>13. PICK z : z = Append(fs, x)
  OBVIOUS
<1>14. Apart(z, marked) /\ Owned(z) = Owned(fs) \cup {s}
  <2>1. Added(z, fs, x)
    BY <1>2, <1>10, <1>13, ApartAdded
  <2>2. QED BY <1>2, <1>11, <1>12, <2>1, ApartAppend
<1>15. Allocators!Group(s) \in Allocators!Groups
  BY <1>9 DEF Allocators!Groups
<1>16. PICK y : y = free_sub_blocks'
  OBVIOUS
<1>17. /\ y \in [Allocators!Groups -> Int]
       /\ \A g \in Allocators!Groups : y[g] = IF g = Allocators!Group(s) THEN w[g] - 1 ELSE w[g]
  BY <1>2, <1>6, <1>15, <1>16
<1>18. ASSUME NEW g \in Allocators!Groups
       PROVE  y[g] = GROUP - Cardinality({b \in Owned(z) : Allocators!Group(b) = g})
  <2>1. PICK A : A = {b \in Owned(fs) : Allocators!Group(b) = g}
    OBVIOUS
  <2>2. IsFiniteSet(Owned(fs)) /\ A \in SUBSET Owned(fs) /\ s \notin A
    BY <1>2, <1>9, <2>1, ApartGiven
  <2>3. IsFiniteSet(A)
    BY <2>2, FS_Subset
  <2>4. Cardinality(A) \in Nat /\ w[g] = GROUP - Cardinality(A)
    BY <1>2, <2>1, <2>3, FS_CardinalityType
  <2>5. CASE g = Allocators!Group(s)
    <3>1. {b \in Owned(z) : Allocators!Group(b) = g} = A \cup {s}
      BY <1>14, <2>1, <2>5
    <3>2. Cardinality(A \cup {s}) = Cardinality(A) + 1
      BY <2>2, <2>3, FS_AddElement
    <3>3. y[g] = w[g] - 1
      BY <1>17, <2>5
    <3>4. Cardinality({b \in Owned(z) : Allocators!Group(b) = g}) = Cardinality(A) + 1
      BY <3>1, <3>2
    <3>5. PICK C \in Nat : C = Cardinality(A)
      BY <2>4
    <3>6. y[g] = GROUP - (C + 1)
      BY <1>7, <2>4, <3>3, <3>5
    <3>7. QED BY <3>4, <3>5, <3>6
  <2>6. CASE g # Allocators!Group(s)
    <3>1. {b \in Owned(z) : Allocators!Group(b) = g} = A
      BY <1>14, <2>1, <2>6
    <3>2. QED BY <1>17, <2>4, <2>6, <3>1
  <2>7. QED BY <2>5, <2>6
<1>19. /\ files' = z /\ marked' = marked /\ free_sub_blocks' = y /\ disk_blocks' = Owned(z)
       /\ (Allocators!Blocks)' = Allocators!Blocks /\ (Allocators!Groups)' = Allocators!Groups
  BY <1>2, <1>6, <1>13, <1>14, <1>16 DEF Allocators!Blocks, Allocators!Groups, Allocators!Group
<1>20. (Apart(files, marked))' /\ (Owned(files))' = Owned(z)
  BY <1>14, <1>19
<1>21. \A g \in Allocators!Groups :
          free_sub_blocks'[g] = GROUP - Cardinality({b \in (Owned(files))' : Allocators!Group(b) = g})
  BY <1>18, <1>19, <1>20
<1>22. QED BY <1>2, <1>17, <1>19, <1>20, <1>21 DEF BlocksInv, Allocators!Group

LEMMA BlocksStep == BlocksInv /\ Allocators!Next => BlocksInv'
<1> SUFFICES ASSUME BlocksInv, Allocators!Next PROVE BlocksInv'
  OBVIOUS
<1>1. UNCHANGED <<method, marked>>
  BY DEF Allocators!Next
<1>2. CASE \E r \in REQUESTS : method = "contiguous" /\ Allocators!allocate_contiguous(r)
  BY <1>1, <1>2, BlocksSearch
<1>3. CASE \E r \in REQUESTS : method = "extent" /\ Allocators!allocate_extent(r)
  BY <1>1, <1>3, BlocksSearch DEF Allocators!allocate_extent
<1>4. CASE \E r \in REQUESTS : method = "dynamic" /\ Allocators!allocate_blocks(r)
  BY <1>1, <1>4, BlocksDynamic
<1>5. CASE /\ method = "linked"
           /\ \E p \in {Allocators!NoBlock} \cup {Allocators!LastBlock(f) : f \in DOMAIN files} :
                Allocators!allocate_linked_block(p)
  BY <1>1, <1>5, BlocksLinked
<1>6. CASE method = "indexed" /\ Allocators!create_indexed_file
  BY <1>1, <1>6, BlocksIndexed
<1>7. CASE method = "sub" /\ Allocators!allocate_optimal_block
  BY <1>1, <1>7, BlocksSub
<1>8. QED BY <1>2, <1>3, <1>4, <1>5, <1>6, <1>7 DEF Allocators!Next

LEMMA BlocksEnd == BlocksInv => Allocators!BlocksKept
<1> SUFFICES ASSUME BlocksInv PROVE Allocators!BlocksKept
  OBVIOUS
<1>1. PICK N \in Nat : N = Len(files)
  BY LenProperties DEF BlocksInv, Apart
<1>2. Apart(files, marked) /\ files \in [1 .. N -> Seq(Int)] /\ DOMAIN files = 1 .. N
  BY <1>1, LenProperties DEF BlocksInv, Apart
<1>3. \A f \in 1 .. N : DOMAIN files[f] = 1 .. Len(files[f])
  BY <1>2, LenProperties
<1>4. \A f \in 1 .. N : Allocators!BlocksOf(f) = Members(files[f])
  BY <1>3 DEF Allocators!BlocksOf, Allocators!Range, Members
<1>5. Allocators!Given = Owned(files)
  BY <1>1, <1>2, <1>4 DEF Allocators!Given, Owned
<1>6. Allocators!GivenOnce
  <2>1. \A f \in 1 .. N : Allocators!IsInjective(files[f])
    BY <1>1, <1>2, <1>3 DEF Apart, Distinct, Allocators!IsInjective
  <2>2. \A f, g \in 1 .. N : f # g => Allocators!BlocksOf(f) \cap Allocators!BlocksOf(g) = {}
    BY <1>1, <1>2, <1>4 DEF Apart
  <2>3. Allocators!Given \cap marked = {}
    BY <1>2, <1>5 DEF Apart
  <2>4. QED BY <1>2, <2>1, <2>2, <2>3 DEF Allocators!GivenOnce
<1>7. Allocators!CountExact
  <2>1. CASE method \in {"contiguous", "extent"}
    <3>1. free_blocks = BLOCKS - Cardinality(Owned(files)) /\ method # "sub"
      BY <2>1 DEF BlocksInv
    <3>2. QED BY <1>5, <3>1, BlocksCardinality DEF Allocators!CountExact
  <2>2. CASE method \in StackMethods
    <3>1. free_blocks \in 0 .. BLOCKS /\ Owned(files) = free_blocks .. BLOCKS - 1 /\ BLOCKS \in Nat
      BY <2>2, StackFacts, BlocksFacts
    <3>2. PICK B \in Nat : B = free_blocks /\ B <= BLOCKS
      BY <3>1
    <3>3. Cardinality(B .. BLOCKS - 1) = IF B > BLOCKS - 1 THEN 0 ELSE (BLOCKS - 1) - B + 1
      BY <3>1, FS_Interval
    <3>4. Cardinality(B .. BLOCKS - 1) = BLOCKS - B
      BY <3>1, <3>2, <3>3
    <3>5. free_blocks = BLOCKS - Cardinality(Owned(files))
      BY <3>1, <3>2, <3>4
    <3>6. method # "sub"
      BY <2>2 DEF StackMethods
    <3>7. QED BY <1>5, <3>5, <3>6, BlocksCardinality DEF Allocators!CountExact
  <2>3. CASE method = "sub"
    <3>1. \A g \in Allocators!Groups :
            free_sub_blocks[g] = GROUP - Cardinality({b \in Owned(files) : Allocators!Group(b) = g})
      BY <2>3 DEF BlocksInv
    <3>2. QED BY <1>5, <2>3, <3>1, BlocksCardinality DEF Allocators!CountExact
  <2>4. QED BY <2>1, <2>2, <2>3 DEF BlocksInv, StackMethods
<1>8. Allocators!FirstRuns
  <2>1. SUFFICES ASSUME method \in {"contiguous", "extent"}, NEW f \in 1 .. N
                 PROVE  /\ \A k \in 1 .. Len(files[f]) - 1 : files[f][k + 1] = files[f][k] + 1
                        /\ \A s \in 0 .. files[f][1] - 1 :
                            Allocators!RunAt(s, Len(files[f]))
                                \cap (marked \cup UNION {Allocators!BlocksOf(g) : g \in 1 .. f - 1}) # {}
    BY <1>2 DEF Allocators!FirstRuns, Allocators!Searching
  <2>2. FirstFit(files, marked)
    BY <2>1 DEF BlocksInv
  <2>3. UNION {Allocators!BlocksOf(g) : g \in 1 .. f - 1} = UNION {Members(files[g]) : g \in 1 .. f - 1}
    <3>1. \A g \in 1 .. f - 1 : g \in 1 .. N
      OBVIOUS
    <3>2. QED BY <1>4, <3>1
  <2>4. QED BY <1>1, <2>2, <2>3 DEF FirstFit
<1>9. Allocators!ChainsExact
  <2>1. SUFFICES ASSUME method = "linked" PROVE Allocators!ChainsExact
    BY DEF Allocators!ChainsExact
  <2>2. Chained(files, next_block)
    BY <2>1 DEF BlocksInv
  <2>3. QED BY <1>1, <1>2, <1>3, <2>2 DEF Chained, Allocators!ChainsExact, Allocators!NoBlock
<1>10. QED BY <1>6, <1>7, <1>8, <1>9 DEF Allocators!BlocksKept

-----------------------------------------------------------------------------
(* The schedulers of d4 and d5 *)

\* The units of time in which p ran.
Units(r, p) == {t \in 1 .. Len(r) : r[t] = p}

\* z is the schedule r and then e units of p.
Extended(z, r, p, e) ==
    /\ z \in Seq(0 .. n) /\ Len(z) = Len(r) + e
    /\ \A t \in 1 .. Len(r) : z[t] = r[t]
    /\ \A t \in Len(r) + 1 .. Len(r) + e : z[t] = p

LEMMA UnitsFinite ==
    ASSUME NEW r \in Seq(0 .. n), NEW T, T \subseteq 1 .. Len(r)
    PROVE  IsFiniteSet(T) /\ Cardinality(T) \in Nat
<1>1. Len(r) \in Nat
  BY LenProperties
<1>2. IsFiniteSet(1 .. Len(r))
  BY <1>1, FS_Interval
<1>3. IsFiniteSet(T)
  BY <1>2, FS_Subset
<1>4. QED BY <1>3, FS_CardinalityType

LEMMA UnitsGrow ==
    ASSUME NEW r \in Seq(0 .. n), NEW e \in Nat, NEW p, NEW z, Extended(z, r, p, e)
    PROVE  /\ \A q : q # p => Units(z, q) = Units(r, q)
           /\ Units(z, p) = Units(r, p) \cup (Len(r) + 1 .. Len(r) + e)
           /\ Cardinality(Units(z, p)) = Cardinality(Units(r, p)) + e
<1>1. PICK L \in Nat : L = Len(r)
  BY LenProperties
<1>2. /\ Len(z) = L + e /\ \A t \in 1 .. L : z[t] = r[t]
      /\ \A t \in L + 1 .. L + e : z[t] = p
  BY <1>1 DEF Extended
<1>3. /\ \A t \in 1 .. L + e : t \in 1 .. L \/ t \in L + 1 .. L + e
      /\ \A t \in 1 .. L : t \in 1 .. L + e
      /\ \A t \in L + 1 .. L + e : t \in 1 .. L + e
  OBVIOUS
<1>4. \A q : Units(z, q) = {t \in 1 .. L + e : z[t] = q} /\ Units(r, q) = {t \in 1 .. L : r[t] = q}
  BY <1>1, <1>2 DEF Units
<1>5. ASSUME NEW q, q # p PROVE Units(z, q) = Units(r, q)
  <2>1. Units(z, q) = {t \in 1 .. L + e : z[t] = q} /\ Units(r, q) = {t \in 1 .. L : r[t] = q}
    BY <1>4
  <2>2. \A t \in 1 .. L + e : z[t] = q => t \in 1 .. L /\ r[t] = q
    BY <1>2, <1>3, <1>5
  <2>3. \A t \in 1 .. L : r[t] = q => t \in 1 .. L + e /\ z[t] = q
    BY <1>2, <1>3
  <2>4. QED BY <2>1, <2>2, <2>3
<1>6. Units(z, p) = Units(r, p) \cup (L + 1 .. L + e)
  BY <1>2, <1>3, <1>4
<1>7. Units(r, p) \cap (L + 1 .. L + e) = {}
  BY <1>4
<1>8. IsFiniteSet(Units(r, p)) /\ Cardinality(Units(r, p)) \in Nat
  BY UnitsFinite DEF Units
<1>9. IsFiniteSet(L + 1 .. L + e) /\ Cardinality(L + 1 .. L + e) = e
  <2>1. /\ IsFiniteSet(L + 1 .. L + e)
        /\ Cardinality(L + 1 .. L + e) = IF L + 1 > L + e THEN 0 ELSE (L + e) - (L + 1) + 1
    <3>1. L + 1 \in Int /\ L + e \in Int
      OBVIOUS
    <3>2. QED BY <3>1, FS_Interval
  <2>2. QED BY <2>1
<1>10. Cardinality(Units(r, p) \cup (L + 1 .. L + e)) =
          Cardinality(Units(r, p)) + Cardinality(L + 1 .. L + e) - Cardinality(Units(r, p) \cap (L + 1 .. L + e))
  BY <1>8, <1>9, FS_Union
<1>11. Cardinality(Units(r, p) \cap (L + 1 .. L + e)) = 0
  BY <1>7, FS_EmptySet
<1>12. Cardinality(Units(z, p)) = Cardinality(Units(r, p)) + e
  BY <1>6, <1>8, <1>9, <1>10, <1>11
<1>13. QED BY <1>1, <1>5, <1>6, <1>12

\* The last unit of a process that is done, and the times that are told of it.
Told(p) ==
    \E t \in Units(ran, p) :
        /\ \A u \in Units(ran, p) : u <= t
        /\ turnaround_time[p] = t - arrival_time[p]
        /\ waiting_time[p] = IF algo = "priority" THEN t - arrival_time[p]
                             ELSE t - burst_time[p] - arrival_time[p]

\* What the loops that run the processes keep.
SchedBase ==
    /\ algo \in {"fcfs", "sjf", "priority", "rr"}
    /\ arrival_time \in [Procs -> Nat] /\ burst_time \in [Procs -> Nat \ {0}]
    /\ priority \in [Procs -> Int] /\ remaining_time \in [Procs -> Nat]
    /\ waiting_time \in [Procs -> Int] /\ turnaround_time \in [Procs -> Int]
    /\ ran \in Seq(0 .. n) /\ current_time = Len(ran)
    /\ \A p \in Procs : Cardinality(Units(ran, p)) = burst_time[p] - remaining_time[p]
    /\ algo # "fcfs" => \A p \in Procs : remaining_time[p] = 0 => Told(p)

\* The process p runs for e units.
Ran(p, e) ==
    /\ Extended(ran', ran, p, e)
    /\ remaining_time' = [remaining_time EXCEPT ![p] = remaining_time[p] - e]
    /\ current_time' = current_time + e
    /\ IF remaining_time[p] = e
       THEN /\ turnaround_time' = [turnaround_time EXCEPT ![p] = current_time + e - arrival_time[p]]
            /\ waiting_time' = [waiting_time EXCEPT ![p] =
                    IF algo = "priority" THEN current_time + e - arrival_time[p]
                    ELSE current_time + e - burst_time[p] - arrival_time[p]]
       ELSE turnaround_time' = turnaround_time /\ waiting_time' = waiting_time

LEMMA SchedRuns ==
    ASSUME SchedBase, UNCHANGED table, NEW p \in Procs, NEW e \in Nat, e >= 1, e <= remaining_time[p],
           Ran(p, e)
    PROVE  SchedBase'
<1>1. PICK L \in Nat : L = Len(ran) /\ current_time = L
  BY LenProperties DEF SchedBase
<1>2. n \in Nat /\ p \in Nat
  BY SystemAssumption DEF Procs
<1>3. ran' \in Seq(0 .. n) /\ Len(ran') = L + e /\ ran \in Seq(0 .. n)
  BY <1>1 DEF Ran, Extended, SchedBase
<1>4. current_time' = Len(ran')
  BY <1>1, <1>3 DEF Ran
<1>5. /\ \A q : q # p => Units(ran', q) = Units(ran, q)
      /\ Units(ran', p) = Units(ran, p) \cup (L + 1 .. L + e)
      /\ Cardinality(Units(ran', p)) = Cardinality(Units(ran, p)) + e
  BY <1>1, <1>3, UnitsGrow DEF Ran
<1>6. remaining_time \in [Procs -> Nat] /\ burst_time \in [Procs -> Nat \ {0}] /\ arrival_time \in [Procs -> Nat]
      /\ waiting_time \in [Procs -> Int] /\ turnaround_time \in [Procs -> Int]
  BY DEF SchedBase
<1>7. /\ remaining_time' \in [Procs -> Nat] /\ remaining_time'[p] = remaining_time[p] - e
      /\ \A q \in Procs : q # p => remaining_time'[q] = remaining_time[q]
  BY <1>6 DEF Ran
<1>8. algo' = algo /\ arrival_time' = arrival_time /\ burst_time' = burst_time /\ priority' = priority
      /\ Procs' = Procs
  BY DEF table, Procs
<1>9. PICK x \in Int, y \in Int : /\ x = L + e - arrival_time[p]
                                  /\ y = IF algo = "priority" THEN L + e - arrival_time[p]
                                         ELSE L + e - burst_time[p] - arrival_time[p]
  <2>1. L + e - arrival_time[p] \in Int /\ L + e - burst_time[p] - arrival_time[p] \in Int
    BY <1>6
  <2>2. QED BY <2>1
<1>10. IF remaining_time[p] = e
       THEN turnaround_time' = [turnaround_time EXCEPT ![p] = x] /\ waiting_time' = [waiting_time EXCEPT ![p] = y]
       ELSE turnaround_time' = turnaround_time /\ waiting_time' = waiting_time
  BY <1>1, <1>9 DEF Ran
<1>11. /\ turnaround_time' \in [Procs -> Int] /\ waiting_time' \in [Procs -> Int]
       /\ \A q \in Procs : q # p => turnaround_time'[q] = turnaround_time[q] /\ waiting_time'[q] = waiting_time[q]
       /\ remaining_time[p] = e => turnaround_time'[p] = x /\ waiting_time'[p] = y
  BY <1>6, <1>10
<1>12. ASSUME NEW q \in Procs PROVE Cardinality(Units(ran', q)) = burst_time[q] - remaining_time'[q]
  <2>1. Cardinality(Units(ran, q)) = burst_time[q] - remaining_time[q]
    BY DEF SchedBase
  <2>2. CASE q # p
    BY <1>5, <1>7, <2>1, <2>2
  <2>3. CASE q = p
    <3>1. PICK a \in Nat, b \in Nat : a = burst_time[p] /\ b = remaining_time[p]
      BY <1>6
    <3>2. Cardinality(Units(ran', p)) = (a - b) + e
      BY <1>5, <2>1, <2>3, <3>1
    <3>3. remaining_time'[p] = b - e
      BY <1>7, <3>1
    <3>4. (a - b) + e = a - (b - e)
      OBVIOUS
    <3>5. QED BY <2>3, <3>1, <3>2, <3>3, <3>4
  <2>4. QED BY <2>2, <2>3
<1>13. ASSUME algo # "fcfs", NEW q \in Procs, remaining_time'[q] = 0 PROVE Told(q)'
  <2>1. CASE q # p
    <3>1. Told(q)
      BY <1>7, <1>13, <2>1 DEF SchedBase
    <3>2. Units(ran', q) = Units(ran, q) /\ turnaround_time'[q] = turnaround_time[q] /\ waiting_time'[q] = waiting_time[q]
      BY <1>5, <1>11, <2>1
    <3>3. (Units(ran, q))' = Units(ran', q)
      BY DEF Units
    <3>4. QED BY <1>8, <3>1, <3>2, <3>3 DEF Told
  <2>2. CASE q = p
    <3>1. remaining_time[p] = e
      <4>1. PICK b \in Nat : b = remaining_time[p]
        BY <1>6
      <4>2. b - e = 0
        BY <1>7, <1>13, <2>2, <4>1
      <4>3. QED BY <4>1, <4>2
    <3>2. L + e \in Units(ran', p) /\ \A u \in Units(ran', p) : u <= L + e
      <4>1. L + e \in L + 1 .. L + e /\ \A u \in L + 1 .. L + e : u <= L + e
        OBVIOUS
      <4>2. \A u \in Units(ran, p) : u <= L + e
        BY <1>1 DEF Units
      <4>3. QED BY <1>5, <4>1, <4>2
    <3>3. turnaround_time'[p] = (L + e) - arrival_time[p]
          /\ waiting_time'[p] = IF algo = "priority" THEN (L + e) - arrival_time[p]
                                ELSE (L + e) - burst_time[p] - arrival_time[p]
      <4>1. turnaround_time'[p] = x /\ waiting_time'[p] = y
        BY <1>11, <3>1
      <4>2. arrival_time[p] \in Int /\ burst_time[p] \in Int
        BY <1>6
      <4>3. QED BY <1>9, <4>1, <4>2
    <3>4. (Units(ran, p))' = Units(ran', p)
      BY DEF Units
    <3>5. QED BY <1>8, <2>2, <3>2, <3>3, <3>4 DEF Told
  <2>3. QED BY <2>1, <2>2
<1>14. \A q \in Procs : (Units(ran, q))' = Units(ran', q)
  BY DEF Units
<1>15. QED BY <1>3, <1>4, <1>7, <1>8, <1>11, <1>12, <1>13, <1>14 DEF SchedBase

\* Nobody runs for a unit.
LEMMA SchedIdles ==
    ASSUME SchedBase, UNCHANGED <<table, remaining_time, waiting_time, turnaround_time>>,
           Extended(ran', ran, 0, 1), current_time' = current_time + 1
    PROVE  SchedBase'
<1>1. n \in Nat /\ \A p \in Procs : p # 0
  BY SystemAssumption DEF Procs
<1>2. PICK L \in Nat : L = Len(ran) /\ current_time = L
  BY LenProperties DEF SchedBase
<1>3. ran' \in Seq(0 .. n) /\ Len(ran') = L + 1 /\ ran \in Seq(0 .. n)
  BY <1>2 DEF Extended, SchedBase
<1>4. \A p \in Procs : Units(ran', p) = Units(ran, p)
  BY <1>1, <1>3, UnitsGrow
<1>5. \A p \in Procs : (Units(ran, p))' = Units(ran, p)
  BY <1>4 DEF Units
<1>6. algo' = algo /\ arrival_time' = arrival_time /\ burst_time' = burst_time /\ priority' = priority
      /\ Procs' = Procs
  BY DEF table, Procs
<1>7. \A p \in Procs : Told(p) => Told(p)'
  BY <1>5, <1>6 DEF Told
<1>8. QED BY <1>2, <1>3, <1>5, <1>6, <1>7 DEF SchedBase

LEMMA SchedStart == Init => SchedBase
<1> SUFFICES ASSUME Init PROVE SchedBase
  OBVIOUS
<1>1. n \in Nat /\ Arrivals \subseteq Nat /\ Bursts \subseteq Nat /\ Priorities \subseteq Int
  BY SystemAssumption
<1>2. /\ algo \in {"fcfs", "sjf", "priority", "rr"}
      /\ arrival_time \in [Procs -> Nat] /\ burst_time \in [Procs -> Nat \ {0}]
  BY <1>1 DEF Init
<1>3. priority \in [Procs -> Int]
  <2>1. CASE algo = "priority"
    BY <1>1, <2>1 DEF Init
  <2>2. CASE algo # "priority"
    <3>1. priority = [p \in Procs |-> 0]
      BY <2>2 DEF Init
    <3>2. QED BY <3>1
  <2>3. QED BY <2>1, <2>2
<1>4. remaining_time = burst_time /\ waiting_time \in [Procs -> Int] /\ turnaround_time \in [Procs -> Int]
  BY DEF Init
<1>5. ran = <<>> /\ current_time = 0
  BY DEF Init
<1>6. ran \in Seq(0 .. n) /\ Len(ran) = 0
  BY <1>5, EmptySeq
<1>7. \A p \in Procs : Units(ran, p) = {}
  BY <1>6 DEF Units
<1>8. ASSUME NEW p \in Procs
      PROVE  Cardinality(Units(ran, p)) = burst_time[p] - remaining_time[p] /\ remaining_time[p] # 0
  <2>1. Cardinality(Units(ran, p)) = 0
    BY <1>7, FS_EmptySet
  <2>2. burst_time[p] \in Nat \ {0} /\ remaining_time[p] = burst_time[p]
    BY <1>2, <1>4
  <2>3. QED BY <2>1, <2>2
<1>9. QED BY <1>2, <1>3, <1>4, <1>5, <1>6, <1>8 DEF SchedBase

\* Of some processes there is a first one of least key.
LEMMA LeastExists ==
    ASSUME NEW N \in Nat, NEW S, S \subseteq 1 .. N, S # {}, NEW key, \A p \in S : key[p] \in Int
    PROVE  \E p \in S : \A q \in S : key[p] < key[q] \/ (key[p] = key[q] /\ p <= q)
<1> DEFINE Least(p, m) == \A q \in S : q <= m => key[p] < key[q] \/ (key[p] = key[q] /\ p <= q)
           T == {m \in 0 .. N : (\A q \in S : q > m) \/ \E p \in S : p <= m /\ Least(p, m)}
<1>1. 0 \in T
  OBVIOUS
<1>2. ASSUME NEW m \in 1 .. N, m - 1 \in T PROVE m \in T
  <2>1. CASE m \notin S
    <3>1. \A q \in S : /\ q <= m => q <= m - 1
                       /\ q > m - 1 => q > m
      BY <2>1
    <3>2. CASE \A q \in S : q > m - 1
      BY <3>1, <3>2
    <3>3. CASE \E p \in S : p <= m - 1 /\ Least(p, m - 1)
      <4>1. PICK p \in S : p <= m - 1 /\ Least(p, m - 1)
        BY <3>3
      <4>2. p <= m /\ Least(p, m)
        BY <3>1, <4>1
      <4>3. QED BY <4>2
    <3>4. QED BY <1>2, <3>2, <3>3
  <2>2. CASE m \in S
    <3>1. \A q \in S : q <= m => q <= m - 1 \/ q = m
      OBVIOUS
    <3>2. CASE \A q \in S : q > m - 1
      <4>1. Least(m, m)
        BY <3>1, <3>2
      <4>2. QED BY <2>2, <4>1
    <3>3. CASE \E p \in S : p <= m - 1 /\ Least(p, m - 1)
      <4>1. PICK p \in S : p <= m - 1 /\ Least(p, m - 1)
        BY <3>3
      <4>2. key[p] \in Int /\ key[m] \in Int /\ p \in Int
        BY <2>2
      <4>3. CASE key[m] < key[p]
        <5>1. ASSUME NEW q \in S, q <= m PROVE key[m] < key[q] \/ (key[m] = key[q] /\ m <= q)
          <6>1. CASE q = m
            BY <4>2, <6>1
          <6>2. CASE q <= m - 1
            <7>1. key[q] \in Int /\ (key[p] < key[q] \/ key[p] = key[q])
              BY <4>1, <6>2
            <7>2. QED BY <4>2, <4>3, <7>1
          <6>3. QED BY <3>1, <5>1, <6>1, <6>2
        <5>2. Least(m, m)
          BY <5>1
        <5>3. QED BY <2>2, <5>2
      <4>4. CASE ~(key[m] < key[p])
        <5>1. ASSUME NEW q \in S, q <= m PROVE key[p] < key[q] \/ (key[p] = key[q] /\ p <= q)
          <6>1. CASE q = m
            BY <4>1, <4>2, <4>4, <6>1
          <6>2. CASE q <= m - 1
            BY <4>1, <6>2
          <6>3. QED BY <3>1, <5>1, <6>1, <6>2
        <5>2. Least(p, m) /\ p <= m
          BY <4>1, <4>2, <5>1
        <5>3. QED BY <5>2
      <4>5. QED BY <4>3, <4>4
    <3>4. QED BY <1>2, <3>2, <3>3
  <2>3. QED BY <2>1, <2>2
<1>3. N \in T
  <2> HIDE DEF T
  <2>1. 0 .. N \subseteq T
    BY <1>1, <1>2, Upwards
  <2>2. QED BY <2>1
<1>4. \A q \in S : q <= N /\ ~(q > N)
  OBVIOUS
<1>5. PICK p \in S : Least(p, N)
  <2>1. ~(\A q \in S : q > N)
    BY <1>4
  <2>2. QED BY <1>3, <2>1
<1>6. QED BY <1>4, <1>5

LEMMA FirstLeastIs ==
    ASSUME NEW S, S \subseteq Procs, S # {}, NEW key, \A p \in S : key[p] \in Int
    PROVE  /\ FirstLeast(S, key) \in S
           /\ \A q \in S : key[FirstLeast(S, key)] <= key[q]
<1>1. n \in Nat /\ S \subseteq 1 .. n
  BY SystemAssumption DEF Procs
<1>2. \E p \in S : \A q \in S : key[p] < key[q] \/ (key[p] = key[q] /\ p <= q)
  BY <1>1, LeastExists
<1>3. PICK p : p = FirstLeast(S, key)
  OBVIOUS
<1>4. p \in S /\ \A q \in S : key[p] < key[q] \/ (key[p] = key[q] /\ p <= q)
  BY <1>2, <1>3 DEF FirstLeast
<1>5. \A q \in S : key[p] <= key[q]
  BY <1>4
<1>6. QED BY <1>3, <1>4, <1>5

LEMMA OneMore ==
    ASSUME NEW r \in Seq(0 .. n), NEW p \in 0 .. n
    PROVE  Extended(Append(r, p), r, p, 1)
<1>1. Len(r) \in Nat
  BY LenProperties
<1>2. Append(r, p) \in Seq(0 .. n) /\ Len(Append(r, p)) = Len(r) + 1 /\ Append(r, p)[Len(r) + 1] = p
      /\ \A t \in 1 .. Len(r) : Append(r, p)[t] = r[t]
  OBVIOUS
<1>3. \A t \in Len(r) + 1 .. Len(r) + 1 : t = Len(r) + 1
  BY <1>1
<1>4. QED BY <1>2, <1>3 DEF Extended

\* A tick of one of the two loops that look for a process.
LEMMA Ticked ==
    ASSUME SchedBase, UNCHANGED table, current_time' = current_time + 1, NEW p \in Ready, NEW b,
           RunTick(p, b), b = (IF algo = "priority" THEN 0 ELSE burst_time[p])
    PROVE  Ran(p, 1) /\ p \in Procs /\ remaining_time[p] \in Nat /\ remaining_time[p] >= 1 /\ SchedBase'
<1>1. p \in Procs /\ remaining_time[p] \in Nat /\ remaining_time[p] >= 1 /\ n \in Nat
  BY SystemAssumption DEF Ready, SchedBase
<1>2. ran \in Seq(0 .. n) /\ p \in 0 .. n
  BY <1>1 DEF SchedBase, Procs
<1>3. Extended(ran', ran, p, 1)
  BY <1>2, OneMore DEF RunTick
<1>4. arrival_time[p] \in Int /\ burst_time[p] \in Int /\ current_time \in Nat
  BY <1>1, <1>2, LenProperties DEF SchedBase
<1>5. /\ current_time + 1 - b - arrival_time[p] = IF algo = "priority" THEN current_time + 1 - arrival_time[p]
                    ELSE current_time + 1 - burst_time[p] - arrival_time[p]
  BY <1>4
<1>6. Ran(p, 1)
  BY <1>3, <1>5 DEF Ran, RunTick
<1>7. SchedBase'
  BY <1>1, <1>6, SchedRuns
<1>8. QED BY <1>1, <1>6, <1>7

LEMMA TickedIdle ==
    ASSUME SchedBase, UNCHANGED table, current_time' = current_time + 1, IdleTick
    PROVE  SchedBase' /\ Extended(ran', ran, 0, 1)
<1>1. n \in Nat
  BY SystemAssumption
<1>2. ran \in Seq(0 .. n) /\ 0 \in 0 .. n
  BY <1>1 DEF SchedBase
<1>3. Extended(ran', ran, 0, 1)
  BY <1>2, OneMore DEF IdleTick, Nobody
<1>4. QED BY <1>3, SchedIdles DEF IdleTick

\* In every unit of the schedule r nobody with work left waits for a process of
\* lower priority.
Respects(r, arrival, burst, prio) ==
    \A t \in 1 .. Len(r), q \in Procs :
        (arrival[q] < t /\ burst[q] - Cardinality({u \in Units(r, q) : u < t}) > 0) =>
            r[t] # 0 /\ prio[r[t]] <= prio[q]

\* It is enough to look at the last unit.
LEMMA RespectsMore ==
    ASSUME NEW r \in Seq(0 .. n), NEW arrival, NEW burst, NEW prio, Respects(r, arrival, burst, prio),
           NEW p, NEW z, Extended(z, r, p, 1),
           \A q \in Procs : (arrival[q] < Len(r) + 1 /\ burst[q] - Cardinality(Units(r, q)) > 0) =>
                p # 0 /\ prio[p] <= prio[q]
    PROVE  Respects(z, arrival, burst, prio)
<1>1. PICK L \in Nat : L = Len(r)
  BY LenProperties
<1>2. Len(z) = L + 1 /\ z[L + 1] = p /\ \A t \in 1 .. L : z[t] = r[t]
  BY <1>1 DEF Extended
<1>3. /\ \A q : q # p => Units(z, q) = Units(r, q)
      /\ Units(z, p) = Units(r, p) \cup (L + 1 .. L + 1)
  BY <1>1, UnitsGrow
<1>4. ASSUME NEW t \in 1 .. L + 1, NEW q PROVE {u \in Units(z, q) : u < t} = {u \in Units(r, q) : u < t}
  <2>1. \A u \in L + 1 .. L + 1 : ~(u < t)
    OBVIOUS
  <2>2. CASE q = p
    BY <1>3, <2>1, <2>2
  <2>3. CASE q # p
    BY <1>3, <2>3
  <2>4. QED BY <2>2, <2>3
<1>5. \A q : {u \in Units(r, q) : u < L + 1} = Units(r, q)
  BY <1>1 DEF Units
<1>6. ASSUME NEW t \in 1 .. L + 1, NEW q \in Procs,
             arrival[q] < t, burst[q] - Cardinality({u \in Units(z, q) : u < t}) > 0
      PROVE  z[t] # 0 /\ prio[z[t]] <= prio[q]
  <2>1. burst[q] - Cardinality({u \in Units(r, q) : u < t}) > 0
    BY <1>4, <1>6
  <2>2. CASE t \in 1 .. L
    <3>1. r[t] # 0 /\ prio[r[t]] <= prio[q]
      BY <1>1, <1>6, <2>1, <2>2 DEF Respects
    <3>2. QED BY <1>2, <2>2, <3>1
  <2>3. CASE t = L + 1
    <3>1. burst[q] - Cardinality(Units(r, q)) > 0
      BY <1>5, <2>1, <2>3
    <3>2. p # 0 /\ prio[p] <= prio[q]
      BY <1>1, <1>6, <2>3, <3>1
    <3>3. QED BY <1>2, <2>3, <3>2
  <2>4. QED BY <2>2, <2>3
<1>7. QED BY <1>2, <1>6 DEF Respects

LEMMA SchedPriority ==
    ASSUME SchedBase, Respects(ran, arrival_time, burst_time, priority), priority_scheduling
    PROVE  SchedBase' /\ Respects(ran', arrival_time', burst_time', priority')
<1>1. algo = "priority" /\ UNCHANGED table /\ current_time' = current_time + 1
  BY DEF priority_scheduling
<1>2. arrival_time' = arrival_time /\ burst_time' = burst_time /\ priority' = priority
  BY <1>1 DEF table
<1>3. PICK L \in Nat : L = Len(ran) /\ current_time = L /\ ran \in Seq(0 .. n)
  BY LenProperties DEF SchedBase
<1>4. ASSUME NEW q \in Procs, arrival_time[q] < L + 1, burst_time[q] - Cardinality(Units(ran, q)) > 0
      PROVE  q \in Ready
  <2>1. arrival_time[q] \in Nat /\ burst_time[q] \in Nat /\ remaining_time[q] \in Nat
        /\ Cardinality(Units(ran, q)) = burst_time[q] - remaining_time[q]
    BY DEF SchedBase
  <2>2. PICK a \in Nat, b \in Nat, c \in Nat : a = arrival_time[q] /\ b = burst_time[q] /\ c = remaining_time[q]
    BY <2>1
  <2>3. b - (b - c) > 0 /\ a < L + 1
    BY <1>4, <2>1, <2>2
  <2>4. c > 0 /\ a <= L
    BY <2>3
  <2>5. QED BY <1>3, <2>2, <2>4 DEF Ready
<1>5. CASE Ready = {}
  <2>1. IdleTick
    BY <1>5 DEF priority_scheduling
  <2>2. SchedBase' /\ Extended(ran', ran, 0, 1)
    BY <1>1, <2>1, TickedIdle
  <2>3. \A q \in Procs : ~(arrival_time[q] < Len(ran) + 1 /\ burst_time[q] - Cardinality(Units(ran, q)) > 0)
    BY <1>3, <1>4, <1>5
  <2>4. Respects(ran', arrival_time, burst_time, priority)
    BY <1>3, <2>2, <2>3, RespectsMore
  <2>5. QED BY <1>2, <2>2, <2>4
<1>6. CASE Ready # {}
  <2>1. PICK p : p = selected_process
    OBVIOUS
  <2>2. p \in Ready /\ \A q \in Ready : priority[p] <= priority[q]
    <3>1. Ready \subseteq Procs /\ \A q \in Ready : priority[q] \in Int
      BY DEF Ready, SchedBase
    <3>2. QED BY <1>6, <2>1, <3>1, FirstLeastIs DEF selected_process
  <2>3. RunTick(p, 0)
    BY <1>6, <2>1 DEF priority_scheduling
  <2>4. Ran(p, 1) /\ p \in Procs /\ SchedBase'
    BY <1>1, <2>2, <2>3, Ticked
  <2>5. Extended(ran', ran, p, 1) /\ p # 0
    BY <2>4, SystemAssumption DEF Ran, Procs
  <2>6. \A q \in Procs : (arrival_time[q] < Len(ran) + 1 /\ burst_time[q] - Cardinality(Units(ran, q)) > 0) =>
            p # 0 /\ priority[p] <= priority[q]
    BY <1>3, <1>4, <2>2, <2>5
  <2>7. Respects(ran', arrival_time, burst_time, priority)
    BY <1>3, <2>5, <2>6, RespectsMore
  <2>8. QED BY <1>2, <2>4, <2>7
<1>7. QED BY <1>5, <1>6

\* First come first served: the bursts before and up to each process.
InTurn ==
    /\ i \in 1 .. n + 1
    /\ \A p \in 1 .. i - 1 : /\ waiting_time[p] = Total(burst_time, p - 1)
                             /\ turnaround_time[p] = Total(burst_time, p)

LEMMA SchedFcfs ==
    ASSUME SchedBase, InTurn, fcfs_scheduling
    PROVE  SchedBase' /\ InTurn'
<1>1. n \in Nat
  BY SystemAssumption
<1>2. algo = "fcfs" /\ i \in 1 .. n /\ i \in Nat /\ i' = i + 1
  BY <1>1 DEF fcfs_scheduling, InTurn
<1>3. /\ algo' = algo /\ arrival_time' = arrival_time /\ burst_time' = burst_time /\ priority' = priority
      /\ remaining_time' = remaining_time /\ current_time' = current_time /\ ran' = ran /\ Procs' = Procs
  BY DEF fcfs_scheduling, table, Procs
<1>4. /\ burst_time \in [Procs -> Nat \ {0}] /\ waiting_time \in [Procs -> Int]
      /\ turnaround_time \in [Procs -> Int]
  BY DEF SchedBase
<1>5. \A k \in 1 .. n : burst_time[k] \in Int
  BY <1>4 DEF Procs
<1>6. PICK w : w = IF i = 1 THEN 0 ELSE waiting_time[i - 1] + burst_time[i - 1]
  OBVIOUS
<1>7. w = Total(burst_time, i - 1)
  <2>1. CASE i = 1
    <3>1. i - 1 = 0
      BY <2>1
    <3>2. QED BY <1>6, <2>1, <3>1, TotalNone
  <2>2. CASE i # 1
    <3>1. i - 1 \in 1 .. i - 1 /\ i - 2 \in Nat /\ (i - 2) + 1 = i - 1 /\ (i - 1) - 1 = i - 2
      BY <1>2, <2>2
    <3>2. waiting_time[i - 1] = Total(burst_time, i - 2)
      BY <3>1 DEF InTurn
    <3>3. \A k \in 1 .. (i - 2) + 1 : burst_time[k] \in Int
      BY <1>1, <1>2, <1>5
    <3>4. Total(burst_time, (i - 2) + 1) = Total(burst_time, i - 2) + burst_time[(i - 2) + 1]
      BY <3>1, <3>3, TotalStep
    <3>5. QED BY <1>6, <2>2, <3>1, <3>2, <3>4
  <2>3. QED BY <2>1, <2>2
<1>8. w \in Int /\ w + burst_time[i] = Total(burst_time, i)
  <2>1. i - 1 \in Nat /\ (i - 1) + 1 = i /\ \A k \in 1 .. i - 1 : burst_time[k] \in Int
    BY <1>1, <1>2, <1>5
  <2>2. \A k \in 1 .. (i - 1) + 1 : burst_time[k] \in Int
    BY <1>1, <1>2, <1>5
  <2>3. Total(burst_time, (i - 1) + 1) = Total(burst_time, i - 1) + burst_time[(i - 1) + 1]
    BY <2>1, <2>2, TotalStep
  <2>4. Total(burst_time, i - 1) \in Int
    BY <2>1, TotalInt
  <2>5. QED BY <1>7, <2>1, <2>3, <2>4
<1>9. PICK v \in Int : v = w + burst_time[i]
  BY <1>2, <1>5, <1>8
<1>10. waiting_time' = [waiting_time EXCEPT ![i] = w] /\ turnaround_time' = [turnaround_time EXCEPT ![i] = v]
  BY <1>6, <1>9 DEF fcfs_scheduling
<1>11. waiting_time' \in [Procs -> Int] /\ turnaround_time' \in [Procs -> Int]
  BY <1>4, <1>8, <1>10
<1>12. \A p \in Procs : (Units(ran, p))' = Units(ran, p)
  BY <1>3 DEF Units
<1>13. SchedBase'
  BY <1>2, <1>3, <1>11, <1>12 DEF SchedBase
<1>14. ASSUME NEW p \in 1 .. i
       PROVE  waiting_time'[p] = Total(burst_time, p - 1) /\ turnaround_time'[p] = Total(burst_time, p)
  <2>1. p \in Procs /\ i \in Procs
    BY <1>1, <1>2 DEF Procs
  <2>2. CASE p = i
    BY <1>4, <1>7, <1>8, <1>9, <1>10, <2>1, <2>2
  <2>3. CASE p # i
    <3>1. p \in 1 .. i - 1
      BY <1>2, <2>3
    <3>2. waiting_time'[p] = waiting_time[p] /\ turnaround_time'[p] = turnaround_time[p]
      BY <1>4, <1>10, <2>1, <2>3
    <3>3. QED BY <3>1, <3>2 DEF InTurn
  <2>4. QED BY <2>2, <2>3
<1>15. i' \in 1 .. n + 1 /\ i' - 1 = i
  BY <1>1, <1>2
<1>16. InTurn'
  BY <1>3, <1>14, <1>15 DEF InTurn
<1>17. QED BY <1>13, <1>16

LEMMA InTurnIs ==
    ASSUME SchedBase, InTurn
    PROVE  QueueTimes
<1>1. n \in Nat /\ \A k \in 1 .. n : burst_time[k] \in Int
  BY SystemAssumption DEF SchedBase, Procs
<1> DEFINE h == CHOOSE g : g = [p \in 0 .. n |-> IF p = 0 THEN 0 ELSE g[p - 1] + burst_time[p]]
<1>2. IsSum(h, burst_time, n)
  <2>1. \E g : IsSum(g, burst_time, n)
    BY <1>1, SumExists
  <2>2. QED BY <2>1 DEF IsSum
<1>3. QueueTimes <=> (algo = "fcfs" => \A p \in 1 .. i - 1 : turnaround_time[p] = h[p])
  BY DEF QueueTimes
<1> HIDE DEF h
<1>4. ASSUME NEW p \in 1 .. i - 1 PROVE turnaround_time[p] = h[p]
  <2>1. p \in 1 .. n /\ p \in Nat /\ p \in 0 .. n
    BY <1>1 DEF InTurn
  <2>2. \A k \in 1 .. p : burst_time[k] \in Int
    BY <1>1, <2>1
  <2>3. PICK g : IsSum(g, burst_time, p) /\ Total(burst_time, p) = g[p]
    BY <2>1, <2>2, TotalIs
  <2>4. \A k \in 0 .. p : h[k] = g[k]
    BY <1>1, <1>2, <2>1, <2>3, SumAgrees
  <2>5. h[p] = g[p]
    BY <2>1, <2>4
  <2>6. QED BY <2>3, <2>5 DEF InTurn
<1>5. QED BY <1>3, <1>4

-----------------------------------------------------------------------------

\* The turns of other processes since the one of p when it is the turn of k.
Away(p, k) == IF p < k THEN k - p - 1 ELSE n + k - 1 - p

\* After at most d quanta more the schedule r began or p ran.
Recent(r, p, d) ==
    \E u \in 0 .. Len(r) : (u = 0 \/ r[u] = p) /\ Len(r) - u <= d * TIME_QUANTUM

NoneStarves ==
    /\ i \in Nat /\ i >= 1 /\ (i > 1 => i <= n) /\ completed \in Nat
    /\ \A p \in Procs : remaining_time[p] > 0 => Recent(ran, p, Away(p, i))

LEMMA NextTurn ==
    ASSUME n \in Nat, NEW k \in 1 .. n
    PROVE  /\ (k % n) + 1 \in 1 .. n
           /\ Away(k, (k % n) + 1) = 0
           /\ \A p \in 1 .. n : /\ Away(p, k) \in Nat /\ Away(p, k) <= n - 1
                                /\ p # k => Away(p, (k % n) + 1) = Away(p, k) + 1
<1>1. k % n = IF k = n THEN 0 ELSE k
  OBVIOUS
<1>2. PICK m : m = (k % n) + 1
  OBVIOUS
<1>3. m = IF k = n THEN 1 ELSE k + 1
  BY <1>1, <1>2
<1>4. m \in 1 .. n /\ Away(k, m) = 0
  BY <1>3 DEF Away
<1>5. \A p \in 1 .. n : Away(p, k) \in Nat /\ Away(p, k) <= n - 1
  BY DEF Away
<1>6. \A p \in 1 .. n : p # k => Away(p, m) = Away(p, k) + 1
  BY <1>3 DEF Away
<1>7. QED BY <1>2, <1>4, <1>5, <1>6

LEMMA SchedTurn ==
    ASSUME SchedBase, NoneStarves, round_robin_scheduling
    PROVE  SchedBase' /\ NoneStarves'
<1>1. n \in Nat /\ TIME_QUANTUM \in Nat \ {0}
  BY SystemAssumption
<1>2. i \in 1 .. n /\ i \in Procs /\ i \in 0 .. n
  BY <1>1 DEF NoneStarves, round_robin_scheduling, Procs
<1>3. algo = "rr" /\ UNCHANGED table /\ i' = (i % n) + 1
  BY DEF round_robin_scheduling
<1>4. /\ algo' = algo /\ arrival_time' = arrival_time /\ burst_time' = burst_time /\ priority' = priority
      /\ Procs' = Procs
  BY <1>3 DEF table, Procs
<1>5. PICK m \in 1 .. n : m = i' /\ Away(i, m) = 0
           /\ \A p \in 1 .. n : /\ Away(p, i) \in Nat
                                /\ p # i => Away(p, m) = Away(p, i) + 1
  BY <1>1, <1>2, <1>3, NextTurn
<1>6. m \in Nat /\ m >= 1 /\ m <= n
  BY <1>1
<1>7. PICK L \in Nat : L = Len(ran) /\ current_time = L /\ ran \in Seq(0 .. n)
  BY LenProperties DEF SchedBase
<1>8. remaining_time \in [Procs -> Nat] /\ burst_time \in [Procs -> Nat \ {0}] /\ arrival_time \in [Procs -> Nat]
      /\ waiting_time \in [Procs -> Int] /\ turnaround_time \in [Procs -> Int]
  BY DEF SchedBase
<1>9. \A p \in Procs : (Away(p, i))' = Away(p, m)
  BY <1>5 DEF Away
<1>10. CASE ~(remaining_time[i] > 0)
  <2>1. UNCHANGED <<remaining_time, current_time, ran, completed, turnaround_time, waiting_time>>
    BY <1>10 DEF round_robin_scheduling
  <2>2. \A p \in Procs : (Units(ran, p))' = Units(ran, p)
    BY <2>1 DEF Units
  <2>3. \A p \in Procs : Told(p) => Told(p)'
    BY <1>4, <2>1, <2>2 DEF Told
  <2>4. SchedBase'
    BY <1>4, <2>1, <2>2, <2>3 DEF SchedBase
  <2>5. ASSUME NEW p \in Procs, remaining_time[p] > 0 PROVE Recent(ran, p, Away(p, m))
    <3>1. PICK d \in Nat : d = Away(p, i) /\ Away(p, m) = d + 1
      BY <1>5, <1>10, <2>5 DEF Procs
    <3>2. PICK u \in 0 .. Len(ran) : (u = 0 \/ ran[u] = p) /\ Len(ran) - u <= d * TIME_QUANTUM
      BY <2>5, <3>1 DEF NoneStarves, Recent
    <3>3. PICK x \in Nat : x = d * TIME_QUANTUM
      BY <1>1
    <3>4. (d + 1) * TIME_QUANTUM = x + TIME_QUANTUM
      BY <1>1, <3>3
    <3>5. Len(ran) - u <= x + TIME_QUANTUM
      BY <1>1, <1>7, <3>2, <3>3
    <3>6. QED BY <3>1, <3>2, <3>4, <3>5 DEF Recent
  <2>6. \A p \in Procs : (Recent(ran, p, Away(p, i)))' = Recent(ran, p, Away(p, m))
    BY <1>9, <2>1 DEF Recent
  <2>7. NoneStarves'
    BY <1>4, <1>5, <1>6, <2>1, <2>5, <2>6 DEF NoneStarves
  <2>8. QED BY <2>4, <2>7
<1>11. CASE remaining_time[i] > 0
  <2>1. PICK b \in Nat, e \in Nat : /\ b = remaining_time[i] /\ e = execute_time
                                    /\ e >= 1 /\ e <= b /\ e <= TIME_QUANTUM
    BY <1>1, <1>2, <1>8, <1>11 DEF execute_time
  <2>2. PICK z : z = [k \in 1 .. e |-> i]
    OBVIOUS
  <2>3. z \in Seq(0 .. n) /\ Len(z) = e /\ \A k \in 1 .. e : z[k] = i
    BY <1>2, <2>1, <2>2
  <2>4. ran' = ran \o z
    BY <1>11, <2>1, <2>2 DEF round_robin_scheduling, RoundRobinTurn
  <2>5. Extended(ran', ran, i, e)
    <3>1. /\ ran \o z \in Seq(0 .. n) /\ Len(ran \o z) = Len(ran) + Len(z)
          /\ \A k \in 1 .. Len(ran) + Len(z) :
                (ran \o z)[k] = IF k <= Len(ran) THEN ran[k] ELSE z[k - Len(ran)]
      BY <1>7, <2>3, ConcatProperties
    <3>2. ran' \in Seq(0 .. n) /\ Len(ran') = L + e
          /\ \A k \in 1 .. L + e : ran'[k] = IF k <= L THEN ran[k] ELSE z[k - L]
      BY <1>7, <2>3, <2>4, <3>1
    <3>3. \A k \in 1 .. L : k \in 1 .. L + e /\ k <= L
      OBVIOUS
    <3>4. \A k \in L + 1 .. L + e : k \in 1 .. L + e /\ ~(k <= L) /\ k - L \in 1 .. e
      OBVIOUS
    <3>5. \A k \in 1 .. L : ran'[k] = ran[k]
      BY <3>2, <3>3
    <3>6. \A k \in L + 1 .. L + e : ran'[k] = i
      BY <2>3, <3>2, <3>4
    <3>7. QED BY <1>7, <3>2, <3>5, <3>6 DEF Extended
  <2>6. remaining_time' = [remaining_time EXCEPT ![i] = b - e] /\ current_time' = L + e
    BY <1>7, <1>11, <2>1 DEF round_robin_scheduling, RoundRobinTurn
  <2>7. remaining_time'[i] = b - e
    BY <1>2, <1>8, <2>6
  <2>8. remaining_time'[i] = 0 <=> b = e
    BY <2>7
  <2>9. PICK a \in Int, c \in Int : a = arrival_time[i] /\ c = burst_time[i]
    BY <1>2, <1>8
  <2>10. /\ b = e => completed' = completed + 1
         /\ b # e => completed' = completed
    BY <1>11, <2>8 DEF round_robin_scheduling, RoundRobinTurn
  <2>11. IF b = e THEN /\ turnaround_time' = [turnaround_time EXCEPT ![i] = (L + e) - a]
                       /\ waiting_time' = [waiting_time EXCEPT ![i] = ((L + e) - a) - c]
         ELSE turnaround_time' = turnaround_time /\ waiting_time' = waiting_time
    <3>1. CASE b = e
      <4>1. /\ turnaround_time' = [turnaround_time EXCEPT ![i] = current_time' - arrival_time[i]]
            /\ waiting_time' = [waiting_time EXCEPT ![i] = turnaround_time'[i] - burst_time[i]]
        BY <1>11, <2>8, <3>1 DEF round_robin_scheduling, RoundRobinTurn
      <4>2. turnaround_time'[i] = (L + e) - a
        BY <1>2, <1>8, <2>6, <2>9, <4>1
      <4>3. QED BY <2>6, <2>9, <3>1, <4>1, <4>2
    <3>2. CASE b # e
      BY <1>11, <2>8, <3>2 DEF round_robin_scheduling, RoundRobinTurn
    <3>3. QED BY <3>1, <3>2
  <2>12. current_time + e - arrival_time[i] = (L + e) - a
         /\ current_time + e - burst_time[i] - arrival_time[i] = ((L + e) - a) - c
    <3>1. L + e - a = (L + e) - a /\ L + e - c - a = ((L + e) - a) - c
      OBVIOUS
    <3>2. QED BY <1>7, <2>9, <3>1
  <2>13. Ran(i, e)
    BY <1>3, <1>7, <2>1, <2>5, <2>6, <2>11, <2>12 DEF Ran
  <2>14. SchedBase'
    BY <1>2, <1>3, <2>1, <2>13, SchedRuns
  <2>15. Len(ran') = L + e /\ ran'[L + e] = i /\ \A t \in 1 .. L : ran'[t] = ran[t]
    <3>1. L + e \in L + 1 .. L + e
      BY <2>1
    <3>2. QED BY <1>7, <2>5, <3>1 DEF Extended
  <2>16. ASSUME NEW p \in Procs, remaining_time'[p] > 0 PROVE Recent(ran', p, Away(p, m))
    <3>1. CASE p = i
      <4>1. L + e \in 0 .. L + e /\ (L + e) - (L + e) <= 0 * TIME_QUANTUM
        BY <1>1
      <4>2. QED BY <1>5, <2>15, <3>1, <4>1 DEF Recent
    <3>2. CASE p # i
      <4>1. remaining_time[p] > 0
        BY <1>8, <2>6, <2>16, <3>2
      <4>2. PICK d \in Nat : d = Away(p, i) /\ Away(p, m) = d + 1
        BY <1>5, <3>2 DEF Procs
      <4>3. PICK u \in 0 .. Len(ran) : (u = 0 \/ ran[u] = p) /\ Len(ran) - u <= d * TIME_QUANTUM
        BY <4>1, <4>2 DEF NoneStarves, Recent
      <4>4. PICK x \in Nat : x = d * TIME_QUANTUM
        BY <1>1
      <4>5. (d + 1) * TIME_QUANTUM = x + TIME_QUANTUM
        BY <1>1, <4>4
      <4>6. (L + e) - u <= x + TIME_QUANTUM /\ u \in 0 .. L + e
        BY <1>1, <1>7, <2>1, <4>3, <4>4
      <4>7. u = 0 \/ ran'[u] = p
        <5>1. u = 0 \/ u \in 1 .. L
          BY <1>7
        <5>2. QED BY <2>15, <4>3, <5>1
      <4>8. QED BY <2>15, <4>2, <4>5, <4>6, <4>7 DEF Recent
    <3>3. QED BY <3>1, <3>2
  <2>17. \A p \in Procs : (Recent(ran, p, Away(p, i)))' = Recent(ran', p, Away(p, m))
    BY <1>9 DEF Recent
  <2>18. completed' \in Nat
    BY <2>10 DEF NoneStarves
  <2>19. NoneStarves'
    BY <1>4, <1>5, <1>6, <2>16, <2>17, <2>18 DEF NoneStarves
  <2>20. QED BY <2>14, <2>19
<1>12. QED BY <1>10, <1>11

LEMMA TotalMono ==
    ASSUME NEW N \in Nat, NEW t, NEW u, \A k \in 1 .. N : t[k] \in Int /\ u[k] \in Int /\ t[k] <= u[k]
    PROVE  Total(t, N) <= Total(u, N)
<1>1. PICK g : IsSum(g, t, N) /\ Total(t, N) = g[N] /\ \A k \in 0 .. N : g[k] \in Int
  BY TotalIs
<1>2. PICK h : IsSum(h, u, N) /\ Total(u, N) = h[N] /\ \A k \in 0 .. N : h[k] \in Int
  BY TotalIs
<1>3. /\ g[0] = 0 /\ \A k \in 1 .. N : g[k] = g[k - 1] + t[k]
      /\ h[0] = 0 /\ \A k \in 1 .. N : h[k] = h[k - 1] + u[k]
  BY <1>1, <1>2, SumTurn
<1> DEFINE S == {k \in 0 .. N : g[k] <= h[k]}
<1>4. 0 \in S
  BY <1>3
<1>5. ASSUME NEW k \in 1 .. N, k - 1 \in S PROVE k \in S
  <2>1. g[k - 1] <= h[k - 1] /\ g[k - 1] \in Int /\ h[k - 1] \in Int /\ k \in 0 .. N
    BY <1>1, <1>2, <1>5
  <2>2. t[k] <= u[k] /\ t[k] \in Int /\ u[k] \in Int
    OBVIOUS
  <2>3. g[k - 1] + t[k] <= h[k - 1] + u[k]
    BY <2>1, <2>2
  <2>4. QED BY <1>3, <2>1, <2>3
<1>6. 0 .. N \subseteq S
  <2> HIDE DEF S
  <2>1. QED BY <1>4, <1>5, Upwards
<1>7. QED BY <1>1, <1>2, <1>6

LEMMA TotalChange ==
    ASSUME NEW N \in Nat, NEW t, NEW u, \A k \in 1 .. N : t[k] \in Int /\ u[k] \in Int,
           NEW x \in 1 .. N, \A k \in 1 .. N : k # x => t[k] = u[k]
    PROVE  Total(u, N) = Total(t, N) + (u[x] - t[x])
<1>1. PICK g : IsSum(g, t, N) /\ Total(t, N) = g[N] /\ \A k \in 0 .. N : g[k] \in Int
  BY TotalIs
<1>2. PICK h : IsSum(h, u, N) /\ Total(u, N) = h[N] /\ \A k \in 0 .. N : h[k] \in Int
  BY TotalIs
<1>3. /\ g[0] = 0 /\ \A k \in 1 .. N : g[k] = g[k - 1] + t[k]
      /\ h[0] = 0 /\ \A k \in 1 .. N : h[k] = h[k - 1] + u[k]
  BY <1>1, <1>2, SumTurn
<1>4. PICK d \in Int : d = u[x] - t[x]
  OBVIOUS
<1> DEFINE S == {k \in 0 .. N : h[k] = IF k < x THEN g[k] ELSE g[k] + d}
<1>5. 0 \in S
  BY <1>3
<1>6. ASSUME NEW k \in 1 .. N, k - 1 \in S PROVE k \in S
  <2>1. g[k - 1] \in Int /\ h[k - 1] \in Int /\ k \in 0 .. N /\ t[k] \in Int /\ u[k] \in Int
        /\ h[k - 1] = (IF k - 1 < x THEN g[k - 1] ELSE g[k - 1] + d)
    BY <1>1, <1>2, <1>6
  <2>2. g[k] = g[k - 1] + t[k] /\ h[k] = h[k - 1] + u[k]
    BY <1>3
  <2>3. CASE k = x
    <3>1. h[k - 1] = g[k - 1] /\ u[k] = t[k] + d
      BY <1>4, <2>1, <2>3
    <3>2. h[k] = g[k] + d
      BY <2>1, <2>2, <3>1
    <3>3. QED BY <2>1, <2>3, <3>2
  <2>4. CASE k < x
    <3>1. h[k - 1] = g[k - 1] /\ u[k] = t[k]
      BY <2>1, <2>4
    <3>2. h[k] = g[k]
      BY <2>1, <2>2, <3>1
    <3>3. QED BY <2>1, <2>4, <3>2
  <2>5. CASE k > x
    <3>1. h[k - 1] = g[k - 1] + d /\ u[k] = t[k]
      BY <2>1, <2>5
    <3>2. h[k] = g[k] + d
      BY <2>1, <2>2, <3>1
    <3>3. QED BY <2>1, <2>5, <3>2
  <2>6. QED BY <2>3, <2>4, <2>5
<1>7. 0 .. N \subseteq S
  <2> HIDE DEF S
  <2>1. QED BY <1>5, <1>6, Upwards
<1>8. N \in S /\ ~(N < x)
  BY <1>7
<1>9. QED BY <1>1, <1>2, <1>4, <1>8

\* What is left of the processes outside S when R is left of each, and its sum.
Outside(R, S) == [p \in Procs |-> IF p \in S THEN 0 ELSE R[p]]
Load(R, S) == Total(Outside(R, S), n)

\* The processes with work left.
Open(R) == {p \in Procs : R[p] > 0}

\* The load R is one of p less than Q.
OneLess(R, Q, p) == R[p] = Q[p] - 1 /\ \A q \in Procs : q # p => R[q] = Q[q]

LEMMA OutsideIs ==
    ASSUME NEW R \in [Procs -> Nat], NEW S
    PROVE  /\ n \in Nat /\ \A p \in 1 .. n : Outside(R, S)[p] \in Nat /\ Outside(R, S)[p] \in Int
           /\ \A p \in Procs : Outside(R, S)[p] = IF p \in S THEN 0 ELSE R[p]
           /\ Load(R, S) \in Int
<1>1. n \in Nat
  BY SystemAssumption
<1>2. \A p \in Procs : Outside(R, S)[p] = IF p \in S THEN 0 ELSE R[p]
  BY DEF Outside
<1>3. \A p \in 1 .. n : Outside(R, S)[p] \in Nat /\ Outside(R, S)[p] \in Int
  BY <1>2 DEF Procs
<1>4. Load(R, S) \in Int
  BY <1>1, <1>3, TotalInt DEF Load
<1>5. QED BY <1>1, <1>2, <1>3, <1>4

LEMMA LoadMono ==
    ASSUME NEW R \in [Procs -> Nat], NEW S, NEW Q \in [Procs -> Nat], NEW T,
           \A p \in Procs : Outside(R, S)[p] <= Outside(Q, T)[p]
    PROVE  Load(R, S) <= Load(Q, T)
<1>1. \A p \in 1 .. n : Outside(R, S)[p] \in Int /\ Outside(Q, T)[p] \in Int /\ Outside(R, S)[p] <= Outside(Q, T)[p]
  BY OutsideIs DEF Procs
<1>2. QED BY <1>1, SystemAssumption, TotalMono DEF Load

LEMMA LoadChange ==
    ASSUME NEW R \in [Procs -> Nat], NEW S, NEW Q \in [Procs -> Nat], NEW T, NEW x \in Procs,
           \A p \in Procs : p # x => Outside(R, S)[p] = Outside(Q, T)[p]
    PROVE  Load(Q, T) = Load(R, S) + (Outside(Q, T)[x] - Outside(R, S)[x])
<1>1. \A p \in 1 .. n : Outside(R, S)[p] \in Int /\ Outside(Q, T)[p] \in Int
  BY OutsideIs
<1>2. x \in 1 .. n /\ \A p \in 1 .. n : p # x => Outside(R, S)[p] = Outside(Q, T)[p]
  BY DEF Procs
<1>3. QED BY <1>1, <1>2, SystemAssumption, TotalChange DEF Load

LEMMA LoadLess ==
    ASSUME NEW R \in [Procs -> Nat], NEW Q \in [Procs -> Nat], NEW S, NEW p \in Procs, OneLess(R, Q, p)
    PROVE  Load(R, S) = IF p \in S THEN Load(Q, S) ELSE Load(Q, S) - 1
<1>1. /\ \A q \in Procs : Outside(R, S)[q] = IF q \in S THEN 0 ELSE R[q]
      /\ \A q \in Procs : Outside(Q, S)[q] = IF q \in S THEN 0 ELSE Q[q]
      /\ Load(R, S) \in Int /\ Load(Q, S) \in Int
  BY OutsideIs
<1>2. \A q \in Procs : q # p => Outside(Q, S)[q] = Outside(R, S)[q]
  BY <1>1 DEF OneLess
<1>3. Load(R, S) = Load(Q, S) + (Outside(R, S)[p] - Outside(Q, S)[p])
  BY <1>2, LoadChange
<1>4. R[p] = Q[p] - 1 /\ Q[p] \in Int
  BY DEF OneLess
<1>5. CASE p \in S
  BY <1>1, <1>3, <1>5
<1>6. CASE p \notin S
  <2>1. Outside(R, S)[p] - Outside(Q, S)[p] = -1
    BY <1>1, <1>4, <1>6
  <2>2. QED BY <1>1, <1>3, <1>6, <2>1
<1>7. QED BY <1>5, <1>6

LEMMA LoadSwap ==
    ASSUME NEW R \in [Procs -> Nat], NEW S, NEW p \in Procs, NEW x \in Procs, p \in S, x \notin S
    PROVE  Load(R, (S \ {p}) \cup {x}) = Load(R, S) + (R[p] - R[x])
<1>1. PICK T : T = S \ {p}
  OBVIOUS
<1>2. PICK U : U = T \cup {x}
  OBVIOUS
<1>3. /\ \A q \in Procs : Outside(R, S)[q] = IF q \in S THEN 0 ELSE R[q]
      /\ \A q \in Procs : Outside(R, T)[q] = IF q \in T THEN 0 ELSE R[q]
      /\ \A q \in Procs : Outside(R, U)[q] = IF q \in U THEN 0 ELSE R[q]
      /\ Load(R, S) \in Int /\ Load(R, T) \in Int /\ Load(R, U) \in Int
  BY OutsideIs
<1>4. \A q \in Procs : q # p => Outside(R, S)[q] = Outside(R, T)[q]
  BY <1>1, <1>3
<1>5. \A q \in Procs : q # x => Outside(R, T)[q] = Outside(R, U)[q]
  BY <1>2, <1>3
<1>6. Load(R, T) = Load(R, S) + (Outside(R, T)[p] - Outside(R, S)[p])
  BY <1>4, LoadChange
<1>7. Load(R, U) = Load(R, T) + (Outside(R, U)[x] - Outside(R, T)[x])
  BY <1>5, LoadChange
<1>8. Outside(R, T)[p] = R[p] /\ Outside(R, S)[p] = 0 /\ Outside(R, U)[x] = 0 /\ Outside(R, T)[x] = R[x]
  BY <1>1, <1>2, <1>3
<1>9. R[p] \in Int /\ R[x] \in Int
  OBVIOUS
<1>10. Load(R, U) = Load(R, S) + (R[p] - R[x])
  BY <1>3, <1>6, <1>7, <1>8, <1>9
<1>11. QED BY <1>1, <1>2, <1>10

\* However the rival spends the time, and whatever processes T one does not look at,
\* there are as few that leave shortest job first no more work; of the processes that
\* have not arrived they are the same.
Best(R, Q, A) ==
    /\ R \in [Procs -> Nat] /\ Q \in [Procs -> Nat]
    /\ \A p \in Procs : p \notin A => R[p] = Q[p]
    /\ \A T \in SUBSET Procs : \E S \in SUBSET Procs :
          S \ A = T \ A /\ Cardinality(S) <= Cardinality(T) /\ Load(R, S) <= Load(Q, T)

LEMMA SomeProcs ==
    ASSUME NEW S \in SUBSET Procs
    PROVE  IsFiniteSet(S) /\ Cardinality(S) \in Nat
<1>1. n \in Nat
  BY SystemAssumption
<1>2. IsFiniteSet(Procs)
  BY <1>1, FS_Interval DEF Procs
<1>3. IsFiniteSet(S)
  BY <1>2, FS_Subset
<1>4. QED BY <1>3, FS_CardinalityType

LEMMA BestStart ==
    ASSUME NEW R \in [Procs -> Nat], NEW A
    PROVE  Best(R, R, A)
<1>1. ASSUME NEW T \in SUBSET Procs
      PROVE  T \ A = T \ A /\ Cardinality(T) <= Cardinality(T) /\ Load(R, T) <= Load(R, T)
  <2>1. Cardinality(T) \in Int /\ Load(R, T) \in Int
    BY SomeProcs, OutsideIs
  <2>2. QED BY <2>1
<1>2. QED BY <1>1 DEF Best

LEMMA BestMore ==
    ASSUME NEW R, NEW Q, NEW A, NEW B, Best(R, Q, A), A \subseteq B
    PROVE  Best(R, Q, B)
<1>1. R \in [Procs -> Nat] /\ Q \in [Procs -> Nat] /\ \A p \in Procs : p \notin B => R[p] = Q[p]
  BY DEF Best
<1>2. ASSUME NEW T \in SUBSET Procs
      PROVE  \E S \in SUBSET Procs :
                S \ B = T \ B /\ Cardinality(S) <= Cardinality(T) /\ Load(R, S) <= Load(Q, T)
  <2>1. PICK S \in SUBSET Procs :
            S \ A = T \ A /\ Cardinality(S) <= Cardinality(T) /\ Load(R, S) <= Load(Q, T)
    BY DEF Best
  <2>2. S \ B = T \ B
    BY <2>1
  <2>3. QED BY <2>1, <2>2
<1>3. QED BY <1>1, <1>2 DEF Best

\* The processes that shortest job first completes are at least as many.
LEMMA BestEnds ==
    ASSUME NEW R, NEW Q, NEW A, Best(R, Q, A)
    PROVE  Cardinality(Open(R)) <= Cardinality(Open(Q))
<1>1. R \in [Procs -> Nat] /\ Q \in [Procs -> Nat]
  BY DEF Best
<1>2. PICK T \in SUBSET Procs : T = Open(Q)
  BY DEF Open
<1>3. PICK S \in SUBSET Procs : Cardinality(S) <= Cardinality(T) /\ Load(R, S) <= Load(Q, T)
  BY DEF Best
<1>4. PICK W \in SUBSET Procs : W = Open(R)
  BY DEF Open
<1>5. W \subseteq S
  <2>1. SUFFICES ASSUME NEW x \in Procs, R[x] > 0, x \notin S PROVE FALSE
    BY <1>4 DEF Open
  <2>2. PICK P : P = Procs \ {x}
    OBVIOUS
  <2>3. /\ \A q \in Procs : Outside(R, S)[q] = IF q \in S THEN 0 ELSE R[q]
        /\ \A q \in Procs : Outside(Q, T)[q] = IF q \in T THEN 0 ELSE Q[q]
        /\ \A q \in Procs : Outside(R, Procs)[q] = IF q \in Procs THEN 0 ELSE R[q]
        /\ \A q \in Procs : Outside(R, P)[q] = IF q \in P THEN 0 ELSE R[q]
        /\ Load(R, S) \in Int /\ Load(Q, T) \in Int /\ Load(R, P) \in Int /\ Load(R, Procs) \in Int
    BY <1>1, OutsideIs
  <2>4. \A q \in Procs : Outside(R, P)[q] <= Outside(R, S)[q]
    <3>1. \A q \in Procs : R[q] \in Nat
      BY <1>1
    <3>2. ASSUME NEW q \in Procs PROVE Outside(R, P)[q] <= Outside(R, S)[q]
      <4>1. CASE q = x
        <5>1. Outside(R, P)[q] = R[x] /\ Outside(R, S)[q] = R[x]
          BY <2>1, <2>2, <2>3, <4>1
        <5>2. QED BY <3>1, <5>1
      <4>2. CASE q # x
        <5>1. Outside(R, P)[q] = 0
          BY <2>2, <2>3, <4>2
        <5>2. QED BY <2>3, <3>1, <5>1
      <4>3. QED BY <4>1, <4>2
    <3>3. QED BY <3>2
  <2>5. Load(R, P) <= Load(R, S)
    BY <1>1, <2>4, LoadMono
  <2>6. \A q \in Procs : Outside(Q, T)[q] <= Outside(R, Procs)[q]
    <3>1. \A q \in Procs : q \in T \/ Q[q] = 0
      BY <1>1, <1>2 DEF Open
    <3>2. QED BY <2>3, <3>1
  <2>7. Load(Q, T) <= Load(R, Procs)
    BY <1>1, <2>6, LoadMono
  <2>8. \A q \in Procs : q # x => Outside(R, Procs)[q] = Outside(R, P)[q]
    BY <2>2, <2>3
  <2>9. Load(R, P) = Load(R, Procs) + (Outside(R, P)[x] - Outside(R, Procs)[x])
    BY <1>1, <2>8, LoadChange
  <2>10. Outside(R, P)[x] = R[x] /\ Outside(R, Procs)[x] = 0 /\ R[x] \in Nat
    BY <1>1, <2>2, <2>3
  <2>11. Load(R, P) = Load(R, Procs) + R[x]
    BY <2>3, <2>9, <2>10
  <2>12. QED BY <1>3, <2>1, <2>3, <2>5, <2>7, <2>10, <2>11
<1>6. Cardinality(W) <= Cardinality(S)
  BY <1>5, SomeProcs, FS_Subset
<1>7. Cardinality(W) \in Int /\ Cardinality(S) \in Int /\ Cardinality(T) \in Int
  BY SomeProcs
<1>8. QED BY <1>2, <1>3, <1>4, <1>6, <1>7

\* Where nothing that has arrived is left outside S, the rival has more to do.
LEMMA BestLeft ==
    ASSUME NEW R, NEW Q, NEW A, Best(R, Q, A), NEW T \in SUBSET Procs, NEW S \in SUBSET Procs,
           S \ A = T \ A, NEW y \in Procs, y \in A, y \notin T, Q[y] > 0,
           \A x \in Procs : x \in A /\ x \notin S => R[x] = 0
    PROVE  Load(R, S) < Load(Q, T)
<1>1. R \in [Procs -> Nat] /\ Q \in [Procs -> Nat] /\ \A p \in Procs : p \notin A => R[p] = Q[p]
  BY DEF Best
<1>2. PICK U : U = T \cup {y}
  OBVIOUS
<1>3. /\ \A q \in Procs : Outside(R, S)[q] = IF q \in S THEN 0 ELSE R[q]
      /\ \A q \in Procs : Outside(Q, T)[q] = IF q \in T THEN 0 ELSE Q[q]
      /\ \A q \in Procs : Outside(Q, U)[q] = IF q \in U THEN 0 ELSE Q[q]
      /\ Load(R, S) \in Int /\ Load(Q, T) \in Int /\ Load(Q, U) \in Int
  BY <1>1, OutsideIs
<1>4. ASSUME NEW q \in Procs PROVE Outside(R, S)[q] <= Outside(Q, U)[q]
  <2>1. R[q] \in Nat /\ Q[q] \in Nat
    BY <1>1
  <2>2. CASE q \in A
    <3>1. Outside(R, S)[q] = 0
      BY <1>3, <2>2
    <3>2. QED BY <1>3, <2>1, <3>1
  <2>3. CASE q \notin A
    <3>1. q \in S <=> q \in U
      BY <1>2, <2>3
    <3>2. R[q] = Q[q]
      BY <1>1, <2>3
    <3>3. QED BY <1>3, <2>1, <3>1, <3>2
  <2>4. QED BY <2>2, <2>3
<1>5. Load(R, S) <= Load(Q, U)
  BY <1>1, <1>4, LoadMono
<1>6. \A q \in Procs : q # y => Outside(Q, U)[q] = Outside(Q, T)[q]
  BY <1>2, <1>3
<1>7. Load(Q, T) = Load(Q, U) + (Outside(Q, T)[y] - Outside(Q, U)[y])
  BY <1>1, <1>6, LoadChange
<1>8. Outside(Q, T)[y] = Q[y] /\ Outside(Q, U)[y] = 0 /\ Q[y] \in Nat
  BY <1>1, <1>2, <1>3
<1>9. QED BY <1>3, <1>5, <1>7, <1>8

\* One unit of time: either scheduler may run one of the processes that have arrived,
\* ours one of those with the least work left, and none only if there are none.
LEMMA BestTick ==
    ASSUME NEW R, NEW Q, NEW A, Best(R, Q, A),
           NEW R2 \in [Procs -> Nat], NEW Q2 \in [Procs -> Nat],
           \/ R2 = R /\ \A x \in Procs : x \in A => R[x] = 0
           \/ \E p \in Procs : /\ p \in A /\ R[p] > 0 /\ OneLess(R2, R, p)
                               /\ \A x \in Procs : x \in A /\ R[x] > 0 => R[p] <= R[x],
           Q2 = Q \/ \E y \in Procs : y \in A /\ Q[y] > 0 /\ OneLess(Q2, Q, y)
    PROVE  Best(R2, Q2, A)
<1>1. R \in [Procs -> Nat] /\ Q \in [Procs -> Nat] /\ \A p \in Procs : p \notin A => R[p] = Q[p]
  BY DEF Best
<1>2. ASSUME NEW p \in Procs, p \notin A PROVE R2[p] = Q2[p]
  <2>1. R2[p] = R[p]
    BY <1>2 DEF OneLess
  <2>2. Q2[p] = Q[p]
    BY <1>2 DEF OneLess
  <2>3. QED BY <1>1, <1>2, <2>1, <2>2
<1>3. ASSUME NEW T \in SUBSET Procs
      PROVE  \E S \in SUBSET Procs :
                S \ A = T \ A /\ Cardinality(S) <= Cardinality(T) /\ Load(R2, S) <= Load(Q2, T)
  <2>1. PICK S \in SUBSET Procs :
            S \ A = T \ A /\ Cardinality(S) <= Cardinality(T) /\ Load(R, S) <= Load(Q, T)
    BY DEF Best
  <2>2. Load(R, S) \in Int /\ Load(Q, T) \in Int /\ Load(R2, S) \in Int /\ Load(Q2, T) \in Int
    BY <1>1, OutsideIs
  <2>3. Load(R2, S) <= Load(R, S)
    <3>1. CASE R2 = R
      BY <2>2, <3>1
    <3>2. CASE \E p \in Procs : OneLess(R2, R, p)
      <4>1. PICK p \in Procs : OneLess(R2, R, p)
        BY <3>2
      <4>2. Load(R2, S) = IF p \in S THEN Load(R, S) ELSE Load(R, S) - 1
        BY <1>1, <4>1, LoadLess
      <4>3. QED BY <2>2, <4>2
    <3>3. QED BY <3>1, <3>2
  <2>4. CASE Load(Q2, T) = Load(Q, T)
    <3>1. Load(R2, S) <= Load(Q2, T)
      BY <2>1, <2>2, <2>3, <2>4
    <3>2. QED BY <2>1, <3>1
  <2>5. CASE Load(Q2, T) # Load(Q, T)
    <3>1. PICK y \in Procs : y \in A /\ Q[y] > 0 /\ OneLess(Q2, Q, y)
      BY <2>5
    <3>2. Load(Q2, T) = IF y \in T THEN Load(Q, T) ELSE Load(Q, T) - 1
      BY <1>1, <3>1, LoadLess
    <3>3. y \notin T /\ Load(Q2, T) = Load(Q, T) - 1
      BY <2>5, <3>2
    <3>4. CASE Load(R, S) < Load(Q, T)
      <4>1. Load(R2, S) <= Load(Q2, T)
        BY <2>2, <2>3, <3>3, <3>4
      <4>2. QED BY <2>1, <4>1
    <3>5. CASE ~(Load(R, S) < Load(Q, T))
      <4>1. PICK x \in Procs : x \in A /\ x \notin S /\ R[x] # 0
        BY <2>1, <3>1, <3>3, <3>5, BestLeft
      <4>2. PICK p \in Procs : /\ p \in A /\ R[p] > 0 /\ OneLess(R2, R, p)
                               /\ \A q \in Procs : q \in A /\ R[q] > 0 => R[p] <= R[q]
        BY <4>1
      <4>3. CASE p \notin S
        <5>1. Load(R2, S) = Load(R, S) - 1
          BY <1>1, <4>2, <4>3, LoadLess
        <5>2. Load(R2, S) <= Load(Q2, T)
          BY <2>1, <2>2, <3>3, <5>1
        <5>3. QED BY <2>1, <5>2
      <4>4. CASE p \in S
        <5>1. PICK U \in SUBSET Procs : U = (S \ {p}) \cup {x}
          BY <4>1
        <5>2. R[x] \in Nat /\ R[p] \in Nat /\ R[p] <= R[x]
          <6>1. R[x] \in Nat /\ R[p] \in Nat
            BY <1>1
          <6>2. R[x] > 0
            BY <4>1, <6>1
          <6>3. QED BY <4>1, <4>2, <6>1, <6>2
        <5>3. Load(R, U) = Load(R, S) + (R[p] - R[x])
          BY <1>1, <4>1, <4>4, <5>1, LoadSwap
        <5>4. p \notin U
          BY <4>1, <4>4, <5>1
        <5>5. Load(R2, U) = Load(R, U) - 1
          BY <1>1, <4>2, <5>4, LoadLess
        <5>6. Load(R2, U) <= Load(Q2, T)
          <6>1. Load(R, U) \in Int
            BY <1>1, OutsideIs
          <6>2. Load(R, U) <= Load(R, S)
            BY <2>2, <5>2, <5>3
          <6>3. QED BY <2>1, <2>2, <3>3, <5>5, <6>1, <6>2
        <5>7. U \ A = T \ A
          BY <2>1, <4>1, <4>2, <5>1
        <5>8. Cardinality(U) = Cardinality(S)
          <6>1. IsFiniteSet(S) /\ Cardinality(S) \in Nat
            BY SomeProcs
          <6>2. PICK V : V = S \ {p}
            OBVIOUS
          <6>3. IsFiniteSet(V) /\ Cardinality(V) = Cardinality(S) - 1
            BY <4>4, <6>1, <6>2, FS_RemoveElement
          <6>4. x \notin V /\ U = V \cup {x}
            BY <4>1, <5>1, <6>2
          <6>5. Cardinality(U) = Cardinality(V) + 1
            BY <6>3, <6>4, FS_AddElement
          <6>6. QED BY <6>1, <6>3, <6>5
        <5>9. QED BY <2>1, <5>6, <5>7, <5>8
      <4>5. QED BY <4>3, <4>4
    <3>6. QED BY <3>4, <3>5
  <2>6. QED BY <2>4, <2>5
<1>4. QED BY <1>2, <1>3 DEF Best

Arrived == {p \in Procs : arrival_time[p] <= current_time}

\* Shortest job first and its rival, and how many processes each has completed.
Unbeaten ==
    /\ completed = n - Cardinality(Open(remaining_time))
    /\ rival.completed = n - Cardinality(Open(rival.remaining))
    /\ Best(remaining_time, rival.remaining, Arrived)

LEMMA OpenStart ==
    ASSUME NEW R, \A p \in Procs : R[p] \in Nat \ {0}
    PROVE  n - Cardinality(Open(R)) = 0
<1>1. n \in Nat /\ Open(R) = 1 .. n
  BY SystemAssumption DEF Open, Procs
<1>2. Cardinality(1 .. n) = IF 1 > n THEN 0 ELSE n - 1 + 1
  BY <1>1, FS_Interval
<1>3. QED BY <1>1, <1>2

LEMMA OpenLess ==
    ASSUME NEW R \in [Procs -> Nat], NEW Q \in [Procs -> Nat], NEW p \in Procs, OneLess(R, Q, p), Q[p] > 0
    PROVE  n - Cardinality(Open(R)) =
              IF Q[p] = 1 THEN (n - Cardinality(Open(Q))) + 1 ELSE n - Cardinality(Open(Q))
<1>1. R[p] = Q[p] - 1 /\ Q[p] \in Nat /\ \A q \in Procs : q # p => R[q] = Q[q]
  BY DEF OneLess
<1>2. n \in Nat /\ p \in Open(Q)
  BY SystemAssumption DEF Open
<1>3. IsFiniteSet(Open(Q)) /\ Cardinality(Open(Q)) \in Nat
  BY SomeProcs DEF Open
<1>4. CASE Q[p] = 1
  <2>1. Open(R) = Open(Q) \ {p}
    BY <1>1, <1>4 DEF Open
  <2>2. Cardinality(Open(R)) = Cardinality(Open(Q)) - 1
    BY <1>2, <1>3, <2>1, FS_RemoveElement
  <2>3. n - (Cardinality(Open(Q)) - 1) = (n - Cardinality(Open(Q))) + 1
    BY <1>2, <1>3
  <2>4. QED BY <1>4, <2>2, <2>3
<1>5. CASE Q[p] # 1
  <2>1. \A q \in Procs : R[q] > 0 <=> Q[q] > 0
    BY <1>1, <1>5
  <2>2. Open(R) = Open(Q)
    BY <2>1 DEF Open
  <2>3. QED BY <1>5, <2>2
<1>6. QED BY <1>4, <1>5

LEMMA SchedShortest ==
    ASSUME SchedBase, Unbeaten, sjf_scheduling
    PROVE  SchedBase' /\ Unbeaten'
<1>1. algo = "sjf" /\ UNCHANGED table /\ current_time' = current_time + 1 /\ RivalTick
  BY DEF sjf_scheduling
<1>2. arrival_time' = arrival_time /\ burst_time' = burst_time
  BY <1>1 DEF table
<1>3. current_time \in Nat /\ remaining_time \in [Procs -> Nat] /\ arrival_time \in [Procs -> Nat]
  BY LenProperties DEF SchedBase
<1>4. PICK A : A = Arrived
  OBVIOUS
<1>5. PICK Q \in [Procs -> Nat] : Q = rival.remaining
  BY DEF Unbeaten, Best
<1>6. Best(remaining_time, Q, A)
  BY <1>4, <1>5 DEF Unbeaten
<1>7. \A x \in Procs : (x \in A /\ remaining_time[x] > 0) <=> x \in Ready
  BY <1>4 DEF Ready, Arrived
<1>8. PICK Q2 \in [Procs -> Nat] :
          /\ Q2 = rival'.remaining
          /\ Q2 = Q \/ \E y \in Procs : y \in A /\ Q[y] > 0 /\ OneLess(Q2, Q, y)
          /\ rival'.completed = n - Cardinality(Open(Q2))
  <2>1. rival.completed = n - Cardinality(Open(Q))
    BY <1>5 DEF Unbeaten
  <2>2. CASE rival' = rival
    BY <1>5, <2>1, <2>2
  <2>3. CASE rival' # rival
    <3>1. PICK y \in Procs :
              /\ arrival_time[y] <= current_time /\ Q[y] > 0
              /\ rival' = [remaining |-> [Q EXCEPT ![y] = Q[y] - 1],
                           completed |-> IF Q[y] = 1 THEN rival.completed + 1 ELSE rival.completed]
      BY <1>1, <1>5, <2>3 DEF RivalTick
    <3>2. PICK z : z = [Q EXCEPT ![y] = Q[y] - 1]
      OBVIOUS
    <3>3. z \in [Procs -> Nat] /\ OneLess(z, Q, y)
      BY <3>1, <3>2 DEF OneLess
    <3>4. rival'.remaining = z /\ rival'.completed = IF Q[y] = 1 THEN rival.completed + 1 ELSE rival.completed
      BY <3>1, <3>2
    <3>5. n - Cardinality(Open(z)) = IF Q[y] = 1 THEN (n - Cardinality(Open(Q))) + 1 ELSE n - Cardinality(Open(Q))
      BY <3>1, <3>3, OpenLess
    <3>6. y \in A
      BY <1>4, <3>1 DEF Arrived
    <3>7. QED BY <2>1, <3>1, <3>3, <3>4, <3>5, <3>6
  <2>4. QED BY <2>2, <2>3
<1>9. PICK R2 : R2 = remaining_time'
  OBVIOUS
<1>10. /\ SchedBase' /\ R2 \in [Procs -> Nat]
       /\ completed' = n - Cardinality(Open(R2))
       /\ \/ R2 = remaining_time /\ \A x \in Procs : x \in A => remaining_time[x] = 0
          \/ \E p \in Procs : /\ p \in A /\ remaining_time[p] > 0 /\ OneLess(R2, remaining_time, p)
                              /\ \A x \in Procs : x \in A /\ remaining_time[x] > 0 => remaining_time[p] <= remaining_time[x]
  <2>1. CASE Ready = {}
    <3>1. IdleTick
      BY <2>1 DEF sjf_scheduling
    <3>2. SchedBase'
      BY <1>1, <3>1, TickedIdle
    <3>3. R2 = remaining_time /\ completed' = completed
      BY <1>9, <3>1 DEF IdleTick
    <3>4. \A x \in Procs : x \in A => ~(remaining_time[x] > 0) /\ remaining_time[x] \in Nat
      BY <1>3, <1>7, <2>1
    <3>5. \A x \in Procs : x \in A => remaining_time[x] = 0
      BY <3>4
    <3>6. completed' = n - Cardinality(Open(R2))
      BY <3>3 DEF Unbeaten
    <3>7. QED BY <1>3, <3>2, <3>3, <3>5, <3>6
  <2>2. CASE Ready # {}
    <3>1. PICK p : p = shortest_job
      OBVIOUS
    <3>2. p \in Ready /\ \A q \in Ready : remaining_time[p] <= remaining_time[q]
      <4>1. Ready \subseteq Procs /\ \A q \in Ready : remaining_time[q] \in Int
        BY <1>3 DEF Ready
      <4>2. QED BY <2>2, <3>1, <4>1, FirstLeastIs DEF shortest_job
    <3>3. RunTick(p, burst_time[p])
      BY <2>2, <3>1 DEF sjf_scheduling
    <3>4. p \in Procs /\ remaining_time[p] \in Nat /\ remaining_time[p] >= 1 /\ SchedBase'
      BY <1>1, <3>2, <3>3, Ticked
    <3>5. R2 = [remaining_time EXCEPT ![p] = remaining_time[p] - 1]
      BY <1>9, <3>3 DEF RunTick
    <3>6. R2 \in [Procs -> Nat] /\ OneLess(R2, remaining_time, p) /\ remaining_time[p] > 0
      BY <1>3, <3>4, <3>5 DEF OneLess
    <3>7. n - Cardinality(Open(R2)) =
              IF remaining_time[p] = 1 THEN (n - Cardinality(Open(remaining_time))) + 1
              ELSE n - Cardinality(Open(remaining_time))
      BY <1>3, <3>4, <3>6, OpenLess
    <3>8. completed' = IF remaining_time[p] = 1 THEN completed + 1 ELSE completed
      BY <3>3 DEF RunTick
    <3>9. completed = n - Cardinality(Open(remaining_time))
      BY DEF Unbeaten
    <3>10. completed' = n - Cardinality(Open(R2))
      BY <3>7, <3>8, <3>9
    <3>11. p \in A /\ \A x \in Procs : x \in A /\ remaining_time[x] > 0 => remaining_time[p] <= remaining_time[x]
      BY <1>7, <3>2, <3>4
    <3>12. QED BY <3>4, <3>6, <3>10, <3>11
  <2>3. QED BY <2>1, <2>2
<1>11. Best(R2, Q2, A)
  <2>1. R2 \in [Procs -> Nat]
    BY <1>10
  <2>2. QED BY <1>6, <1>8, <1>10, <2>1, BestTick
<1>12. PICK B : B = Arrived'
  OBVIOUS
<1>13. A \subseteq B
  <2>1. \A x \in Procs : arrival_time[x] <= current_time => arrival_time[x] <= current_time + 1
    BY <1>3
  <2>2. QED BY <1>1, <1>2, <1>4, <1>12, <2>1 DEF Arrived, Procs
<1>14. Best(R2, Q2, B)
  BY <1>11, <1>13, BestMore
<1>15. Unbeaten'
  BY <1>8, <1>9, <1>10, <1>12, <1>14 DEF Unbeaten
<1>16. QED BY <1>10, <1>15

-----------------------------------------------------------------------------

SchedInv ==
    /\ SchedBase
    /\ algo = "fcfs" => InTurn
    /\ algo = "sjf" => Unbeaten
    /\ algo = "priority" => Respects(ran, arrival_time, burst_time, priority)
    /\ algo = "rr" => NoneStarves

LEMMA SchedInit == Init => SchedInv
<1> SUFFICES ASSUME Init PROVE SchedInv
  OBVIOUS
<1>1. SchedBase
  BY SchedStart
<1>2. n \in Nat
  BY SystemAssumption
<1>3. /\ i = 1 /\ completed = 0 /\ ran = <<>> /\ remaining_time = burst_time
      /\ rival = [remaining |-> burst_time, completed |-> 0]
  BY DEF Init
<1>4. Len(ran) = 0
  BY <1>3, EmptySeq
<1>5. InTurn
  BY <1>2, <1>3 DEF InTurn
<1>6. Unbeaten
  <2>1. burst_time \in [Procs -> Nat] /\ \A p \in Procs : burst_time[p] \in Nat \ {0}
    BY <1>1 DEF SchedBase
  <2>2. n - Cardinality(Open(burst_time)) = 0
    BY <2>1, OpenStart
  <2>3. PICK A : A = Arrived
    OBVIOUS
  <2>4. Best(burst_time, burst_time, A)
    BY <2>1, BestStart
  <2>5. rival.remaining = burst_time /\ rival.completed = 0
    BY <1>3
  <2>6. QED BY <1>3, <2>2, <2>3, <2>4, <2>5 DEF Unbeaten
<1>7. Respects(ran, arrival_time, burst_time, priority)
  BY <1>4 DEF Respects
<1>8. NoneStarves
  <2>1. ASSUME NEW p \in Procs PROVE Recent(ran, p, Away(p, i))
    <3>1. PICK d \in Nat : d = Away(p, i)
      BY <1>2, <1>3 DEF Away, Procs
    <3>2. 0 - 0 <= d * TIME_QUANTUM
      <4>1. d * TIME_QUANTUM \in Nat
        BY SystemAssumption
      <4>2. QED BY <4>1
    <3>3. QED BY <1>4, <3>1, <3>2 DEF Recent
  <2>2. QED BY <1>3, <2>1 DEF NoneStarves
<1>9. QED BY <1>1, <1>5, <1>6, <1>7, <1>8 DEF SchedInv

LEMMA SchedStep == SchedInv /\ [Next]_vars => SchedInv'
<1> SUFFICES ASSUME SchedInv, [Next]_vars PROVE SchedInv'
  OBVIOUS
<1>1. SchedBase
  BY DEF SchedInv
<1>2. CASE fcfs_scheduling
  <2>1. algo = "fcfs" /\ algo' = algo
    BY <1>2 DEF fcfs_scheduling, table
  <2>2. SchedBase' /\ InTurn'
    BY <1>1, <1>2, <2>1, SchedFcfs DEF SchedInv
  <2>3. QED BY <2>1, <2>2 DEF SchedInv
<1>3. CASE sjf_scheduling
  <2>1. algo = "sjf" /\ algo' = algo
    BY <1>3 DEF sjf_scheduling, table
  <2>2. SchedBase' /\ Unbeaten'
    BY <1>1, <1>3, <2>1, SchedShortest DEF SchedInv
  <2>3. QED BY <2>1, <2>2 DEF SchedInv
<1>4. CASE priority_scheduling
  <2>1. algo = "priority" /\ algo' = algo
    BY <1>4 DEF priority_scheduling, table
  <2>2. SchedBase' /\ Respects(ran', arrival_time', burst_time', priority')
    BY <1>1, <1>4, <2>1, SchedPriority DEF SchedInv
  <2>3. QED BY <2>1, <2>2 DEF SchedInv
<1>5. CASE round_robin_scheduling
  <2>1. algo = "rr" /\ algo' = algo
    BY <1>5 DEF round_robin_scheduling, table
  <2>2. SchedBase' /\ NoneStarves'
    BY <1>1, <1>5, <2>1, SchedTurn DEF SchedInv
  <2>3. QED BY <2>1, <2>2 DEF SchedInv
<1>6. CASE UNCHANGED vars
  <2>1. /\ algo' = algo /\ arrival_time' = arrival_time /\ burst_time' = burst_time /\ priority' = priority
        /\ remaining_time' = remaining_time /\ waiting_time' = waiting_time /\ turnaround_time' = turnaround_time
        /\ current_time' = current_time /\ completed' = completed /\ i' = i /\ ran' = ran /\ rival' = rival
    BY <1>6 DEF vars, table
  <2>2. Arrived' = Arrived /\ Procs' = Procs
    BY <2>1 DEF Arrived, Procs
  <2>3. \A p \in Procs : Told(p)' = Told(p)
    BY <2>1 DEF Told
  <2>4. SchedBase'
    BY <1>1, <2>1, <2>2, <2>3 DEF SchedBase
  <2>5. InTurn' = InTurn
    BY <2>1 DEF InTurn
  <2>6. Unbeaten' = Unbeaten
    BY <2>1, <2>2 DEF Unbeaten
  <2>7. NoneStarves' = NoneStarves
    BY <2>1, <2>2 DEF NoneStarves
  <2>8. QED BY <2>1, <2>4, <2>5, <2>6, <2>7 DEF SchedInv
<1>7. QED BY <1>2, <1>3, <1>4, <1>5, <1>6 DEF Next

LEMMA SchedEnd == SchedInv => SchedulesKept
<1> SUFFICES ASSUME SchedInv PROVE SchedulesKept
  OBVIOUS
<1>1. SchedBase
  BY DEF SchedInv
<1>2. PICK L \in Nat : L = Len(ran) /\ ran \in Seq(0 .. n)
  BY <1>1, LenProperties DEF SchedBase
<1>3. \A p : UnitsOf(p) = Units(ran, p)
  BY DEF UnitsOf, Units
<1>4. ASSUME NEW p \in Procs
      PROVE  /\ burst_time[p] \in Nat /\ remaining_time[p] \in Nat /\ arrival_time[p] \in Nat
             /\ Cardinality(Units(ran, p)) = burst_time[p] - remaining_time[p]
  BY <1>1 DEF SchedBase
<1>5. TimesExact
  <2>1. SUFFICES ASSUME NEW p \in Procs, algo # "fcfs", Finished(p)
                 PROVE  /\ turnaround_time[p] = FinishOf(p) - arrival_time[p]
                        /\ algo # "priority" => waiting_time[p] = Passed(p) - arrival_time[p]
    BY DEF TimesExact
  <2>2. remaining_time[p] = 0
    <3>1. Cardinality(Units(ran, p)) = burst_time[p]
      BY <1>3, <2>1 DEF Finished
    <3>2. QED BY <1>4, <3>1
  <2>3. Told(p)
    BY <1>1, <2>1, <2>2 DEF SchedBase
  <2>4. PICK t \in Units(ran, p) :
          /\ \A u \in Units(ran, p) : u <= t
          /\ turnaround_time[p] = t - arrival_time[p]
          /\ waiting_time[p] = IF algo = "priority" THEN t - arrival_time[p]
                               ELSE t - burst_time[p] - arrival_time[p]
    BY <2>3 DEF Told
  <2>5. \A u \in Units(ran, p) : u \in Nat
    BY <1>2 DEF Units
  <2>6. FinishOf(p) = t
    <3>1. FinishOf(p) \in Units(ran, p) /\ \A u \in Units(ran, p) : u <= FinishOf(p)
      BY <1>3, <2>4 DEF FinishOf
    <3>2. QED BY <2>4, <2>5, <3>1
  <2>7. Passed(p) = t - burst_time[p]
    BY <2>6 DEF Passed
  <2>8. QED BY <2>4, <2>6, <2>7
<1>6. PriorityRespected
  <2>1. SUFFICES ASSUME algo = "priority", NEW t \in 1 .. Len(ran), NEW q \in Procs,
                        arrival_time[q] < t, LeftAt(q, t) > 0
                 PROVE  ran[t] # Nobody /\ priority[ran[t]] <= priority[q]
    BY DEF PriorityRespected
  <2>2. Respects(ran, arrival_time, burst_time, priority)
    BY <2>1 DEF SchedInv
  <2>3. burst_time[q] - Cardinality({u \in Units(ran, q) : u < t}) > 0
    BY <1>3, <2>1 DEF LeftAt
  <2>4. QED BY <2>1, <2>2, <2>3 DEF Respects, Nobody
<1>7. ShortestJobBest
  <2>1. SUFFICES ASSUME algo = "sjf" PROVE completed >= rival.completed
    BY DEF ShortestJobBest
  <2>2. /\ completed = n - Cardinality(Open(remaining_time))
        /\ rival.completed = n - Cardinality(Open(rival.remaining))
    BY <2>1 DEF SchedInv, Unbeaten
  <2>3. Cardinality(Open(remaining_time)) <= Cardinality(Open(rival.remaining))
    BY <2>1, BestEnds DEF SchedInv, Unbeaten
  <2>4. Cardinality(Open(remaining_time)) \in Nat /\ Cardinality(Open(rival.remaining)) \in Nat /\ n \in Nat
    BY SomeProcs, SystemAssumption DEF Open
  <2>5. QED BY <2>2, <2>3, <2>4
<1>8. NoStarvation
  <2>1. SUFFICES ASSUME algo = "rr", NEW p \in Procs, LeftAt(p, Len(ran) + 1) > 0
                 PROVE  \/ Len(ran) <= (n - 1) * TIME_QUANTUM
                        \/ \E t \in Len(ran) - (n - 1) * TIME_QUANTUM .. Len(ran) : ran[t] = p
    BY DEF NoStarvation
  <2>2. NoneStarves /\ n \in Nat /\ TIME_QUANTUM \in Nat
    BY <2>1, SystemAssumption DEF SchedInv
  <2>3. {u \in UnitsOf(p) : u < Len(ran) + 1} = Units(ran, p)
    BY <1>2, <1>3 DEF Units
  <2>4. remaining_time[p] > 0
    <3>1. LeftAt(p, Len(ran) + 1) = burst_time[p] - (burst_time[p] - remaining_time[p])
      BY <1>4, <2>3 DEF LeftAt
    <3>2. QED BY <1>4, <2>1, <3>1
  <2>5. p \in 1 .. n /\ i \in 1 .. n
    BY <2>2 DEF Procs, NoneStarves
  <2>6. PICK d \in Nat : d = Away(p, i) /\ d <= n - 1
    BY <2>2, <2>5, NextTurn
  <2>7. PICK u \in 0 .. Len(ran) : (u = 0 \/ ran[u] = p) /\ Len(ran) - u <= d * TIME_QUANTUM
    BY <2>2, <2>4, <2>6 DEF NoneStarves, Recent
  <2>8. PICK x \in Nat : x = (n - 1) * TIME_QUANTUM /\ d * TIME_QUANTUM <= x
    <3>1. PICK c \in Nat : c = (n - 1) - d
      BY <2>2, <2>5, <2>6
    <3>2. n - 1 = d + c
      BY <2>2, <2>6, <3>1
    <3>3. (d + c) * TIME_QUANTUM = d * TIME_QUANTUM + c * TIME_QUANTUM
          /\ d * TIME_QUANTUM \in Nat /\ c * TIME_QUANTUM \in Nat
      BY <2>2
    <3>4. QED BY <3>2, <3>3
  <2>9. PICK e \in Int : e = d * TIME_QUANTUM
    BY <2>2
  <2>10. L - u <= x
    BY <1>2, <2>7, <2>8, <2>9
  <2>11. CASE u = 0
    BY <1>2, <2>8, <2>10, <2>11
  <2>12. CASE u # 0
    <3>1. u \in L - x .. L
      BY <1>2, <2>10
    <3>2. QED BY <1>2, <2>7, <2>8, <2>12, <3>1
  <2>13. QED BY <2>11, <2>12
<1>9. QueueTimes
  <2>1. CASE algo = "fcfs"
    BY <1>1, <2>1, InTurnIs DEF SchedInv
  <2>2. CASE algo # "fcfs"
    BY <2>2 DEF QueueTimes
  <2>3. QED BY <2>1, <2>2
<1>10. QED BY <1>5, <1>6, <1>7, <1>8, <1>9 DEF SchedulesKept

-----------------------------------------------------------------------------
(* The programs together *)

\* The invariant of the program that runs.
SystemInv ==
    /\ program = "schedule" => SchedInv
    /\ program = "blocks" => BlocksInv
    /\ program = "files" => FilesInv
    /\ program = "log" => LogInv
    /\ program = "prefetch" => PrefetchInv
    /\ program = "buffer" => BufferInv
    /\ program = "regions" => RegionInv
    /\ program = "index" => IndexInv
    /\ program = "directory" => DirInv

LEMMA SystemStart == MCInit => SystemInv
BY SchedInit, BlocksStart, FilesStart, LogStart, PrefetchStart, BufferStart, RegionsStart,
   IndexStart, DirStart DEF MCInit, SystemInv

LEMMA SystemStep == SystemInv /\ [MCNext]_allVars => SystemInv'
<1> SUFFICES ASSUME SystemInv, [MCNext]_allVars PROVE SystemInv'
  OBVIOUS
<1>1. CASE MCNext
  <2>1. program' = program
    BY <1>1 DEF MCNext
  <2>2. program = "schedule" => SchedInv'
    BY <1>1, SchedStep DEF MCNext, SystemInv
  <2>3. program = "blocks" => BlocksInv'
    BY <1>1, BlocksStep DEF MCNext, SystemInv
  <2>4. program = "files" => FilesInv'
    BY <1>1, FilesStep DEF MCNext, SystemInv
  <2>5. program = "log" => LogInv'
    BY <1>1, LogStep DEF MCNext, SystemInv
  <2>6. program = "prefetch" => PrefetchInv'
    BY <1>1, PrefetchStep DEF MCNext, SystemInv
  <2>7. program = "buffer" => BufferInv'
    BY <1>1, BufferStep DEF MCNext, SystemInv
  <2>8. program = "regions" => RegionInv'
    BY <1>1, RegionsStep DEF MCNext, SystemInv
  <2>9. program = "index" => IndexInv'
    BY <1>1, IndexStep DEF MCNext, SystemInv
  <2>10. program = "directory" => DirInv'
    BY <1>1, DirStep DEF MCNext, SystemInv
  <2>11. QED BY <2>1, <2>2, <2>3, <2>4, <2>5, <2>6, <2>7, <2>8, <2>9, <2>10 DEF SystemInv
<1>2. CASE UNCHANGED allVars
  <2>1. program' = program
    BY <1>2 DEF allVars
  <2>2. SchedInv => SchedInv'
    BY <1>2, SchedStep DEF allVars
  <2>3. BlocksInv => BlocksInv'
    BY <1>2 DEF allVars, blockVars, BlocksInv
  <2>4. FilesInv => FilesInv'
    <3>1. /\ open_files' = open_files /\ file_count' = file_count /\ offsets' = offsets
          /\ close_failed' = close_failed
      BY <1>2 DEF allVars, fileVars
    <3>2. Files!FilesKept' = Files!FilesKept /\ (Files!Handles)' = Files!Handles
      BY <3>1 DEF Files!FilesKept, Files!CountKept, Files!NoneLeaked, Files!HandlesExact, Files!Busy, Files!FreeHandles,
                  Files!Handles, Files!Used
    <3>3. QED BY <3>1, <3>2 DEF FilesInv
  <2>5. LogInv => LogInv'
    <3>1. /\ journal_entries' = journal_entries /\ journal_count' = journal_count /\ live' = live
          /\ destroyed' = destroyed /\ committed' = committed /\ logged' = logged
      BY <1>2 DEF allVars, logVars
    <3>2. (Log!Pending)' = Log!Pending
      BY <3>1 DEF Log!Pending
    <3>3. /\ (Log!OnceInOrder)' = Log!OnceInOrder /\ (Log!IdsRestart)' = Log!IdsRestart
          /\ (Log!BuffersFreed)' = Log!BuffersFreed
      BY <3>1, <3>2 DEF Log!OnceInOrder, Log!IdsRestart, Log!BuffersFreed
    <3>4. QED BY <3>1, <3>3 DEF LogInv
  <2>6. PrefetchInv => PrefetchInv'
    <3>1. /\ queue' = queue /\ heat_map' = heat_map /\ accesses' = accesses
          /\ predicted' = predicted
      BY <1>2 DEF allVars, queueVars
    <3>2. /\ (Prefetch!Blocks)' = Prefetch!Blocks /\ HeatAdded' = HeatAdded
          /\ (Latest(predicted))' = Latest(predicted)
          /\ \A b : (Prefetch!Weight(b))' = Prefetch!Weight(b)
      BY <3>1 DEF Prefetch!Blocks, HeatAdded, Latest, Prefetch!Weight, Prefetch!Ahead
    <3>3. QED BY <3>1, <3>2 DEF PrefetchInv
  <2>7. BufferInv => BufferInv'
    BY <1>2 DEF allVars, bufferVars, BufferInv, Unread, Delivered, FromFile
  <2>8. RegionInv => RegionInv'
    BY <1>2 DEF allVars, regionVars, RegionInv
  <2>9. IndexInv => IndexInv'
    <3>1. /\ idx' = idx /\ indirect_blocks' = indirect_blocks /\ used' = used
          /\ addresses' = addresses
      BY <1>2 DEF allVars, indexVars
    <3>2. /\ (Index!Double)' = Index!Double /\ (Index!Single)' = Index!Single
          /\ (Index!Addresses)' = Index!Addresses /\ (Index!Entries)' = Index!Entries
          /\ D' = D /\ I' = I /\ Indexed' = Indexed /\ Indirect' = Indirect
      BY <3>1 DEF Index!Addresses, Index!Entries, Index!Double, Index!Single, D, I, Indexed, Indirect
    <3>3. IndexInv' = IndexInv
      BY <3>1, <3>2, Zenon DEF IndexInv
    <3>4. QED BY <3>3
  <2>10. DirInv => DirInv'
    <3>1. /\ entries' = entries /\ slots' = slots /\ count' = count /\ file' = file
          /\ pending' = pending /\ restarted' = restarted /\ expected' = expected
          /\ spoiled' = spoiled
      BY <1>2 DEF allVars, directoryVars
    <3>2. /\ Recs' = Recs /\ FileGood' = FileGood /\ (Directory!None)' = Directory!None
          /\ EmptyDir' = EmptyDir
      BY <3>1 DEF Recs, FileGood, Directory!None, EmptyDir
    <3>3. Rebuilt' = Rebuilt
      BY <3>2 DEF Rebuilt
    <3>4. /\ (Matches(Rebuilt, expected))' = Matches(Rebuilt, expected)
          /\ (Directory!Apply(entries, pending))' = Directory!Apply(entries, pending)
      BY <3>1, <3>3
    <3>5. DirGood' = DirGood
      BY <3>1, <3>2, <3>3, <3>4 DEF DirGood
    <3>6. QED BY <3>1, <3>5 DEF DirInv
  <2>11. QED BY <2>1, <2>2, <2>3, <2>4, <2>5, <2>6, <2>7, <2>8, <2>9, <2>10 DEF SystemInv
<1>3. QED BY <1>1, <1>2

LEMMA SystemKept == MCSpec => []SystemInv
BY SystemStart, SystemStep, PTL DEF MCSpec

\* For every table of processes and every quantum, the times reported by the four
\* schedulers are those of the schedule that was run, but for the waiting times of
\* priority_scheduling, which are wrong and of which nothing is claimed; nobody waits for a process of lower priority, no other scheduler has
\* completed more processes at any moment than sjf_scheduling, and
\* round_robin_scheduling lets nobody wait longer than one quantum of each of the others.
THEOREM ScheduleTimes == MCSpec => []SchedulesExact
<1>1. SystemInv => SchedulesExact
  BY SchedEnd DEF SystemInv, SchedulesExact
<1>2. QED BY <1>1, SystemKept, PTL

\* For every size of the disk, the tables of the file systems of d25, d26 and d27 say
\* what is really given out: the allocators give no block to two files and break no
\* chain, no descriptor is in use without an open file and, while no close has failed,
\* no two open files share one, the free regions are exactly the free blocks, and the
\* index of a file finds each of its blocks up to the double indirect level.  Nothing
\* is claimed of the triple one, nor of adjoining regions among three or more.
THEOREM StorageTables == MCSpec => []StorageExact
<1>1. SystemInv => StorageExact
  BY BlocksEnd, FilesEnd, RegionsEnd, IndexEnd DEF SystemInv, StorageExact
<1>2. QED BY <1>1, SystemKept, PTL

\* For every capacity, journal and checkpoints together hold every transaction of
\* log_transaction once, in order; update_access_pattern keeps the latest predictions,
\* among which is the hottest block or one as hot; and buffer_read delivers every byte
\* at its place until a read fails, and only the stale bytes of its buffer from then
\* on.
THEOREM NothingReordered == MCSpec => []RecordsInOrder
<1>1. SystemInv => RecordsInOrder
  BY LogEnd, PrefetchEnd, BufferEnd DEF SystemInv, RecordsInOrder
<1>2. QED BY <1>1, SystemKept, PTL

\* For every size of the directory and of its journal, what recover_directory_state
\* makes of the journal after crashes at any moment is what was logged, unless records
\* follow one that a crash has torn, which the code itself cannot recover, or the run
\* is spoiled in another of the ways that Directories lists.
THEOREM CrashesSurvived == MCSpec => []DirectoryRecovered
<1>1. SystemInv => DirectoryRecovered
  BY DirEnd DEF SystemInv, DirectoryRecovered
<1>2. QED BY <1>1, SystemKept, PTL
=============================================================================
