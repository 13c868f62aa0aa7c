--------------------------- MODULE ZipReaderProofs ---------------------------
(***************************************************************************)
(* What unzip.c makes of a package, proved for any package: it opens only  *)
(* what is all there, it goes from each entry to the next, and it delivers *)
(* all of a file unless the card or the inflater gives up.  The recursive  *)
(* functions of the reader are reasoned about by induction along 0..n,     *)
(* with the predicate given by the set where it holds.                     *)
(***************************************************************************)
EXTENDS ZipReader, WellFoundedInduction, TLAPS

\* The least number outside of S would have a predecessor in it.
LEMMA InductionUpTo ==
  ASSUME NEW n \in Nat, NEW S, 0 \in S,
         \A m \in Nat : m < n /\ m \in S => m + 1 \in S
  PROVE  \A m \in 0..n : m \in S
<1> DEFINE R == {ss \in Nat \X Nat : ss[1] < ss[2]}
           Bad == {m \in Nat : m <= n /\ m \notin S}
<1>1. OpToRel(<, Nat) = R
  BY Zenon DEF OpToRel
<1>2. IsWellFoundedOn(R, Nat)
  BY <1>1, NatLessThanWellFounded, Zenon
<1>3. Bad = {}
  <2>1. SUFFICES ASSUME Bad # {} PROVE FALSE
    OBVIOUS
  <2>2. PICK m \in Bad : \A y \in Bad : ~(<<y, m>> \in R)
    <3>1. Bad \subseteq Nat
      OBVIOUS
    <3> HIDE DEF R, Bad
    <3>2. QED
      BY <1>2, <2>1, <3>1, WFMin
  <2>3. m \in Nat /\ m # 0 /\ m <= n /\ m \notin S
    OBVIOUS
  <2>4. m - 1 \in Nat /\ m - 1 < m /\ m - 1 < n /\ (m - 1) + 1 = m
    BY <2>3
  <2>5. m - 1 \notin Bad
    BY <2>2, <2>4
  <2>6. QED
    BY <2>3, <2>4, <2>5
<1>4. QED
  BY <1>3

\* Functions that say how each of N values of V follows from the one before it,
\* and the sequence of values that follows from the first.
Steps(N, V) == [1..N -> [V -> V]]

Follows(f, N, V, first, step) ==
  /\ f \in [0..N -> V]
  /\ f[0] = first
  /\ \A j \in 1..N : f[j] = step[j][f[j - 1]]

\* Such a sequence exists.
LEMMA RecursionUpTo ==
  ASSUME NEW N \in Nat, NEW V, NEW first, NEW step,
         first \in V, step \in Steps(N, V)
  PROVE  \E f : Follows(f, N, V, first, step)
<1> USE DEF Steps
<1> DEFINE Upto(f, n) == f[0] = first /\ \A j \in 1..n : f[j] = step[j][f[j - 1]]
           Good == {n \in Nat : n <= N => \E f \in [0..n -> V] : Upto(f, n)}
<1>1. 0 \in Good
  <2> DEFINE f == [j \in 0..0 |-> first]
  <2>1. f \in [0..0 -> V] /\ f[0] = first /\ 1..0 = {}
    OBVIOUS
  <2> HIDE DEF f
  <2>2. QED
    BY <2>1
<1>2. ASSUME NEW n \in Nat, n < N, n \in Good PROVE n + 1 \in Good
  <2>1. PICK g \in [0..n -> V] : Upto(g, n)
    BY <1>2
  <2> DEFINE last == step[n + 1][g[n]]
             f == [j \in 0..(n + 1) |-> IF j = n + 1 THEN last ELSE g[j]]
  <2>2. last \in V
    <3>1. n \in 0..n /\ n + 1 \in 1..N
      BY <1>2
    <3>2. g[n] \in V /\ step[n + 1] \in [V -> V]
      BY <3>1
    <3>3. QED
      BY <3>2
  <2>3. f \in [0..(n + 1) -> V]
    <3> HIDE DEF last
    <3>1. \A j \in 0..(n + 1) : j # n + 1 => j \in 0..n
      OBVIOUS
    <3>2. QED
      BY <2>2, <3>1
  <2>4. f[n + 1] = last /\ \A j \in 0..n : f[j] = g[j]
    OBVIOUS
  <2> HIDE DEF f
  <2>5. Upto(f, n + 1)
    <3>1. f[0] = first
      BY <2>1, <2>4
    <3>2. ASSUME NEW j \in 1..(n + 1) PROVE f[j] = step[j][f[j - 1]]
      <4>1. CASE j = n + 1
        <5>1. j - 1 = n /\ n \in 0..n
          BY <4>1
        <5>2. QED
          BY <2>4, <4>1, <5>1
      <4>2. CASE j # n + 1
        <5>1. j \in 1..n /\ j \in 0..n /\ j - 1 \in 0..n
          BY <4>2
        <5>2. QED
          BY <2>1, <2>4, <5>1
      <4>3. QED
        BY <4>1, <4>2
    <3>3. QED
      BY <3>1, <3>2
  <2>6. QED
    BY <2>3, <2>5
<1>3. N \in Good
  <2> HIDE DEF Good
  <2>1. \A m \in Nat : m < N /\ m \in Good => m + 1 \in Good
    BY <1>2
  <2>2. N \in 0..N
    OBVIOUS
  <2>3. QED
    BY <1>1, <2>1, <2>2, InductionUpTo
<1>4. QED
  BY <1>3 DEF Follows

----------------------------------------------------------------------------
(* Opening a package. *)

\* A function that adds up numbers exists, and its values are numbers.
LEMMA SumUpTo ==
  ASSUME NEW N \in Nat, NEW size \in [1..N -> Int]
  PROVE  /\ \E f : f = [j \in 0..N |-> IF j = 0 THEN 0 ELSE f[j - 1] + size[j]]
         /\ \A f : f = [j \in 0..N |-> IF j = 0 THEN 0 ELSE f[j - 1] + size[j]]
                     => f[N] \in Int
<1>1. \E f : f = [j \in 0..N |-> IF j = 0 THEN 0 ELSE f[j - 1] + size[j]]
  <2> DEFINE step == [j \in 1..N |-> [v \in Int |-> v + size[j]]]
  <2>1. step \in [1..N -> [Int -> Int]]
    OBVIOUS
  <2>2. \A j \in 1..N, v \in Int : step[j][v] = v + size[j]
    OBVIOUS
  <2> HIDE DEF step
  <2>3. PICK f \in [0..N -> Int] : f[0] = 0 /\ \A j \in 1..N : f[j] = step[j][f[j - 1]]
    <3>1. step \in Steps(N, Int)
      BY <2>1 DEF Steps
    <3>2. \E f : Follows(f, N, Int, 0, step)
      BY <3>1, RecursionUpTo
    <3>3. QED
      BY <3>2 DEF Follows
  <2>4. ASSUME NEW j \in 1..N PROVE f[j] = f[j - 1] + size[j]
    <3>1. j - 1 \in 0..N
      OBVIOUS
    <3>2. f[j - 1] \in Int
      BY <3>1
    <3>3. QED
      BY <2>2, <2>3, <3>2
  <2>5. f = [j \in 0..N |-> IF j = 0 THEN 0 ELSE f[j - 1] + size[j]]
    BY <2>3, <2>4
  <2>6. QED
    BY <2>5
<1>2. ASSUME NEW f, f = [j \in 0..N |-> IF j = 0 THEN 0 ELSE f[j - 1] + size[j]]
      PROVE  f[N] \in Int
  <2> DEFINE Good == {j \in Nat : j <= N => f[j] \in Int}
  <2>1. 0 \in Good
    <3>1. f[0] = 0
      BY <1>2
    <3>2. QED
      BY <3>1
  <2>2. ASSUME NEW j \in Nat, j < N, j \in Good PROVE j + 1 \in Good
    <3>1. j + 1 \in 1..N /\ j + 1 \in 0..N /\ j + 1 # 0 /\ (j + 1) - 1 = j
      BY <2>2
    <3>2. f[j + 1] = f[(j + 1) - 1] + size[j + 1]
      BY <1>2, <3>1
    <3>3. f[j] \in Int /\ size[j + 1] \in Int
      BY <2>2, <3>1
    <3>4. QED
      BY <3>1, <3>2, <3>3
  <2>3. \A j \in Nat : j < N /\ j \in Good => j + 1 \in Good
    BY <2>2
  <2> HIDE DEF Good
  <2>4. N \in 0..N
    OBVIOUS
  <2>5. N \in Good
    BY <2>1, <2>3, <2>4, InductionUpTo
  <2>6. QED
    BY <2>5 DEF Good
<1>3. QED
  BY <1>1, <1>2

LEMMA LocalTotal ==
  ASSUME NEW q \in Seq(Entries)
  PROVE  Total(LocalSize, q) \in Int
<1> DEFINE N == Len(q)
           size == [j \in 1..N |-> LocalSize(q[j])]
           Body(f) == [j \in 0..N |-> IF j = 0 THEN 0 ELSE f[j - 1] + LocalSize(q[j])]
           k == CHOOSE f : f = Body(f)
<1>1. N \in Nat /\ size \in [1..N -> Int]
  <2>1. N \in Nat /\ \A j \in 1..N : q[j] \in Entries
    OBVIOUS
  <2>2. \A e \in Entries : LocalSize(e) \in Int
    BY DEF LocalSize, Entries, LocalHeader, Descriptor
  <2>3. QED
    BY <2>1, <2>2
<1>2. \A f : Body(f) = [j \in 0..N |-> IF j = 0 THEN 0 ELSE f[j - 1] + size[j]]
  <2> HIDE DEF N
  <2>1. \A j \in 0..N : j # 0 => size[j] = LocalSize(q[j])
    BY <1>1
  <2>2. QED
    BY <2>1
<1>3. Total(LocalSize, q) = k[N]
  BY DEF Total
<1> HIDE DEF size, N, Body
<1>4. \E f : f = Body(f)
  BY <1>1, <1>2, SumUpTo
<1>5. k = Body(k)
  BY <1>4
<1>6. k[N] \in Int
  <2> HIDE DEF k
  <2>1. QED
    BY <1>1, <1>2, <1>5, SumUpTo
<1>7. QED
  BY <1>3, <1>6

\* The sizes of the first j headers together, for each j.
Sums(q) ==
  CHOOSE f : f = [j \in 0..Len(q) |-> IF j = 0 THEN 0 ELSE f[j - 1] + CentralSize(q[j])]

LEMMA SumsAre ==
  ASSUME NEW q \in Seq(Entries)
  PROVE  /\ Sums(q) = [j \in 0..Len(q) |->
                         IF j = 0 THEN 0 ELSE Sums(q)[j - 1] + CentralSize(q[j])]
         /\ Total(CentralSize, q) = Sums(q)[Len(q)]
<1> DEFINE N == Len(q)
           size == [j \in 1..N |-> CentralSize(q[j])]
           Body(f) == [j \in 0..N |-> IF j = 0 THEN 0 ELSE f[j - 1] + CentralSize(q[j])]
           k == CHOOSE f : f = Body(f)
<1>1. N \in Nat /\ size \in [1..N -> Int]
  <2>1. N \in Nat /\ \A j \in 1..N : q[j] \in Entries
    OBVIOUS
  <2>2. \A e \in Entries : CentralSize(e) \in Int
    BY DEF CentralSize, Entries, CentralHeader
  <2>3. QED
    BY <2>1, <2>2
<1>2. \A f : Body(f) = [j \in 0..N |-> IF j = 0 THEN 0 ELSE f[j - 1] + size[j]]
  <2> HIDE DEF N
  <2>1. \A j \in 0..N : j # 0 => size[j] = CentralSize(q[j])
    BY <1>1
  <2>2. QED
    BY <2>1
<1>3. Total(CentralSize, q) = k[N] /\ Sums(q) = k
  BY DEF Total, Sums
<1> HIDE DEF size, Body
<1>4. \E f : f = Body(f)
  <2> HIDE DEF N
  <2>1. QED
    BY <1>1, <1>2, SumUpTo
<1>5. k = Body(k)
  BY <1>4
<1>6. QED
  <2> HIDE DEF k
  <2>1. QED
    BY <1>3, <1>5 DEF Body

LEMMA SumsAt ==
  ASSUME NEW q \in Seq(Entries)
  PROVE  /\ Sums(q)[0] = 0
         /\ \A j \in 1..Len(q) : Sums(q)[j] = Sums(q)[j - 1] + CentralSize(q[j])
<1>1. Len(q) \in Nat
  OBVIOUS
<1>2. \A j \in 1..Len(q) : j \in 0..Len(q) /\ j # 0
  BY <1>1
<1>3. 0 \in 0..Len(q)
  BY <1>1
<1> DEFINE s == Sums(q)
<1>4. s = [j \in 0..Len(q) |-> IF j = 0 THEN 0 ELSE s[j - 1] + CentralSize(q[j])]
  BY SumsAre
<1> HIDE DEF s
<1>5. s[0] = 0 /\ \A j \in 1..Len(q) : s[j] = s[j - 1] + CentralSize(q[j])
  BY <1>2, <1>3, <1>4
<1>6. QED
  BY <1>5 DEF s

\* The sums over the beginning of a directory are the first ones of the whole.
LEMMA SumsOfPrefix ==
  ASSUME NEW q \in Seq(Entries), NEW n \in 0..Len(q)
  PROVE  Total(CentralSize, SubSeq(q, 1, n)) = Sums(q)[n]
<1> DEFINE p == SubSeq(q, 1, n)
           s == Sums(q)
           t == Sums(p)
           Good == {j \in Nat : j <= n => t[j] = s[j]}
<1>1. p \in Seq(Entries) /\ Len(p) = n /\ n \in Nat /\ \A j \in 1..n : p[j] = q[j]
  OBVIOUS
<1>2. \A j \in 1..n : j \in 1..Len(q)
  OBVIOUS
<1> HIDE DEF p
<1>3. t[0] = 0 /\ \A j \in 1..n : t[j] = t[j - 1] + CentralSize(q[j])
  BY <1>1, SumsAt
<1>4. s[0] = 0 /\ \A j \in 1..n : s[j] = s[j - 1] + CentralSize(q[j])
  BY <1>2, SumsAt
<1>5. Total(CentralSize, p) = t[n]
  BY <1>1, SumsAre
<1> HIDE DEF s, t
<1>6. 0 \in Good
  BY <1>3, <1>4
<1>7. ASSUME NEW j \in Nat, j < n, j \in Good PROVE j + 1 \in Good
  <2>1. j + 1 \in 1..n /\ (j + 1) - 1 = j /\ t[j] = s[j]
    BY <1>1, <1>7
  <2>2. QED
    BY <1>3, <1>4, <2>1
<1>8. \A j \in Nat : j < n /\ j \in Good => j + 1 \in Good
  BY <1>7
<1> HIDE DEF Good
<1>9. n \in 0..n
  BY <1>1
<1>10. n \in Good
  BY <1>1, <1>6, <1>8, <1>9, InductionUpTo
<1>11. t[n] = s[n]
  BY <1>10 DEF Good
<1>12. QED
  BY <1>5, <1>11 DEF p, s

LEMMA SumsGrow ==
  ASSUME NEW q \in Seq(Entries)
  PROVE  /\ \A j \in 0..Len(q) : Sums(q)[j] \in Int
         /\ \A i, j \in 0..Len(q) : i < j => Sums(q)[i] < Sums(q)[j]
<1> DEFINE s == Sums(q)
           N == Len(q)
           Good == {j \in Nat : j <= N =>
                      s[j] \in Int /\ \A i \in 0..(j - 1) : s[i] \in Int /\ s[i] < s[j]}
<1>1. N \in Nat /\ \A j \in 1..N : CentralSize(q[j]) \in Nat /\ CentralSize(q[j]) > 0
  <2>1. N \in Nat /\ \A j \in 1..N : q[j] \in Entries
    OBVIOUS
  <2>2. \A e \in Entries : CentralSize(e) \in Nat /\ CentralSize(e) > 0
    BY DEF CentralSize, Entries, CentralHeader
  <2>3. QED
    BY <2>1, <2>2
<1>2. s[0] = 0 /\ \A j \in 1..N : s[j] = s[j - 1] + CentralSize(q[j])
  BY SumsAt
<1> HIDE DEF s, N
<1>3. 0 \in Good
  BY <1>2
<1>4. ASSUME NEW j \in Nat, j < N, j \in Good PROVE j + 1 \in Good
  <2>1. j + 1 \in 1..N /\ (j + 1) - 1 = j
    BY <1>1, <1>4
  <2>2. s[j + 1] = s[j] + CentralSize(q[j + 1]) /\ CentralSize(q[j + 1]) \in Nat
        /\ CentralSize(q[j + 1]) > 0
    BY <1>1, <1>2, <2>1
  <2>3. s[j] \in Int /\ \A i \in 0..(j - 1) : s[i] \in Int /\ s[i] < s[j]
    BY <1>1, <1>4
  <2>4. s[j + 1] \in Int /\ s[j] < s[j + 1]
    BY <2>2, <2>3
  <2>5. ASSUME NEW i \in 0..j PROVE s[i] \in Int /\ s[i] < s[j + 1]
    <3>1. CASE i = j
      BY <2>3, <2>4, <3>1
    <3>2. CASE i # j
      <4>1. i \in 0..(j - 1)
        BY <3>2
      <4>2. QED
        BY <2>3, <2>4, <4>1
    <3>3. QED
      BY <3>1, <3>2
  <2>6. QED
    BY <2>1, <2>4, <2>5
<1>5. \A j \in Nat : j < N /\ j \in Good => j + 1 \in Good
  BY <1>4
<1> HIDE DEF Good
<1>6. \A j \in 0..N : j \in Good
  BY <1>1, <1>3, <1>5, InductionUpTo
<1>7. ASSUME NEW j \in 0..N
      PROVE  s[j] \in Int /\ \A i \in 0..N : i < j => s[i] < s[j]
  <2>1. j \in Nat /\ j <= N /\ \A i \in 0..N : i < j => i \in 0..(j - 1)
    BY <1>1
  <2>2. QED
    BY <1>6, <2>1 DEF Good
<1>8. QED
  BY <1>7 DEF s, N

LEMMA CentralTotal ==
  ASSUME NEW q \in Seq(Entries)
  PROVE  Total(CentralSize, q) \in Int
<1>1. Len(q) \in 0..Len(q)
  OBVIOUS
<1>2. QED
  BY <1>1, SumsAre, SumsGrow

\* The search by windows finds a signature or nothing.
LEMMA SearchFinds ==
  ASSUME NEW z, z.size \in Nat, NEW p \in Int, NEW signatures, signatures \subseteq {p}
  PROVE  SearchBack(z, signatures) \in {0} \cup signatures
<1> DEFINE M == MinOf(MaxComment, z.size)
           after(b) == MinOf(b + BufReadComment, M)
           hits(b) ==
             LET from == z.size - after(b)
                 read == MinOf(BufReadComment + 4, after(b))
             IN  {s \in signatures : from <= s /\ s + 4 <= from + read}
           Value(f, b) == IF b >= M THEN 0
                          ELSE IF hits(b) \ {0} = {} THEN f[after(b)] ELSE MaxIn(hits(b))
           Body(f) == [b \in 0..M |-> Value(f, b)]
           V == {0} \cup signatures
           k == CHOOSE f : f = Body(f)
<1>1. SearchBack(z, signatures) = IF M < 4 THEN 0 ELSE k[4]
  BY DEF SearchBack
<1>2. M \in Nat /\ BufReadComment \in Nat \ {0}
  BY BufferAssumption DEF MinOf
<1>3. \A b \in 0..M : b < M => after(b) \in (b + 1)..M
  BY <1>2 DEF MinOf
<1>4. \A b : hits(b) \ {0} # {} => MaxIn(hits(b)) \in V
  <2>1. MaxIn({p}) = p
    BY DEF MaxIn
  <2>2. ASSUME NEW h, h \subseteq signatures, h \ {0} # {}
        PROVE  h = {p} /\ p \in signatures
    <3>1. PICK q : q \in h
      BY <2>2, Zenon
    <3>2. q = p /\ \A r \in h : r = p
      BY <2>2, <3>1
    <3>3. QED
      BY <2>2, <3>1, <3>2
  <2>3. \A b : hits(b) \subseteq signatures
    OBVIOUS
  <2>4. QED
    <3> HIDE DEF hits
    <3>1. QED
      BY <2>1, <2>2, <2>3
<1> HIDE DEF after, hits, M
<1>5. ASSUME NEW f, NEW n \in Nat, n <= M, \A b \in (M - n)..M : f[b] = Value(f, b)
      PROVE  \A b \in (M - n)..M : f[b] \in V
  <2> DEFINE Good == {i \in Nat : i <= n => \A b \in (M - i)..M : f[b] \in V}
  <2>1. 0 \in Good
    BY <1>2, <1>5
  <2>2. ASSUME NEW i \in Nat, i < n, i \in Good PROVE i + 1 \in Good
    <3>1. ASSUME NEW b \in (M - (i + 1))..M PROVE f[b] \in V
      <4>1. b \in 0..M /\ b \in (M - n)..M
        BY <1>2, <1>5, <2>2
      <4>2. f[b] = Value(f, b)
        BY <1>5, <4>1
      <4>3. CASE b >= M
        BY <4>2, <4>3
      <4>4. CASE b < M
        <5>1. after(b) \in (M - i)..M
          BY <1>2, <1>3, <2>2, <4>1, <4>4
        <5>2. f[after(b)] \in V
          BY <2>2, <5>1
        <5>3. QED
          BY <1>2, <1>4, <4>1, <4>2, <4>4, <5>2
      <4>5. QED
        BY <1>2, <4>1, <4>3, <4>4
    <3>2. QED
      BY <3>1
  <2> HIDE DEF Good
  <2>3. n \in Good
    BY <2>1, <2>2, InductionUpTo
  <2>4. QED
    BY <2>3 DEF Good
<1>6. \E f : f = Body(f)
  <2> DEFINE Good == {n \in Nat : n <= M =>
                        \E f : DOMAIN f = (M - n)..M /\ \A b \in (M - n)..M : f[b] = Value(f, b)}
  <2>1. 0 \in Good
    <3> DEFINE f == [b \in (M - 0)..M |-> 0]
    <3>1. DOMAIN f = (M - 0)..M /\ \A b \in (M - 0)..M : f[b] = Value(f, b)
      BY <1>2
    <3>2. QED
      BY <3>1
  <2>2. ASSUME NEW n \in Nat, n < M, n \in Good PROVE n + 1 \in Good
    <3>1. PICK g : DOMAIN g = (M - n)..M /\ \A b \in (M - n)..M : g[b] = Value(g, b)
      <4>1. n <= M
        BY <1>2, <2>2
      <4> HIDE DEF Value
      <4>2. QED
        BY <2>2, <4>1, Zenon
    <3> DEFINE c == M - (n + 1)
               f == [b \in c..M |-> IF b = c THEN Value(g, c) ELSE g[b]]
    <3>2. c \in 0..M /\ c < M /\ c..M = {c} \cup (M - n)..M /\ c \notin (M - n)..M
      BY <1>2, <2>2
    <3> HIDE DEF c
    <3>3. f[c] = Value(g, c) /\ (\A b \in (M - n)..M : f[b] = g[b]) /\ DOMAIN f = c..M
      BY <1>2, <3>2
    <3> HIDE DEF f
    <3>4. ASSUME NEW b \in c..M, b < M PROVE f[after(b)] = g[after(b)]
      <4>1. after(b) \in (b + 1)..M
        BY <1>2, <1>3, <3>2, <3>4
      <4>2. after(b) \in (M - n)..M
        BY <1>2, <3>2, <3>4, <4>1 DEF c
      <4>3. QED
        BY <3>3, <4>2
    <3>5. \A b \in c..M : f[b] = Value(f, b)
      <4>1. ASSUME NEW b \in c..M PROVE f[b] = Value(f, b)
        <5>1. f[b] = Value(g, b)
          BY <3>1, <3>2, <3>3
        <5>2. Value(g, b) = Value(f, b)
          BY <1>2, <3>2, <3>4
        <5>3. QED
          BY <5>1, <5>2
      <4>2. QED
        BY <4>1
    <3>6. c = M - (n + 1)
      BY DEF c
    <3>7. \E h : DOMAIN h = c..M /\ \A b \in c..M : h[b] = Value(h, b)
      BY <3>3, <3>5
    <3> HIDE DEF Value
    <3>8. n + 1 \in Nat
      OBVIOUS
    <3>9. \E h : DOMAIN h = (M - (n + 1))..M /\ \A b \in (M - (n + 1))..M : h[b] = Value(h, b)
      BY <3>6, <3>7, Zenon
    <3>10. QED
      BY <3>8, <3>9
  <2> HIDE DEF Good
  <2>3. M \in Good
    BY <1>2, <2>1, <2>2, InductionUpTo
  <2>4. PICK f : DOMAIN f = (M - M)..M /\ \A b \in (M - M)..M : f[b] = Value(f, b)
    BY <1>2, <2>3 DEF Good
  <2>5. (M - M)..M = 0..M
    BY <1>2
  <2>6. QED
    <3> DEFINE g == [b \in 0..M |-> f[b]]
    <3>1. \A b \in 0..M : g[b] = f[b] /\ (b < M => g[after(b)] = f[after(b)])
      BY <1>2, <1>3
    <3>2. \A b \in 0..M : g[b] = Value(g, b)
      BY <1>2, <2>4, <2>5, <3>1
    <3>3. g = Body(g)
      <4>1. g = [b \in 0..M |-> g[b]]
        OBVIOUS
      <4> HIDE DEF g
      <4>2. QED
        BY <3>2, <4>1
    <3>4. QED
      BY <3>3
<1>7. k = Body(k)
  BY <1>6
<1> HIDE DEF k
<1>8. \A b \in 0..M : k[b] = Value(k, b)
  BY <1>7
<1>9. \A b \in 0..M : k[b] \in V
  <2>1. M - M = 0 /\ M <= M
    BY <1>2
  <2>2. \A b \in (M - M)..M : k[b] = Value(k, b)
    BY <1>8, <2>1
  <2> HIDE DEF Value, V
  <2>3. \A b \in (M - M)..M : k[b] \in V
    BY <1>2, <1>5, <2>1, <2>2
  <2>4. QED
    BY <2>1, <2>3
<1>10. M >= 4 => 4 \in 0..M
  BY <1>2
<1>11. QED
  BY <1>1, <1>2, <1>9, <1>10

\* unzOpenInternal opens only what is whole: it has found the end record, or
\* both of Zip64's, behind a directory that is where they say, with nothing of
\* the file lost in front.
THEOREM OpensOnlyComplete ==
  ASSUME NEW z \in Archives, UnzOpen(z).open
  PROVE  Complete(z)
<1> DEFINE central == SearchCentralDir(z)
           central64 == SearchCentralDir64(z)
           C == CentralOffset(z)
           L == CentralLength(z)
<1>1. z.size \in Nat /\ z.prefix \in Int /\ z.zip64 \in BOOLEAN /\ z.entries \in Seq(Entries)
  BY DEF Archives
<1>2. C \in Int /\ L \in Int
  BY <1>1, LocalTotal, CentralTotal DEF CentralOffset, CentralLength
<1>3. LocatorPos(z) = z.prefix + (C + L) + EndRecord64
      /\ EndPos(z) = z.prefix + C + L + (IF z.zip64 THEN EndRecord64 + Locator64 ELSE 0)
  BY DEF LocatorPos, EndPos, EndOffset64
<1>4. Closed.open = FALSE
  BY DEF Closed
<1>5. CASE central64 # 0
  <2> DEFINE found == SearchBack(z, LocatorSignatures(z))
  <2>1. found # 0 /\ CanRead(z, found, Locator64) /\ z.prefix = 0
    BY <1>5 DEF SearchCentralDir64
  <2>2. LocatorPos(z) \in Int /\ LocatorSignatures(z) \subseteq {LocatorPos(z)}
    BY <1>1, <1>2, <1>3 DEF LocatorSignatures, EndRecord64
  <2>3. found \in {0} \cup LocatorSignatures(z)
    <3> HIDE DEF C, L
    <3>1. PICK p \in Int : p = LocatorPos(z)
      BY <2>2
    <3>2. QED
      BY <1>1, <2>2, <3>1, SearchFinds
  <2> HIDE DEF found, C, L
  <2>4. found = LocatorPos(z) /\ z.zip64
    BY <2>1, <2>3 DEF LocatorSignatures
  <2>5. QED
    BY <1>1, <1>2, <1>3, <2>1, <2>4 DEF Complete, CanRead, EndRecord64, Locator64
<1>6. CASE central64 = 0
  <2>1. EndRecordOk(z, central, EndRecord) /\ BytesBefore(z, central) >= 0 /\ ~z.zip64
    BY <1>4, <1>6 DEF UnzOpen
  <2>2. EndPos(z) \in Int /\ EndSignatures(z) \subseteq {EndPos(z)}
    BY <1>1, <1>2, <1>3 DEF EndSignatures, EndRecord64, Locator64
  <2>3. central \in {0} \cup EndSignatures(z)
    <3> HIDE DEF C, L
    <3>1. PICK p \in Int : p = EndPos(z)
      BY <2>2
    <3>2. QED
      BY <1>1, <2>2, <3>1, SearchFinds DEF SearchCentralDir
  <2> HIDE DEF central
  <2>4. central = EndPos(z) /\ CanRead(z, central, EndRecord)
    BY <2>1, <2>2, <2>3 DEF EndRecordOk
  <2>5. central - C - L >= 0
    BY <2>1 DEF BytesBefore
  <2> HIDE DEF C, L
  <2>6. QED
    BY <1>1, <1>2, <1>3, <2>1, <2>4, <2>5 DEF Complete, CanRead
<1>7. QED
  BY <1>5, <1>6

----------------------------------------------------------------------------
(* Walking the directory. *)

\* The places of the central headers follow each other, each at a place of its own.
LEMMA ItemsFollow ==
  ASSUME NEW z \in Archives
  PROVE  /\ ItemOffset(z, 1) = CentralOffset(z)
         /\ \A k \in 1..(Len(z.entries) + 1) : ItemOffset(z, k) \in Int
         /\ \A k \in 1..Len(z.entries) :
              ItemOffset(z, k + 1) = ItemOffset(z, k) + CentralSize(z.entries[k])
         /\ \A j, k \in 1..Len(z.entries) : ItemOffset(z, j) = ItemOffset(z, k) => j = k
<1> DEFINE q == z.entries
           s == Sums(q)
           N == Len(q)
           C == CentralOffset(z)
<1>1. q \in Seq(Entries)
  BY DEF Archives
<1>2. C \in Int
  BY <1>1, LocalTotal DEF CentralOffset
<1>3. N \in Nat
  BY <1>1
<1>4. \A k \in 1..(N + 1) : ItemOffset(z, k) = C + s[k - 1] /\ k - 1 \in 0..N
  <2>1. ASSUME NEW k \in 1..(N + 1) PROVE ItemOffset(z, k) = C + s[k - 1] /\ k - 1 \in 0..N
    <3>1. k - 1 \in 0..N
      BY <1>3
    <3>2. Total(CentralSize, SubSeq(q, 1, k - 1)) = s[k - 1]
      BY <1>1, <3>1, SumsOfPrefix
    <3>3. QED
      BY <3>1, <3>2 DEF ItemOffset, Before
  <2>2. QED
    BY <2>1
<1>5. s[0] = 0 /\ \A k \in 1..N : s[k] = s[k - 1] + CentralSize(q[k])
  BY <1>1, SumsAt
<1>6. (\A k \in 0..N : s[k] \in Int) /\ (\A i, j \in 0..N : i < j => s[i] < s[j])
  BY <1>1, SumsGrow
<1>7. \A k \in 1..N : CentralSize(q[k]) \in Int
  <2>1. \A k \in 1..N : q[k] \in Entries
    BY <1>1
  <2>2. QED
    BY <2>1 DEF CentralSize, Entries, CentralHeader
<1> HIDE DEF s, C, N
<1>8. ItemOffset(z, 1) = C
  BY <1>2, <1>3, <1>4, <1>5
<1>9. \A k \in 1..(N + 1) : ItemOffset(z, k) \in Int
  BY <1>2, <1>4, <1>6
<1>10. ASSUME NEW k \in 1..N PROVE ItemOffset(z, k + 1) = ItemOffset(z, k) + CentralSize(q[k])
  <2>1. k \in 1..(N + 1) /\ k + 1 \in 1..(N + 1) /\ (k + 1) - 1 = k /\ k - 1 \in 0..N
    BY <1>3
  <2>2. ItemOffset(z, k) = C + s[k - 1] /\ ItemOffset(z, k + 1) = C + s[k]
    BY <1>4, <2>1
  <2>3. QED
    BY <1>2, <1>5, <1>6, <1>7, <2>1, <2>2
<1>11. ASSUME NEW j \in 1..N, NEW k \in 1..N, ItemOffset(z, j) = ItemOffset(z, k) PROVE j = k
  <2>1. j \in 1..(N + 1) /\ k \in 1..(N + 1) /\ j - 1 \in 0..N /\ k - 1 \in 0..N
    BY <1>3
  <2>2. C + s[j - 1] = C + s[k - 1]
    BY <1>4, <1>11, <2>1
  <2>3. s[j - 1] = s[k - 1] /\ s[j - 1] \in Int
    BY <1>2, <1>6, <2>1, <2>2
  <2>4. ~ (j - 1 < k - 1) /\ ~ (k - 1 < j - 1)
    BY <1>6, <2>1, <2>3
  <2>5. QED
    BY <2>4
<1>12. QED
  BY <1>8, <1>9, <1>10, <1>11 DEF N, C

\* The reader is at entry j: it has the place of its header, corrected for what is
\* in front of the archive, and has read it.
ReaderAt(z, r, j) ==
  /\ DOMAIN r = {"open", "before", "num", "pos", "ok"}
  /\ r.before = z.prefix /\ r.num = j - 1
  /\ r.pos = ItemOffset(z, j)
  /\ r.ok /\ CurrentFileInfo(z, r) = j
  /\ j \in DOMAIN z.entries

\* From the place of an entry's header it reads that entry or none.
LEMMA CurrentIsThere ==
  ASSUME NEW z \in Archives, NEW r, NEW j \in 1..Len(z.entries),
         r.before = z.prefix, r.pos = ItemOffset(z, j)
  PROVE  CurrentFileInfo(z, r) \in {0, j}
<1> DEFINE pos == r.pos + r.before
           here == {k \in CentralHeaderAt(z, pos) : CanRead(z, pos, CentralSize(z.entries[k]))}
<1>1. z.prefix \in Int /\ z.entries \in Seq(Entries)
  BY DEF Archives
<1>2. DOMAIN z.entries = 1..Len(z.entries) /\ Len(z.entries) \in Nat
  BY <1>1
<1>3. \A k \in 1..Len(z.entries) : ItemOffset(z, k) \in Int
  <2>1. \A k \in 1..Len(z.entries) : k \in 1..(Len(z.entries) + 1)
    BY <1>2
  <2>2. QED
    BY <2>1, ItemsFollow
<1>4. ASSUME NEW k \in here PROVE k = j
  <2>1. k \in 1..Len(z.entries) /\ z.prefix + ItemOffset(z, k) = pos
    BY <1>2 DEF CentralHeaderAt
  <2>2. ItemOffset(z, k) = ItemOffset(z, j)
    BY <1>1, <1>3, <2>1
  <2>3. QED
    BY <2>1, <2>2, ItemsFollow
<1>5. CurrentFileInfo(z, r) = IF here = {} THEN 0 ELSE MaxIn(here)
  BY DEF CurrentFileInfo
<1> HIDE DEF here
<1>6. here = {} \/ here = {j}
  BY <1>4
<1>7. MaxIn({j}) = j
  BY DEF MaxIn
<1>8. QED
  BY <1>5, <1>6, <1>7

\* unzGoToFirstFile of an archive that opens is at the first entry.
LEMMA OpensAtFirst ==
  ASSUME NEW z \in Archives, UnzOpen(z).open, UnzOpen(z).ok
  PROVE  ReaderAt(z, UnzOpen(z), 1)
<1> DEFINE central == SearchCentralDir(z)
           central64 == SearchCentralDir64(z)
           C == CentralOffset(z)
           L == CentralLength(z)
<1>1. z.size \in Nat /\ z.prefix \in Int /\ z.zip64 \in BOOLEAN /\ z.entries \in Seq(Entries)
  BY DEF Archives
<1>2. C \in Int /\ L \in Int
  BY <1>1, LocalTotal, CentralTotal DEF CentralOffset, CentralLength
<1>3. EndPos(z) = z.prefix + C + L + (IF z.zip64 THEN EndRecord64 + Locator64 ELSE 0)
      /\ EndOffset64(z) = C + L
  BY DEF EndPos, EndOffset64
<1>4. Closed.open = FALSE
  BY DEF Closed
<1>5. PICK c : UnzOpen(z) = Opened(z, c) /\ c - C - L = z.prefix
  <2>1. CASE central64 # 0
    <3>1. central64 = EndOffset64(z) /\ z.prefix = 0
      BY <2>1 DEF SearchCentralDir64
    <3>2. UnzOpen(z) = Opened(z, central64)
      BY <1>4, <2>1 DEF UnzOpen, UnzOpen64
    <3> HIDE DEF C, L, central64
    <3>3. central64 - C - L = z.prefix
      BY <1>2, <1>3, <3>1
    <3>4. QED
      BY <3>2, <3>3
  <2>2. CASE central64 = 0
    <3>1. EndRecordOk(z, central, EndRecord) /\ ~z.zip64 /\ UnzOpen(z) = Opened(z, central)
      BY <1>4, <2>2 DEF UnzOpen
    <3>2. EndPos(z) \in Int /\ EndSignatures(z) \subseteq {EndPos(z)}
      BY <1>1, <1>2, <1>3 DEF EndSignatures, EndRecord64, Locator64
    <3>3. central \in {0} \cup EndSignatures(z)
      <4> HIDE DEF C, L
      <4>1. PICK p \in Int : p = EndPos(z)
        BY <3>2
      <4>2. QED
        BY <1>1, <3>2, <4>1, SearchFinds DEF SearchCentralDir
    <3> HIDE DEF C, L, central
    <3>4. central = EndPos(z)
      BY <3>1, <3>2, <3>3 DEF EndRecordOk
    <3>5. central - C - L = z.prefix
      BY <1>1, <1>2, <1>3, <3>1, <3>4
    <3>6. QED
      BY <3>1, <3>5
  <2>3. QED
    BY <2>1, <2>2
<1> DEFINE o == [Closed EXCEPT !.open = TRUE, !.before = z.prefix]
           s == [o EXCEPT !.num = 0, !.pos = C]
           ok == CurrentFileInfo(z, s) # 0
           r == UnzOpen(z)
<1>6. r = [s EXCEPT !.ok = ok]
  <2>1. BytesBefore(z, c) = z.prefix
    BY <1>5 DEF BytesBefore
  <2>2. r = GoToFirstFile(z, o)
    BY <1>5, <2>1 DEF Opened
  <2>3. QED
    BY <2>2 DEF GoToFirstFile
<1>7. /\ DOMAIN s = {"open", "before", "num", "pos", "ok"}
      /\ s.before = z.prefix /\ s.num = 0 /\ s.pos = C
  <2> HIDE DEF C
  <2>1. QED
    BY DEF Closed
<1> HIDE DEF s, r
<1>8. /\ DOMAIN r = {"open", "before", "num", "pos", "ok"}
      /\ r.before = z.prefix /\ r.num = 0 /\ r.pos = C
      /\ CurrentFileInfo(z, r) # 0 /\ r.ok
  <2>1. ok \in BOOLEAN
    OBVIOUS
  <2> HIDE DEF ok, C
  <2>2. /\ DOMAIN r = {"open", "before", "num", "pos", "ok"}
        /\ r.before = z.prefix /\ r.num = 0 /\ r.pos = C /\ r.ok = ok
    BY <1>6, <1>7, <2>1
  <2>3. CurrentFileInfo(z, r) = CurrentFileInfo(z, s)
    <3>1. r.pos = s.pos /\ r.before = s.before
      BY <1>7, <2>2
    <3>2. QED
      BY <3>1 DEF CurrentFileInfo
  <2>4. r.ok
    BY DEF r
  <2>5. QED
    BY <2>1, <2>2, <2>3, <2>4 DEF ok
<1>9. ItemOffset(z, 1) = C
  BY ItemsFollow
<1>10. 1 \in DOMAIN z.entries
  <2> DEFINE pos == r.pos + r.before
             here == {k \in CentralHeaderAt(z, pos) : CanRead(z, pos, CentralSize(z.entries[k]))}
  <2>1. here # {}
    BY <1>8 DEF CurrentFileInfo
  <2>2. here \subseteq DOMAIN z.entries
    BY DEF CentralHeaderAt
  <2> HIDE DEF here
  <2>3. QED
    BY <1>1, <2>1, <2>2
<1>11. CurrentFileInfo(z, r) = 1
  <2>1. 1 \in 1..Len(z.entries)
    BY <1>1, <1>10
  <2> HIDE DEF C
  <2>2. CurrentFileInfo(z, r) \in {0, 1}
    BY <1>8, <1>9, <2>1, CurrentIsThere
  <2>3. QED
    BY <1>8, <2>2
<1>12. QED
  <2> HIDE DEF C
  <2>1. ReaderAt(z, r, 1)
    BY <1>8, <1>9, <1>10, <1>11 DEF ReaderAt
  <2>2. QED
    BY <2>1 DEF r

\* unzGoToNextFile ends after the last entry, or fails, or is at the next one.
LEMMA NextFollows ==
  ASSUME NEW z \in Archives, NEW r, NEW j, ReaderAt(z, r, j)
  PROVE  LET n == GoToNextFile(z, r)
         IN  /\ n.status = "end of list" => j = Len(z.entries)
             /\ n.status = "ok" => ReaderAt(z, n.reader, j + 1)
<1>1. z.entries \in Seq(Entries)
  BY DEF Archives
<1>2. DOMAIN z.entries = 1..Len(z.entries) /\ Len(z.entries) \in Nat /\ j \in 1..Len(z.entries)
  BY <1>1 DEF ReaderAt
<1>3. r.ok /\ r.num = j - 1 /\ r.before = z.prefix /\ r.pos = ItemOffset(z, j)
      /\ DOMAIN r = {"open", "before", "num", "pos", "ok"} /\ CurrentFileInfo(z, r) = j
  BY DEF ReaderAt
<1> DEFINE s == [r EXCEPT !.num = @ + 1, !.pos = @ + CentralSize(z.entries[j])]
           ok == CurrentFileInfo(z, s) # 0
           next == [s EXCEPT !.ok = ok]
           n == GoToNextFile(z, r)
<1>4. n = IF ~r.ok \/ r.num + 1 = Len(z.entries)
          THEN [status |-> "end of list", reader |-> r]
          ELSE [status |-> IF ok THEN "ok" ELSE "error", reader |-> next]
  BY <1>3 DEF GoToNextFile
<1> HIDE DEF n, next, ok
<1>5. CASE j = Len(z.entries)
  <2>1. n = [status |-> "end of list", reader |-> r]
    <3>1. r.num + 1 = Len(z.entries)
      BY <1>2, <1>3, <1>5
    <3>2. QED
      BY <1>4, <3>1, Zenon
  <2>2. n.status = "end of list"
    BY <2>1
  <2>3. QED
    BY <1>5, <2>2 DEF n
<1>6. CASE j # Len(z.entries)
  <2>1. n = [status |-> IF ok THEN "ok" ELSE "error", reader |-> next]
    BY <1>2, <1>3, <1>4, <1>6
  <2>2. CASE ~ok
    BY <2>1, <2>2 DEF n
  <2>3. CASE ok
    <3>1. n.status = "ok" /\ n.reader = next
      BY <2>1, <2>3
    <3>2. j + 1 \in 1..Len(z.entries)
      BY <1>2, <1>6
    <3>3. s.before = z.prefix /\ s.num = j /\ s.pos = ItemOffset(z, j + 1)
          /\ DOMAIN s = {"open", "before", "num", "pos", "ok"}
      <4>1. ItemOffset(z, j + 1) = ItemOffset(z, j) + CentralSize(z.entries[j])
        BY <1>2, ItemsFollow
      <4>2. QED
        BY <1>2, <1>3, <4>1
    <3> HIDE DEF s
    <3>4. CurrentFileInfo(z, s) = j + 1
      BY <2>3, <3>2, <3>3, CurrentIsThere DEF ok
    <3>5. next.before = s.before /\ next.num = s.num /\ next.pos = s.pos /\ next.ok
          /\ DOMAIN next = {"open", "before", "num", "pos", "ok"}
      BY <2>3, <3>3 DEF next
    <3>6. CurrentFileInfo(z, next) = CurrentFileInfo(z, s)
      BY <3>5 DEF CurrentFileInfo
    <3>7. ReaderAt(z, next, j + 1)
      BY <1>2, <3>2, <3>3, <3>4, <3>5, <3>6 DEF ReaderAt
    <3>8. QED
      BY <3>1, <3>7 DEF n
  <2>4. QED
    BY <2>2, <2>3
<1>7. QED
  BY <1>5, <1>6

----------------------------------------------------------------------------
(* Reading one file. *)

\* What gives a read up in mid-file.
Halts(z, k) ==
  /\ Damaged(z, "data", k)
  /\ z.damage.as \in {"unreadable", "inflate error", "end of stream"}

\* Unless the card or the inflater gives up, all of a file is delivered.
THEOREM DeliversAll ==
  ASSUME NEW z \in Archives, NEW k \in DOMAIN z.entries,
         ~Raw(z.entries[k]), ~Halts(z, k)
  PROVE  Delivered(z, k) = z.entries[k].usize
<1> DEFINE L == Length(z.entries[k])
           want(done) == MinOf(CopyBuffer, L - done)
           Value(f, done) ==
             LET n == ReadCurrentFile(z, k, done)
             IN  IF n <= 0 THEN done ELSE IF n < want(done) THEN done + n ELSE f[done + n]
           Body(f) == [done \in 0..L |-> Value(f, done)]
           upto == CHOOSE f : f = Body(f)
<1>1. z.entries[k] \in Entries
  <2>1. z.entries \in Seq(Entries)
    BY DEF Archives
  <2>2. QED
    BY <2>1
<1>2. L = z.entries[k].usize /\ L \in Nat
  BY <1>1 DEF Length, Entries
<1>3. \A done \in 0..L : ReadCurrentFile(z, k, done) = want(done)
  <2>1. ASSUME NEW done PROVE ReadCurrentFile(z, k, done) = want(done)
    <3>1. CASE ~Damaged(z, "data", k)
      BY <3>1 DEF ReadCurrentFile
    <3>2. CASE z.damage.as \notin {"unreadable", "inflate error", "end of stream"}
      <4>1. Inflate(z.damage, done, want(done)) = want(done)
        BY <3>2 DEF Inflate
      <4>2. QED
        BY <3>2, <4>1 DEF ReadCurrentFile
    <3>3. QED
      BY <3>1, <3>2 DEF Halts
  <2>2. QED
    BY <2>1
<1>4. \A done \in 0..L : want(done) \in Int /\ want(done) <= L - done
                         /\ (done < L => want(done) > 0) /\ (done = L => want(done) <= 0)
  BY <1>2, BufferAssumption DEF MinOf
<1>5. Delivered(z, k) = upto[0]
  BY DEF Delivered
<1> HIDE DEF L, want
<1>6. \A f : \A done \in 0..L : Value(f, done) =
        IF done = L THEN done ELSE f[done + want(done)]
  BY <1>2, <1>3, <1>4
<1>7. \E f : f = Body(f)
  <2> DEFINE f == [done \in 0..L |-> L]
  <2>1. \A done \in 0..L : done < L => done + want(done) \in 0..L
    BY <1>2, <1>4
  <2>2. \A done \in 0..L : done # L => done < L
    BY <1>2
  <2>3. \A done \in 0..L : Value(f, done) = L
    <3> HIDE DEF Value
    <3>1. ASSUME NEW done \in 0..L PROVE Value(f, done) = L
      <4>1. CASE done = L
        BY <1>6, <4>1
      <4>2. CASE done # L
        BY <1>6, <2>1, <2>2, <4>2
      <4>3. QED
        BY <4>1, <4>2
    <3>2. QED
      BY <3>1
  <2> HIDE DEF Value
  <2>4. f = Body(f)
    BY <2>3
  <2>5. QED
    BY <2>4
<1>8. upto = Body(upto)
  BY <1>7
<1> HIDE DEF upto
<1>9. \A done \in 0..L : upto[done] = IF done = L THEN L ELSE upto[done + want(done)]
  <2> HIDE DEF Value
  <2>1. QED
    BY <1>6, <1>8
<1> DEFINE Good == {n \in Nat : n <= L => \A done \in (L - n)..L : upto[done] = L}
<1>10. 0 \in Good
  BY <1>2, <1>9
<1>11. ASSUME NEW n \in Nat, n < L, n \in Good PROVE n + 1 \in Good
  <2>1. ASSUME NEW done \in (L - (n + 1))..L PROVE upto[done] = L
    <3>1. done \in 0..L
      BY <1>2, <1>11, <2>1
    <3>2. CASE done = L
      BY <1>9, <3>1, <3>2
    <3>3. CASE done # L
      <4>1. done < L
        BY <1>2, <3>1, <3>3
      <4>2. done + want(done) \in (L - n)..L
        BY <1>2, <1>4, <1>11, <2>1, <3>1, <4>1
      <4>3. upto[done + want(done)] = L
        BY <1>2, <1>11, <4>2
      <4>4. QED
        BY <1>9, <3>1, <3>3, <4>3
    <3>4. QED
      BY <3>2, <3>3
  <2>2. QED
    BY <2>1
<1>12. \A n \in Nat : n < L /\ n \in Good => n + 1 \in Good
  BY <1>11
<1> HIDE DEF Good
<1>13. L \in 0..L
  BY <1>2
<1>14. L \in Good
  BY <1>2, <1>10, <1>12, <1>13, InductionUpTo
<1>15. upto[0] = L
  <2>1. 0 \in (L - L)..L /\ L <= L
    BY <1>2
  <2>2. QED
    BY <1>14, <2>1 DEF Good
<1>16. QED
  BY <1>2, <1>5, <1>15

\* A file that is written as it was not packed is one of which the checksum tells,
\* or that was read short, or packed in a way this build cannot unpack.
THEOREM NoticedOrHalted ==
  ASSUME NEW z \in Archives, NEW k \in DOMAIN z.entries
  PROVE  \/ CrcError(z, k, Delivered(z, k))
         \/ Raw(z.entries[k]) \/ Halts(z, k)
         \/ AsPacked(z, k) /\ Delivered(z, k) = z.entries[k].usize
BY DeliversAll DEF CrcError
=============================================================================
