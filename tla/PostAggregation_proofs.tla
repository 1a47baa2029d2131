------------------------ MODULE PostAggregation_proofs ------------------------
(***************************************************************************)
(* Proofs about the calls that make and verify proofs of spacetime         *)
(* (PostVerifies) and aggregated seal proofs (AggregatesRight), for any    *)
(* configurations, numbers of sectors and of processors.                   *)
(*                                                                         *)
(* The two have nothing in common but what they are about: lists that are  *)
(* cut into chunks of equal size, padded with the last element, joined and *)
(* numbered.  The first sections are about such lists; the arithmetic of   *)
(* places in them is stated once (CutInto, FlattenRegular, PlaceIn).  Then *)
(* follow the aggregation, and the proofs of spacetime: the proofs of a    *)
(* partition (RightPart), what its circuit is given and what the verifier  *)
(* expects (RightCircuit, ExpectedInputs), the routes to a Window proof    *)
(* (WindowDirect, WindowVanilla, WindowSingle) and to a Winning one        *)
(* (WinningDirect, WinningVanilla), and what the inputs ask of each sector *)
(* (AskedAre).                                                             *)
(***************************************************************************)
EXTENDS Aggregation, Post, SequenceTheorems, WellFoundedInduction, TLAPS

----------------------------------------------------------------------------
(* Numbers                                                                  *)

\* A set of numbers that is not empty has a least element.
LEMMA LeastNat == \A T \in SUBSET Nat : T # {} => \E n \in T : \A m \in T : n <= m
<1> SUFFICES ASSUME NEW T \in SUBSET Nat, T # {} PROVE \E n \in T : \A m \in T : n <= m
  OBVIOUS
<1> DEFINE R == OpToRel(<, Nat)
<1>1. \A x, y \in Nat : <<x, y>> \in R <=> x < y
  BY DEF OpToRel
<1>2. IsWellFoundedOn(R, Nat)
  BY NatLessThanWellFounded
<1> HIDE DEF R
<1>3. PICK x \in T : \A y \in T : ~ (<<y, x>> \in R)
  BY <1>2, WFMin, Zenon
<1>4. \A m \in T : ~(m < x)
  BY <1>1, <1>3
<1> QED
  BY <1>4

\* Induction over 1..n, for a set of numbers.
LEMMA Induction ==
  ASSUME NEW n \in Nat, NEW T, n >= 1 => 1 \in T,
         \A m \in 1..n : m \in T /\ m + 1 <= n => m + 1 \in T
  PROVE  \A m \in 1..n : m \in T
<1> DEFINE U == {m \in 1..n : m \notin T}
<1> SUFFICES ASSUME U # {} PROVE FALSE
  OBVIOUS
<1>1. U \in SUBSET Nat
  OBVIOUS
<1>2. PICK m \in U : \A k \in U : m <= k
  BY <1>1, LeastNat
<1>3. m \in 1..n /\ m \notin T
  OBVIOUS
<1>4. m # 1 /\ m - 1 \in 1..n /\ ~(m <= m - 1) /\ m = (m - 1) + 1
  BY <1>3
<1>5. m - 1 \notin U
  BY <1>2, <1>4
<1>6. m - 1 \in T
  BY <1>4, <1>5
<1> HIDE DEF U
<1>7. (m - 1) + 1 <= n => (m - 1) + 1 \in T
  BY <1>4, <1>6
<1> QED
  BY <1>3, <1>4, <1>7

\* The multiples of n grow.
LEMMA Multiples ==
  ASSUME NEW n \in Nat, NEW k \in Nat \ {0}, NEW m \in Nat \ {0}, k <= m
  PROVE  /\ (k - 1) * n \in Nat /\ (k - 1) * n <= (m - 1) * n /\ k * n = (k - 1) * n + n
         /\ k < m => k * n <= (m - 1) * n
<1>1. \A a, b \in Nat : a * b \in Nat
  OBVIOUS
<1>2. k - 1 \in Nat /\ m - k \in Nat /\ (k < m => m - k - 1 \in Nat)
  OBVIOUS
<1>3. (k - 1) * n \in Nat /\ (m - k) * n \in Nat /\ (k < m => (m - k - 1) * n \in Nat)
  BY <1>1, <1>2
<1>4. (m - 1) * n = (k - 1) * n + (m - k) * n /\ k * n = (k - 1) * n + n /\ (m - k) * n = (m - k - 1) * n + n
  OBVIOUS
<1> QED
  BY <1>3, <1>4

\* The least and the greatest of two numbers.
LEMMA MinOfTwo ==
  ASSUME NEW a \in Int, NEW b \in Int
  PROVE  /\ Min({a, b}) \in {a, b} /\ Min({a, b}) <= a /\ Min({a, b}) <= b
         /\ Max({a, b}) \in {a, b} /\ Max({a, b}) >= a /\ Max({a, b}) >= b
<1>1. \E x \in {a, b} : \A y \in {a, b} : x =< y
  OBVIOUS
<1>2. \E x \in {a, b} : \A y \in {a, b} : x >= y
  OBVIOUS
<1> QED
  BY <1>1, <1>2 DEF Min, Max

\* The least of a number and itself.
LEMMA MinOfOne ==
  ASSUME NEW a \in Nat
  PROVE  Min({a, a}) = a
<1>1. a \in Int
  OBVIOUS
<1>2. Min({a, a}) \in {a, a}
  BY <1>1, MinOfTwo, Zenon
<1> QED
  BY <1>2

\* A set of numbers that is not empty has the minimum that Min chooses.
LEMMA MinOfSet ==
  ASSUME NEW T \in SUBSET Nat, T # {}
  PROVE  Min(T) \in T /\ \A y \in T : Min(T) <= y
<1>1. \E x \in T : \A y \in T : x =< y
  BY LeastNat
<1> QED
  BY <1>1 DEF Min

\* Every number is in one of the blocks of n.
LEMMA Blocks ==
  ASSUME NEW n \in Nat \ {0}, NEW p \in Nat \ {0}
  PROVE  \E k \in Nat \ {0} : \E i \in 1..n : p = (k - 1) * n + i
<1> DEFINE q == (p - 1) \div n
<1>1. q \in Nat /\ (p - 1) = n * q + ((p - 1) % n) /\ (p - 1) % n \in 0..(n - 1)
  OBVIOUS
<1>2. (q + 1) - 1 = q /\ q * n = n * q
  BY <1>1
<1> HIDE DEF q
<1>3. ((p - 1) % n) + 1 \in 1..n /\ p = q * n + (((p - 1) % n) + 1)
  BY <1>1, <1>2
<1>4. q + 1 \in Nat \ {0} /\ p = ((q + 1) - 1) * n + (((p - 1) % n) + 1)
  BY <1>1, <1>2, <1>3
<1> QED
  BY <1>3, <1>4

\* A number of one block is not in another.
LEMMA SameBlock ==
  ASSUME NEW n \in Nat \ {0}, NEW j \in Nat \ {0}, NEW k \in Nat \ {0}, NEW a \in 1..n, NEW b \in 1..n,
         (j - 1) * n + a <= (k - 1) * n + b
  PROVE  j <= k
<1> SUFFICES ASSUME k < j PROVE FALSE
  OBVIOUS
<1>1. k * n <= (j - 1) * n /\ k * n = (k - 1) * n + n /\ (k - 1) * n \in Nat /\ (j - 1) * n \in Nat
  BY Multiples
<1> DEFINE x == (j - 1) * n
           y == (k - 1) * n
<1>2. y + n <= x /\ x \in Nat /\ y \in Nat /\ x + a <= y + b
  BY <1>1
<1> HIDE DEF x, y
<1> QED
  BY <1>2

----------------------------------------------------------------------------
(* Powers of two                                                            *)

\* The double of a power of two is one.
LEMMA DoublePower ==
  ASSUME NEW p \in Nat, PowerOfTwo(p)
  PROVE  PowerOfTwo(2 * p)
<1>1. p > 0 /\ \A d \in 1..p : p % d = 0 => d = 1 \/ d % 2 = 0
  BY DEF PowerOfTwo
<1> SUFFICES ASSUME NEW d \in 1..(2 * p), (2 * p) % d = 0, d % 2 # 0 PROVE d = 1
  BY <1>1 DEF PowerOfTwo
<1> DEFINE q == (2 * p) \div d
           e == d \div 2
           r == p - e * q
<1>2. q \in Nat /\ 2 * p = d * q
  BY <1>1
<1>3. e \in Nat /\ d = 2 * e + 1
  OBVIOUS
<1> HIDE DEF q, e
<1>4. e * q \in Nat /\ d * q = 2 * (e * q) + q
  BY <1>2, <1>3
<1>5. r \in Int /\ q = 2 * r
  BY <1>2, <1>4
<1> HIDE DEF r
<1>6. d * q = 2 * (d * r)
  BY <1>5
<1>7. d * r \in Int /\ p = d * r
  BY <1>2, <1>5, <1>6
<1>8. r > 0
  BY <1>1, <1>2, <1>5, <1>7
<1>9. d <= d * r
  <2>1. r - 1 \in Nat /\ d * r = d * (r - 1) + d
    BY <1>5, <1>8
  <2>2. d * (r - 1) \in Nat
    BY <2>1
  <2> QED
    BY <2>1, <2>2
<1>10. (d * r) % d = 0
  BY <1>5
<1> QED
  BY <1>1, <1>7, <1>9, <1>10

\* There is a power of two from n on, at most the double of it plus one.
LEMMA PowerExists ==
  ASSUME NEW n \in Nat
  PROVE  \E p \in n..(2 * n + 1) : PowerOfTwo(p)
<1>1. PowerOfTwo(1)
  BY DEF PowerOfTwo
<1>2. CASE n = 0
  BY <1>1, <1>2
<1>3. CASE n # 0
  <2> DEFINE T == {d \in 0..n : PowerOfTwo(n - d)}
  <2>1. T \in SUBSET Nat
    OBVIOUS
  <2>2. n - 1 \in T
    BY <1>1, <1>3
  <2>3. PICK d \in T : \A c \in T : d <= c
    BY <2>1, <2>2, LeastNat
  <2>4. d \in 0..n /\ PowerOfTwo(n - d)
    OBVIOUS
  <2>5. n - d > 0
    BY <2>4 DEF PowerOfTwo
  <2>6. PowerOfTwo(2 * (n - d))
    BY <2>4, DoublePower
  <2>7. 2 * (n - d) > n
    <3> SUFFICES ASSUME 2 * (n - d) <= n PROVE FALSE
      BY <2>4
    <3>1. n - 2 * (n - d) \in 0..n /\ n - (n - 2 * (n - d)) = 2 * (n - d)
      BY <2>4
    <3>2. n - 2 * (n - d) \in T
      BY <3>1, <2>6
    <3>3. d <= n - 2 * (n - d)
      BY <2>3, <3>2
    <3> QED
      BY <3>3, <2>4, <2>5
  <2>8. 2 * (n - d) \in n..(2 * n + 1)
    BY <2>4, <2>7
  <2> QED
    BY <2>6, <2>8
<1> QED
  BY <1>2, <1>3

\* next_power_of_two is the least power of two that is not below its argument, and
\* leaves a power of two as it is.
LEMMA NextPower ==
  ASSUME NEW n \in Nat
  PROVE  /\ NextPowerOfTwo(n) \in Nat /\ NextPowerOfTwo(n) >= n
         /\ PowerOfTwo(NextPowerOfTwo(n))
         /\ PowerOfTwo(n) => NextPowerOfTwo(n) = n
<1> DEFINE T == {p \in n..(2 * n + 1) : PowerOfTwo(p)}
<1>1. T \in SUBSET Nat /\ T # {}
  BY PowerExists
<1>2. Min(T) \in T /\ \A y \in T : Min(T) <= y
  BY <1>1, MinOfSet
<1>3. PowerOfTwo(n) => n \in T
  OBVIOUS
<1>4. NextPowerOfTwo(n) = Min(T)
  BY DEF NextPowerOfTwo
<1> QED
  BY <1>2, <1>3, <1>4

\* get_aggregate_target_len: a power of two, at least two, that all proofs fit.
LEMMA TargetLen ==
  ASSUME NEW n \in Nat \ {0}
  PROVE  /\ GetAggregateTargetLen(n) \in Nat /\ GetAggregateTargetLen(n) >= n /\ GetAggregateTargetLen(n) >= 2
         /\ NextPowerOfTwo(GetAggregateTargetLen(n)) = GetAggregateTargetLen(n)
<1>1. PowerOfTwo(1)
  BY DEF PowerOfTwo
<1>2. PowerOfTwo(2)
  BY <1>1, DoublePower
<1> QED
  BY <1>2, NextPower DEF GetAggregateTargetLen

----------------------------------------------------------------------------
(* Sequences of sequences                                                   *)

\* What FlattenSeq computes before it reaches the end.
IsFlatten(seqs, f) ==
  \A i \in DOMAIN f : f[i] = IF i = 1 THEN seqs[i] ELSE f[i - 1] \o seqs[i]

\* The recursion of FlattenSeq has a solution.
LEMMA FlattenExists ==
  ASSUME NEW S, NEW seqs \in Seq(Seq(S))
  PROVE  \A m \in 1..Len(seqs) : \E f \in [1..m -> Seq(S)] : IsFlatten(seqs, f)
<1> DEFINE Good(m) == \E f \in [1..m -> Seq(S)] : IsFlatten(seqs, f)
           T == {m \in 1..Len(seqs) : ~Good(m)}
<1> SUFFICES ASSUME T # {} PROVE FALSE
  OBVIOUS
<1>0. T \in SUBSET Nat
  OBVIOUS
<1>1. PICK m \in T : \A k \in T : m <= k
  BY <1>0, LeastNat
<1>2. m \in 1..Len(seqs) /\ ~Good(m) /\ seqs[m] \in Seq(S)
  OBVIOUS
<1>3. CASE m = 1
  <2> DEFINE f == [i \in 1..1 |-> seqs[1]]
  <2>1. f \in [1..m -> Seq(S)] /\ IsFlatten(seqs, f)
    BY <1>2, <1>3 DEF IsFlatten
  <2> QED
    BY <1>2, <2>1
<1>4. CASE m # 1
  <2>0. m - 1 \in 1..Len(seqs) /\ ~(m <= m - 1)
    BY <1>2, <1>4
  <2>1. m - 1 \notin T
    BY <1>1, <2>0
  <2>2. PICK g \in [1..(m - 1) -> Seq(S)] : IsFlatten(seqs, g)
    BY <2>0, <2>1
  <2> DEFINE f == [i \in 1..m |-> IF i = m THEN g[m - 1] \o seqs[m] ELSE g[i]]
  <2>3. g[m - 1] \o seqs[m] \in Seq(S)
    BY <1>2, <1>4
  <2>4. f \in [1..m -> Seq(S)]
    BY <1>2, <2>3
  <2>5. IsFlatten(seqs, f)
    <3> SUFFICES ASSUME NEW i \in 1..m PROVE f[i] = IF i = 1 THEN seqs[i] ELSE f[i - 1] \o seqs[i]
      BY DEF IsFlatten
    <3>1. CASE i = m
      <4>0. m - 1 \in 1..m /\ m \in 1..m /\ m - 1 # m
        BY <1>2, <1>4
      <4>1. f[m] = g[m - 1] \o seqs[m] /\ f[m - 1] = g[m - 1]
        BY <4>0
      <4> HIDE DEF f
      <4> QED
        BY <3>1, <1>4, <4>1
    <3>2. CASE i # m
      <4>1. i \in DOMAIN g /\ f[i] = g[i]
        BY <3>2, <1>2
      <4>2. i # 1 => f[i - 1] = g[i - 1]
        BY <3>2, <1>2
      <4>3. g[i] = IF i = 1 THEN seqs[i] ELSE g[i - 1] \o seqs[i]
        BY <4>1, <2>2 DEF IsFlatten
      <4> HIDE DEF f
      <4> QED
        BY <4>1, <4>2, <4>3
    <3> QED
      BY <3>1, <3>2
  <2> QED
    BY <1>2, <2>4, <2>5
<1> QED
  BY <1>3, <1>4

\* FlattenSeq is the last value of a solution.
LEMMA FlattenIs ==
  ASSUME NEW S, NEW seqs \in Seq(Seq(S)), seqs # <<>>
  PROVE  \E f \in [1..Len(seqs) -> Seq(S)] : IsFlatten(seqs, f) /\ FlattenSeq(seqs) = f[Len(seqs)]
<1>1. Len(seqs) \in Nat /\ Len(seqs) # 0
  OBVIOUS
<1> DEFINE F(f) == [i \in 1..Len(seqs) |-> IF i = 1 THEN seqs[i] ELSE f[i - 1] \o seqs[i]]
           h == CHOOSE f : f = [i \in 1..Len(seqs) |-> IF i = 1 THEN seqs[i] ELSE f[i - 1] \o seqs[i]]
<1>2. PICK f \in [1..Len(seqs) -> Seq(S)] : IsFlatten(seqs, f)
  BY <1>1, FlattenExists
<1>3. f = F(f)
  BY <1>2 DEF IsFlatten
<1>4. h = F(h)
  BY <1>3, Zenon
<1>5. FlattenSeq(seqs) = h[Len(seqs)]
  BY <1>1, Zenon DEF FlattenSeq
<1> HIDE DEF h
<1>6. DOMAIN h = 1..Len(seqs) /\ \A i \in 1..Len(seqs) : h[i] = IF i = 1 THEN seqs[i] ELSE h[i - 1] \o seqs[i]
  BY <1>4, Zenon
<1>7. \A i \in 1..Len(seqs) : h[i] \in Seq(S)
  <2> DEFINE T == {i \in 1..Len(seqs) : h[i] \notin Seq(S)}
  <2> SUFFICES ASSUME T # {} PROVE FALSE
    OBVIOUS
  <2>0. T \in SUBSET Nat
    OBVIOUS
  <2>1. PICK m \in T : \A k \in T : m <= k
    BY <2>0, LeastNat
  <2>2. m \in 1..Len(seqs) /\ h[m] \notin Seq(S) /\ seqs[m] \in Seq(S)
    OBVIOUS
  <2>3. ASSUME m # 1 PROVE h[m - 1] \in Seq(S)
    <3>1. m - 1 \in 1..Len(seqs) /\ ~(m <= m - 1)
      BY <2>2, <2>3
    <3>2. m - 1 \notin T
      BY <2>1, <3>1
    <3> QED
      BY <3>1, <3>2
  <2>4. h[m] = IF m = 1 THEN seqs[m] ELSE h[m - 1] \o seqs[m]
    BY <1>6, <2>2
  <2> QED
    BY <2>2, <2>3, <2>4
<1>8. h \in [1..Len(seqs) -> Seq(S)]
  BY <1>4, <1>6, <1>7
<1> QED
  BY <1>5, <1>6, <1>8 DEF IsFlatten

\* The first m sequences, joined: where their elements are.
Joined(seqs, n, f, m) ==
  /\ Len(f[m]) = (m - 1) * n + Len(seqs[m])
  /\ \A k \in 1..m : \A i \in 1..Len(seqs[k]) : f[m][(k - 1) * n + i] = seqs[k][i]

\* Sequences of length n, but for the last one, are joined at multiples of n.
LEMMA FlattenRegular ==
  ASSUME NEW S, NEW seqs \in Seq(Seq(S)), seqs # <<>>, NEW n \in Nat,
         \A k \in 1..(Len(seqs) - 1) : Len(seqs[k]) = n
  PROVE  /\ FlattenSeq(seqs) \in Seq(S)
         /\ Len(FlattenSeq(seqs)) = (Len(seqs) - 1) * n + Len(seqs[Len(seqs)])
         /\ \A k \in 1..Len(seqs) : \A i \in 1..Len(seqs[k]) : FlattenSeq(seqs)[(k - 1) * n + i] = seqs[k][i]
<1>1. Len(seqs) \in Nat \ {0}
  OBVIOUS
<1>2. PICK f \in [1..Len(seqs) -> Seq(S)] : IsFlatten(seqs, f) /\ FlattenSeq(seqs) = f[Len(seqs)]
  BY FlattenIs
<1>3. \A i \in 1..Len(seqs) : f[i] = IF i = 1 THEN seqs[i] ELSE f[i - 1] \o seqs[i]
  BY <1>2 DEF IsFlatten
<1>a. \A i \in 1..Len(seqs) : seqs[i] \in Seq(S)
  BY ElementOfSeq
<1>b. \A i \in 1..Len(seqs) : Len(seqs[i]) \in Nat
  <2> TAKE i \in 1..Len(seqs)
  <2> QED
    BY <1>a, LenProperties
<1>4. \A i \in 1..Len(seqs) : seqs[i] \in Seq(S) /\ f[i] \in Seq(S) /\ Len(seqs[i]) \in Nat
  BY <1>2, <1>a, <1>b
<1> DEFINE T == {m \in 1..Len(seqs) : Joined(seqs, n, f, m)}
<1>5. 1 \in T
  <2>1. 1 \in 1..Len(seqs)
    BY <1>1
  <2>2. f[1] = seqs[1] /\ Len(seqs[1]) \in Nat
    BY <2>1, <1>3, <1>4
  <2>3. \A i \in Nat : (1 - 1) * n + i = i
    OBVIOUS
  <2>4. Len(f[1]) = (1 - 1) * n + Len(seqs[1])
    BY <2>2, <2>3
  <2>5. ASSUME NEW k \in 1..1, NEW i \in 1..Len(seqs[k]) PROVE f[1][(k - 1) * n + i] = seqs[k][i]
    <3>1. k = 1 /\ i \in Nat
      BY <2>2
    <3> QED
      BY <3>1, <2>2, <2>3
  <2>6. Joined(seqs, n, f, 1)
    BY <2>4, <2>5 DEF Joined
  <2> QED
    BY <2>1, <2>6
<1>6. ASSUME NEW m \in 1..Len(seqs), m \in T, m + 1 <= Len(seqs)
      PROVE  m + 1 \in T
  <2>1. Joined(seqs, n, f, m) /\ m + 1 \in 1..Len(seqs) /\ m \in 1..(Len(seqs) - 1)
    BY <1>6, <1>1
  <2>2. f[m + 1] = f[m] \o seqs[m + 1] /\ Len(seqs[m]) = n
    <3>1. m + 1 # 1 /\ (m + 1) - 1 = m
      BY <2>1
    <3> QED
      BY <3>1, <2>1, <1>3
  <2>3. Len(f[m]) = (m - 1) * n + n /\ (m + 1 - 1) * n = (m - 1) * n + n /\ (m - 1) * n \in Nat
    BY <2>1, <2>2 DEF Joined
  <2>4. Len(f[m + 1]) = (m + 1 - 1) * n + Len(seqs[m + 1])
    <3>1. f[m] \in Seq(S) /\ seqs[m + 1] \in Seq(S)
      BY <2>1, <1>4
    <3>2. Len(f[m] \o seqs[m + 1]) = Len(f[m]) + Len(seqs[m + 1])
      BY <3>1, ConcatProperties
    <3> QED
      BY <3>2, <2>2, <2>3
  <2>5. ASSUME NEW k \in 1..(m + 1), NEW i \in 1..Len(seqs[k])
        PROVE  f[m + 1][(k - 1) * n + i] = seqs[k][i]
    <3>1. CASE k = m + 1
      <4>1. (k - 1) * n = Len(f[m]) /\ i \in 1..Len(seqs[m + 1])
        BY <3>1, <2>3
      <4>2. (f[m] \o seqs[m + 1])[Len(f[m]) + i] = seqs[m + 1][i]
        BY <4>1, <2>1, <1>4
      <4> QED
        BY <3>1, <4>1, <4>2, <2>2
    <3>2. CASE k # m + 1
      <4>1. k \in 1..m /\ m \in Nat /\ k \in 1..Len(seqs)
        BY <3>2, <2>1
      <4>2. f[m][(k - 1) * n + i] = seqs[k][i]
        BY <4>1, <2>1 DEF Joined
      <4>3. k = m \/ k \in 1..(Len(seqs) - 1)
        BY <4>1, <2>1
      <4>4. Len(seqs[k]) = n
        BY <4>3, <2>2
      <4>5. i \in 1..n
        BY <4>4
      <4>6. (k - 1) * n <= (m - 1) * n /\ (k - 1) * n \in Nat
        <5>1. k \in Nat \ {0} /\ m \in Nat \ {0} /\ k <= m
          BY <4>1
        <5> QED
          BY <5>1, Multiples
      <4>7. (k - 1) * n + i \in 1..Len(f[m])
        <5> DEFINE a == (k - 1) * n
                   b == (m - 1) * n
        <5>1. a \in Nat /\ a <= b /\ Len(f[m]) = b + n /\ b \in Nat
          BY <4>6, <2>3
        <5> HIDE DEF a, b
        <5>2. a + i \in 1..Len(f[m])
          BY <5>1, <4>5
        <5> QED
          BY <5>2 DEF a
      <4> HIDE DEF T
      <4>8. \A j \in 1..Len(f[m]) : (f[m] \o seqs[m + 1])[j] = f[m][j]
        BY <2>1, <1>4
      <4> QED
        BY <4>2, <4>7, <4>8, <2>2
    <3> QED
      BY <3>1, <3>2
  <2>6. Joined(seqs, n, f, m + 1)
    BY <2>4, <2>5 DEF Joined
  <2> QED
    BY <2>1, <2>6
<1> HIDE DEF T
<1>c. \A m \in 1..Len(seqs) : m \in T
  BY <1>1, <1>5, <1>6, Induction
<1>7. Len(seqs) \in T
  BY <1>1, <1>c
<1>8. Joined(seqs, n, f, Len(seqs))
  BY <1>7 DEF T
<1> QED
  BY <1>1, <1>2, <1>4, <1>8 DEF Joined

----------------------------------------------------------------------------
(* Padding                                                                  *)

\* A sequence filled up to n places with copies of its last element.
Clip(s, i) == IF i <= Len(s) THEN i ELSE Len(s)
Padded(s, n) == [i \in 1..n |-> s[Clip(s, i)]]

\* A place of the padded sequence stands for a place of the sequence.
LEMMA Clipped ==
  ASSUME NEW S, NEW s \in Seq(S), s # <<>>, NEW i \in Nat \ {0}
  PROVE  /\ Clip(s, i) \in 1..Len(s) /\ s[Clip(s, i)] \in S /\ (i <= Len(s) => Clip(s, i) = i)
         /\ Clip(s, i) = Min({i, Len(s)})
<1>1. Len(s) \in Nat \ {0}
  OBVIOUS
<1>2. Clip(s, i) \in 1..Len(s) /\ (i <= Len(s) => Clip(s, i) = i)
  BY <1>1 DEF Clip
<1>3. s[Clip(s, i)] \in S
  BY <1>2, ElementOfSeq
<1>4. Min({i, Len(s)}) \in {i, Len(s)} /\ Min({i, Len(s)}) <= i /\ Min({i, Len(s)}) <= Len(s)
  <2>1. i \in Int /\ Len(s) \in Int
    BY <1>1
  <2> QED
    BY <2>1, MinOfTwo, Zenon
<1>5. Clip(s, i) = Min({i, Len(s)})
  BY <1>1, <1>4 DEF Clip
<1> QED
  BY <1>2, <1>3, <1>5

\* Copies of the last element, appended, pad a sequence.
LEMMA PadIs ==
  ASSUME NEW S, NEW s \in Seq(S), s # <<>>, NEW n \in Nat, Len(s) <= n
  PROVE  /\ s \o [i \in 1..(n - Len(s)) |-> s[Len(s)]] = Padded(s, n)
         /\ Padded(s, n) \in Seq(S) /\ Len(Padded(s, n)) = n
<1>1. Len(s) \in Nat \ {0} /\ s[Len(s)] \in S
  OBVIOUS
<1> DEFINE c == [i \in 1..(n - Len(s)) |-> s[Len(s)]]
           u == s \o c
<1>2. n - Len(s) \in Nat
  BY <1>1
<1>3. c \in Seq(S) /\ Len(c) = n - Len(s)
  <2>1. \A i \in 1..(n - Len(s)) : s[Len(s)] \in S
    BY <1>1
  <2>2. c \in Seq(S)
    BY <1>2, <2>1, IsASeq
  <2> QED
    BY <1>2, <2>2, LenProperties
<1>4. \A i \in 1..(n - Len(s)) : c[i] = s[Len(s)]
  OBVIOUS
<1> HIDE DEF c
<1>5. /\ u \in Seq(S) /\ Len(u) = Len(s) + Len(c)
      /\ \A i \in 1..(Len(s) + Len(c)) : u[i] = IF i <= Len(s) THEN s[i] ELSE c[i - Len(s)]
  BY <1>3, ConcatProperties
<1> HIDE DEF u
<1>6. Len(u) = n /\ u \in Seq(S)
  BY <1>1, <1>3, <1>5
<1>7. \A i \in 1..n : s[Clip(s, i)] \in S
  <2> TAKE i \in 1..n
  <2>1. i \in Nat \ {0}
    OBVIOUS
  <2> QED
    BY <2>1, Clipped
<1>8. Padded(s, n) \in Seq(S)
  BY <1>7, IsASeq DEF Padded
<1>9. Len(Padded(s, n)) = n
  BY <1>8, LenProperties DEF Padded
<1>10. \A i \in 1..n : u[i] = Padded(s, n)[i]
  <2> TAKE i \in 1..n
  <2>1. Padded(s, n)[i] = s[Clip(s, i)]
    BY DEF Padded
  <2>2. CASE i <= Len(s)
    BY <2>1, <2>2, <1>1, <1>3, <1>5 DEF Clip
  <2>3. CASE ~(i <= Len(s))
    <3>1. i - Len(s) \in 1..(n - Len(s))
      BY <2>3, <1>1
    <3>2. u[i] = c[i - Len(s)]
      BY <2>3, <1>1, <1>3, <1>5
    <3> QED
      BY <2>1, <2>3, <3>1, <3>2, <1>4 DEF Clip
  <2> QED
    BY <2>2, <2>3
<1>11. u = Padded(s, n)
  BY <1>6, <1>8, <1>9, <1>10, SeqEqual
<1> QED
  BY <1>8, <1>9, <1>11 DEF u, c

----------------------------------------------------------------------------
(* What an aggregate is accepted for                                        *)

\* The aggregate of proofs, padded.
Made(proofs, transcript, version) ==
  AggregateProofs(PadProofsToTarget(proofs, GetAggregateTargetLen(Len(proofs))), transcript, version)

\* An aggregate has as many proofs as the target says.
LEMMA MadeIs ==
  ASSUME NEW S, NEW proofs \in Seq(S), proofs # <<>>, NEW transcript, NEW version
  PROVE  LET a == Made(proofs, transcript, version)
             n == GetAggregateTargetLen(Len(proofs))
         IN /\ a.kind = "aggregate" /\ a.transcript = transcript /\ a.version = version
            /\ a.proofs = Padded(proofs, n) /\ Len(a.proofs) = n /\ n \in Nat /\ n >= 2 /\ n >= Len(proofs)
            /\ NextPowerOfTwo(n) = n
            /\ a # NoProof
<1> DEFINE n == GetAggregateTargetLen(Len(proofs))
<1>1. Len(proofs) \in Nat \ {0}
  OBVIOUS
<1>2. n \in Nat /\ n >= 2 /\ n >= Len(proofs) /\ NextPowerOfTwo(n) = n
  BY <1>1, TargetLen
<1> HIDE DEF n
<1>3. PadProofsToTarget(proofs, n) = Padded(proofs, n) /\ Len(Padded(proofs, n)) = n
  BY <1>2, PadIs DEF PadProofsToTarget, Last
<1>4. Made(proofs, transcript, version) = [kind |-> "aggregate", proofs |-> Padded(proofs, n), transcript |-> transcript, version |-> version]
  BY <1>3 DEF Made, AggregateProofs, n
<1> QED
  BY <1>2, <1>3, <1>4 DEF n, NoProof

\* Inputs that are accepted are those that were proved, place by place, once both
\* are padded; there is one for each proof.
LEMMA AcceptedInputs ==
  ASSUME NEW S, NEW proofs \in Seq(S), proofs # <<>>, NEW inputs \in Seq(S), inputs # <<>>,
         NEW t, NEW v, NEW t2, NEW v2, VerifyAggregate(Made(proofs, t, v), inputs, t2, v2)
  PROVE  /\ t = t2 /\ v = v2 /\ Len(inputs) <= GetAggregateTargetLen(Len(proofs))
         /\ \A i \in 1..GetAggregateTargetLen(Len(proofs)) : inputs[Clip(inputs, i)] = proofs[Clip(proofs, i)]
<1> DEFINE a == Made(proofs, t, v)
           n == GetAggregateTargetLen(Len(proofs))
           per == InputsPerProof(a, inputs)
           target == n * per
<1>1. /\ a.transcript = t /\ a.version = v /\ a.proofs = Padded(proofs, n) /\ Len(a.proofs) = n
      /\ n \in Nat /\ n >= 2 /\ n >= Len(proofs)
  BY MadeIs
<1> HIDE DEF n
<1>2. /\ InputsReach(inputs, per, target)
      /\ a.proofs = PadInputsToTarget(inputs, per, target) /\ a.transcript = t2 /\ a.version = v2
  BY <1>1 DEF VerifyAggregate, VerifyAggregateProofs
<1>3. Len(inputs) \in Nat \ {0}
  OBVIOUS
<1>4. per \in Nat
  <2>1. GetAggregateTargetLen(Len(inputs)) \in Nat
    BY <1>3, TargetLen
  <2>2. per = GetAggregateTargetLen(Len(inputs)) \div n
    BY <1>1 DEF InputsPerProof
  <2> QED
    BY <2>1, <2>2, <1>1
<1> HIDE DEF a, per
<1>5. target \in Nat
  BY <1>1, <1>4
<1>6. target >= Len(inputs) /\ (per > 0)
  <2>1. target = 0 => per = 0 \/ n = 0
    BY <1>1, <1>4
  <2>2. per = 0 => target = 0
    BY <1>1
  <2> HIDE DEF target
  <2> QED
    BY <1>2, <1>3, <1>4, <1>5, <2>1, <2>2 DEF InputsReach
<1> HIDE DEF target
<1> DEFINE c == [i \in 1..(target - Len(inputs)) |-> inputs[Len(inputs) - per + ((i - 1) % per) + 1]]
<1>7. Padded(proofs, n) = inputs \o c
  BY <1>1, <1>2 DEF PadInputsToTarget
<1>8. n = target
  <2>1. Padded(proofs, n) \in Seq(S) /\ Len(Padded(proofs, n)) = n
    BY <1>1, PadIs
  <2>2. target - Len(inputs) \in Nat
    BY <1>3, <1>5, <1>6
  <2>3. Len(inputs \o c) = Len(inputs) + (target - Len(inputs))
    <3> DEFINE V == {c[i] : i \in 1..(target - Len(inputs))}
    <3>0. \A i \in 1..(target - Len(inputs)) : inputs[Len(inputs) - per + ((i - 1) % per) + 1] \in V
      OBVIOUS
    <3> HIDE DEF V
    <3>1. c \in Seq(V)
      BY <2>2, <3>0, IsASeq
    <3>2. Len(c) = target - Len(inputs)
      BY <2>2, <3>1, LenProperties
    <3> DEFINE SS == S \cup V
    <3>3. inputs \in Seq(SS)
      BY SeqMonotonic
    <3>4. c \in Seq(SS)
      BY <3>1, SeqMonotonic
    <3> HIDE DEF SS, c
    <3> QED
      BY <3>2, <3>3, <3>4, ConcatProperties
  <2> HIDE DEF c
  <2> QED
    BY <2>1, <2>2, <2>3, <1>3, <1>5, <1>7
<1>9. per = 1
  <2>1. n * per = n * 1
    BY <1>1, <1>8 DEF target
  <2> QED
    BY <2>1, <1>1, <1>4
<1>10. c = [i \in 1..(n - Len(inputs)) |-> inputs[Len(inputs)]]
  <2>1. \A i \in 1..(n - Len(inputs)) : Len(inputs) - 1 + ((i - 1) % 1) + 1 = Len(inputs)
    BY <1>3, <1>1
  <2> QED
    BY <2>1, <1>8, <1>9
<1> HIDE DEF c
<1>11. Padded(proofs, n) = Padded(inputs, n)
  BY <1>1, <1>6, <1>7, <1>8, <1>10, PadIs
<1>12. \A i \in 1..n : inputs[Clip(inputs, i)] = proofs[Clip(proofs, i)]
  <2> TAKE i \in 1..n
  <2>1. Padded(proofs, n)[i] = proofs[Clip(proofs, i)] /\ Padded(inputs, n)[i] = inputs[Clip(inputs, i)]
    BY DEF Padded
  <2> QED
    BY <2>1, <1>11
<1> QED
  BY <1>1, <1>2, <1>6, <1>8, <1>12 DEF n

\* The inputs that were proved are accepted.
LEMMA OwnInputs ==
  ASSUME NEW S, NEW proofs \in Seq(S), proofs # <<>>, NEW t, NEW v
  PROVE  /\ InputsPerProof(Made(proofs, t, v), proofs) = 1
         /\ VerifyAggregate(Made(proofs, t, v), proofs, t, v)
<1> DEFINE a == Made(proofs, t, v)
           n == GetAggregateTargetLen(Len(proofs))
<1>1. /\ a.kind = "aggregate" /\ a.transcript = t /\ a.version = v /\ a.proofs = Padded(proofs, n) /\ Len(a.proofs) = n
      /\ n \in Nat /\ n >= 2 /\ n >= Len(proofs) /\ NextPowerOfTwo(n) = n
  BY MadeIs
<1>2. Len(proofs) \in Nat \ {0}
  OBVIOUS
<1>3. InputsPerProof(a, proofs) = n \div n
  BY <1>1 DEF InputsPerProof
<1> HIDE DEF a, n
<1>4. n \div n = 1 /\ n * 1 = n
  BY <1>1
<1>5. InputsReach(proofs, 1, n)
  BY <1>1, <1>2 DEF InputsReach
<1>6. PadInputsToTarget(proofs, 1, n) = Padded(proofs, n)
  <2>1. \A i \in 1..(n - Len(proofs)) : Len(proofs) - 1 + ((i - 1) % 1) + 1 = Len(proofs)
    BY <1>1, <1>2
  <2>2. [i \in 1..(n - Len(proofs)) |-> proofs[Len(proofs) - 1 + ((i - 1) % 1) + 1]] = [i \in 1..(n - Len(proofs)) |-> proofs[Len(proofs)]]
    BY <2>1
  <2> QED
    BY <2>2, <1>1, PadIs DEF PadInputsToTarget
<1>7. VerifyAggregate(a, proofs, t, v)
  BY <1>1, <1>3, <1>4, <1>5, <1>6 DEF VerifyAggregate, VerifyAggregateProofs
<1> QED
  BY <1>3, <1>4, <1>7 DEF a

\* m sequences of length p over S.
Uniform(S, g, m, p) ==
  /\ g \in Seq(Seq(S)) /\ m \in Nat \ {0} /\ Len(g) = m /\ p \in Nat \ {0}
  /\ \A i \in 1..m : Len(g[i]) = p

\* The elements of m sequences of length p, at the multiples of p.
JoinOf(S, flat, g, m, p) ==
  /\ flat \in Seq(S) /\ Len(flat) = m * p /\ flat # <<>>
  /\ \A i \in 1..m : \A k \in 1..p : (i - 1) * p + k \in 1..(m * p) /\ flat[(i - 1) * p + k] = g[i][k]

\* Sequences of one length, joined.
LEMMA FlattenUniform ==
  ASSUME NEW S, NEW g, NEW m, NEW p, Uniform(S, g, m, p)
  PROVE  JoinOf(S, FlattenSeq(g), g, m, p)
<1>0. /\ g \in Seq(Seq(S)) /\ g # <<>> /\ p \in Nat \ {0} /\ m \in Nat \ {0} /\ Len(g) = m
      /\ \A i \in 1..m : Len(g[i]) = p
  BY DEF Uniform
<1>1. m \in Nat \ {0} /\ p \in Nat
  BY <1>0
<1>2. Len(g[m]) = p /\ \A i \in 1..(Len(g) - 1) : Len(g[i]) = p
  BY <1>0
<1>3. /\ FlattenSeq(g) \in Seq(S)
      /\ Len(FlattenSeq(g)) = (Len(g) - 1) * p + Len(g[Len(g)])
      /\ \A k \in 1..Len(g) : \A i \in 1..Len(g[k]) : FlattenSeq(g)[(k - 1) * p + i] = g[k][i]
  BY <1>0, <1>1, <1>2, FlattenRegular
<1>4. /\ Len(FlattenSeq(g)) = (m - 1) * p + p
      /\ \A k \in 1..m : \A i \in 1..p : FlattenSeq(g)[(k - 1) * p + i] = g[k][i]
  <2>1. Len(FlattenSeq(g)) = (m - 1) * p + p
    BY <1>0, <1>2, <1>3, Zenon
  <2>2. ASSUME NEW k \in 1..m, NEW i \in 1..p PROVE FlattenSeq(g)[(k - 1) * p + i] = g[k][i]
    <3>1. Len(g[k]) = p /\ k \in 1..Len(g)
      BY <1>0
    <3> QED
      BY <3>1, <1>3, Zenon
  <2> QED
    BY <2>1, <2>2
<1>5. m * p = (m - 1) * p + p /\ (m - 1) * p \in Nat
  BY <1>1, Multiples
<1>6. Len(FlattenSeq(g)) = m * p /\ m * p >= 1
  <2> DEFINE y == (m - 1) * p
             z == m * p
  <2>1. Len(FlattenSeq(g)) = y + p /\ z = y + p /\ y \in Nat
    BY <1>4, <1>5
  <2> HIDE DEF y, z
  <2>2. Len(FlattenSeq(g)) = z /\ z >= 1
    BY <2>1, <1>0
  <2> QED
    BY <2>2 DEF z
<1>7. FlattenSeq(g) # <<>>
  BY <1>6
<1>8. ASSUME NEW i \in 1..m, NEW k \in 1..p PROVE (i - 1) * p + k \in 1..(m * p)
  <2>0. i \in Nat \ {0} /\ i <= m
    BY <1>1
  <2>1. (i - 1) * p \in Nat /\ (i - 1) * p <= (m - 1) * p
    BY <1>1, <2>0, Multiples
  <2> DEFINE x == (i - 1) * p
             y == (m - 1) * p
             z == m * p
  <2>2. x \in Nat /\ y \in Nat /\ x <= y /\ z = y + p
    BY <2>1, <1>5
  <2> HIDE DEF x, y, z
  <2>3. x + k \in 1..z
    BY <2>2, <1>0
  <2> QED
    BY <2>3 DEF x, z
<1> QED
  BY <1>3, <1>4, <1>6, <1>7, <1>8 DEF JoinOf

----------------------------------------------------------------------------
(* The inputs of a sector                                                   *)

\* What a proof of a seal or of an update takes as inputs.
SealInputSet == [replica : Nat \X Nat \X Nat, commR : Nat, commD : Nat, seed : Nat, k : Nat]
UpdateInputSet == [commROld : Nat, commRNew : Nat, commDNew : Nat, h : Nat, k : Nat]
InputSet(of) == IF of = "seal" THEN SealInputSet ELSE UpdateInputSet
Infos(of) == IF of = "seal" THEN SealInfos ELSE UpdateInfos

\* A configuration is what PorepConfigs lists.
LEMMA ConfigType ==
  ASSUME NEW cfg \in PorepConfigs
  PROVE  cfg.ni \in BOOLEAN /\ cfg.partitions \in Nat \ {0} /\ cfg.minimum \in Nat /\ cfg.h \in Nat
BY AggregationAssumption

\* So is what a sector is known by.
LEMMA InfoType ==
  ASSUME NEW s \in SealInfos
  PROVE  /\ s \in [id : Nat, ticket : Nat, commR : Nat, commD : Nat, seed : Nat]
         /\ s.id \in Nat /\ s.ticket \in Nat /\ s.commR \in Nat /\ s.commD \in Nat /\ s.seed \in Nat
BY AggregationAssumption

\* There is one input for each partition, unless a commitment is zero.
LEMMA SealInputsType ==
  ASSUME NEW cfg \in PorepConfigs, NEW s \in SealInfos
  PROVE  /\ GetSealInputs(cfg, s) \in Seq(SealInputSet)
         /\ s.commD = Zero \/ s.commR = Zero => GetSealInputs(cfg, s) = <<>>
         /\ ~(s.commD = Zero \/ s.commR = Zero) =>
              /\ GetSealInputs(cfg, s) # <<>> /\ Len(GetSealInputs(cfg, s)) = cfg.partitions
              /\ \A k \in 1..cfg.partitions : GetSealInputs(cfg, s)[k] = SealInputs(cfg, s, k)
<1> DEFINE g == [k \in 1..cfg.partitions |-> SealInputs(cfg, s, k)]
<1>1. cfg.partitions \in Nat \ {0}
  BY ConfigType
<1>2. ASSUME NEW k \in 1..cfg.partitions PROVE SealInputs(cfg, s, k) \in SealInputSet
  <2>1. k \in Nat /\ (IF cfg.ni THEN Zero ELSE s.seed) \in Nat
    BY <1>1, InfoType DEF Zero
  <2>2. <<s.id, s.ticket, s.commD>> \in Nat \X Nat \X Nat
    BY InfoType
  <2> QED
    BY <2>1, <2>2, InfoType DEF SealInputs, SealInputSet
<1>3. g \in Seq(SealInputSet)
  BY <1>1, <1>2, IsASeq
<1>4. Len(g) = cfg.partitions
  BY <1>1, <1>3, LenProperties
<1>5. g # <<>>
  BY <1>1, <1>4
<1>6. GetSealInputs(cfg, s) = IF s.commD = Zero \/ s.commR = Zero THEN <<>> ELSE g
  BY DEF GetSealInputs
<1>7. \A k \in 1..cfg.partitions : g[k] = SealInputs(cfg, s, k)
  OBVIOUS
<1> HIDE DEF g
<1> QED
  BY <1>3, <1>4, <1>5, <1>6, <1>7

\* An input tells which sector it is of, as far as the proof says.
LEMMA InputsSay ==
  ASSUME NEW cfg \in PorepConfigs, NEW s \in SealInfos, NEW u \in SealInfos, NEW k, NEW l,
         SealInputs(cfg, s, k) = SealInputs(cfg, u, l)
  PROVE  Said(cfg, s) = Said(cfg, u) /\ k = l
<1>1. /\ SealInputs(cfg, s, k).replica = SealInputs(cfg, u, l).replica
      /\ SealInputs(cfg, s, k).commR = SealInputs(cfg, u, l).commR
      /\ SealInputs(cfg, s, k).seed = SealInputs(cfg, u, l).seed
      /\ SealInputs(cfg, s, k).k = SealInputs(cfg, u, l).k
  OBVIOUS
<1>2. /\ <<s.id, s.ticket, s.commD>> = <<u.id, u.ticket, u.commD>> /\ s.commR = u.commR /\ k = l
      /\ (IF cfg.ni THEN Zero ELSE s.seed) = (IF cfg.ni THEN Zero ELSE u.seed)
  BY <1>1 DEF SealInputs
<1>3. s.id = u.id /\ s.ticket = u.ticket /\ s.commD = u.commD
  BY <1>2
<1>4. cfg.ni \in BOOLEAN
  BY ConfigType
<1>5. Said(cfg, s) = Said(cfg, u)
  BY <1>2, <1>3, <1>4, InfoType DEF Said
<1> QED
  BY <1>2, <1>5

\* And the inputs are those of any sector of which it says the same.
LEMMA SayInputs ==
  ASSUME NEW cfg \in PorepConfigs, NEW s \in SealInfos, NEW u \in SealInfos, Said(cfg, s) = Said(cfg, u)
  PROVE  /\ GetSealInputs(cfg, s) = GetSealInputs(cfg, u)
         /\ s.commR = u.commR /\ s.commD = u.commD
         /\ ~cfg.ni => s = u
<1>1. cfg.ni \in BOOLEAN
  BY ConfigType
<1>2. /\ Said(cfg, s).id = s.id /\ Said(cfg, s).ticket = s.ticket /\ Said(cfg, s).commD = s.commD
      /\ Said(cfg, s).commR = s.commR /\ (~cfg.ni => Said(cfg, s) = s)
  BY InfoType DEF Said
<1>3. /\ Said(cfg, u).id = u.id /\ Said(cfg, u).ticket = u.ticket /\ Said(cfg, u).commD = u.commD
      /\ Said(cfg, u).commR = u.commR /\ (~cfg.ni => Said(cfg, u) = u)
  BY InfoType DEF Said
<1>4. /\ s.id = u.id /\ s.ticket = u.ticket /\ s.commD = u.commD /\ s.commR = u.commR
      /\ (~cfg.ni => s = u)
  BY <1>2, <1>3
<1>5. \A k \in 1..cfg.partitions : SealInputs(cfg, s, k) = SealInputs(cfg, u, k)
  BY <1>1, <1>4 DEF SealInputs
<1>6. GetSealInputs(cfg, s) = GetSealInputs(cfg, u)
  BY <1>4, <1>5 DEF GetSealInputs
<1> QED
  BY <1>4, <1>6

\* One sequence, joined to nothing.
LEMMA FlattenOne ==
  ASSUME NEW S, NEW s \in Seq(S), s # <<>>
  PROVE  FlattenSeq([i \in 1..1 |-> s]) = s
<1> DEFINE g == [i \in 1..1 |-> s]
<1>1. Len(s) \in Nat \ {0}
  OBVIOUS
<1>2. g = [i \in 1..1 |-> g[i]] /\ \A i \in 1..1 : g[i] = s
  OBVIOUS
<1> HIDE DEF g
<1>3. /\ FlattenSeq(g) \in Seq(S) /\ Len(FlattenSeq(g)) = 1 * Len(s)
      /\ \A i \in 1..1 : \A k \in 1..Len(s) : FlattenSeq(g)[(i - 1) * Len(s) + k] = g[i][k]
  <2>1. g \in Seq(Seq(S))
    BY <1>2, IsASeq
  <2>2. Len(g) = 1
    BY <1>2, <2>1, LenProperties
  <2>3. Uniform(S, g, 1, Len(s))
    BY <1>1, <1>2, <2>1, <2>2 DEF Uniform
  <2>4. JoinOf(S, FlattenSeq(g), g, 1, Len(s))
    BY <2>3, FlattenUniform
  <2> QED
    BY <2>4 DEF JoinOf
<1>4. \A k \in 1..Len(s) : (1 - 1) * Len(s) + k = k
  BY <1>1
<1>5. \A k \in 1..Len(s) : FlattenSeq(g)[k] = s[k]
  <2>1. 1 \in 1..1
    OBVIOUS
  <2> QED
    BY <1>2, <1>3, <1>4, <2>1
<1>6. Len(FlattenSeq(g)) = Len(s)
  BY <1>1, <1>3
<1>7. FlattenSeq(g) = s
  BY <1>3, <1>5, <1>6, SeqEqual
<1> QED
  BY <1>7 DEF g

----------------------------------------------------------------------------
(* Phase 2 of the commit                                                    *)

\* When phase 2 returns a proof, and which.
CanCommit(cfg, s) ==
  /\ Zero \notin {s.seed, s.commR, s.commD} /\ FirstSupported(cfg)
  /\ cfg.ni => GetAggregateTargetLen(cfg.partitions) <= SrsMax
CommitProof(cfg, s) ==
  IF cfg.ni THEN Made(GetSealInputs(cfg, s), <<s.commR>>, "V2")
  ELSE [kind |-> "multi", proofs |-> GetSealInputs(cfg, s)]

\* Enough challenges in each partition make enough of them in all.
LEMMA ChallengesEnough ==
  ASSUME NEW cfg \in PorepConfigs
  PROVE  EnoughChallenges(cfg, cfg.partitions)
<1> DEFINE x == cfg.minimum - 1
           p == cfg.partitions
           q == x \div p
<1>1. x \in Int /\ p \in Nat \ {0}
  BY ConfigType
<1>a. \A y \in Int : y \div p \in Int /\ y = p * (y \div p) + (y % p) /\ y % p < p
  <2> HIDE DEF p
  <2> QED
    BY <1>1
<1>2. q \in Int /\ x = p * q + (x % p) /\ x % p < p
  BY <1>1, <1>a
<1>3. (1 + q) * p = p + p * q
  BY <1>1, <1>2
<1>4. x + 1 = cfg.minimum
  BY ConfigType
<1>5. EnoughChallenges(cfg, cfg.partitions) <=> (1 + q) * p >= cfg.minimum
  BY DEF EnoughChallenges, SelectChallenges
<1> HIDE DEF x, p, q
<1>6. x + 1 <= p + p * q
  <2> DEFINE y == p * q
  <2>1. y \in Int /\ x = y + (x % p) /\ x % p < p /\ x % p \in Int
    BY <1>1, <1>2
  <2> HIDE DEF y
  <2>2. x + 1 <= p + y
    BY <1>1, <2>1
  <2> QED
    BY <2>2 DEF y
<1> QED
  BY <1>1, <1>2, <1>3, <1>4, <1>5, <1>6

\* The proof that phase 2 makes is accepted for the sectors it says the same of.
LEMMA CommitAccepted ==
  ASSUME NEW cfg \in PorepConfigs, NEW s \in SealInfos, NEW u \in SealInfos,
         s.commR # Zero, s.commD # Zero
  PROVE  VerifySeal(cfg, u, CommitProof(cfg, s)) <=> Said(cfg, u) = Said(cfg, s)
<1> DEFINE g == GetSealInputs(cfg, s)
           h == GetSealInputs(cfg, u)
           p == cfg.partitions
<1>1. p \in Nat \ {0} /\ cfg.ni \in BOOLEAN
  BY ConfigType
<1>2. g \in Seq(SealInputSet) /\ g # <<>> /\ Len(g) = p /\ \A k \in 1..p : g[k] = SealInputs(cfg, s, k)
  BY SealInputsType
<1>3. /\ h \in Seq(SealInputSet)
      /\ u.commD = Zero \/ u.commR = Zero => h = <<>>
      /\ ~(u.commD = Zero \/ u.commR = Zero) => h # <<>> /\ Len(h) = p /\ \A k \in 1..p : h[k] = SealInputs(cfg, u, k)
  BY SealInputsType
<1>4. ASSUME Said(cfg, u) = Said(cfg, s) PROVE h = g /\ u.commR = s.commR /\ u.commD = s.commD
  BY <1>4, SayInputs
<1>5. ASSUME h # <<>>, g[1] = h[1] PROVE Said(cfg, u) = Said(cfg, s)
  <2>1. ~(u.commD = Zero \/ u.commR = Zero)
    BY <1>3, <1>5
  <2>2. g[1] = SealInputs(cfg, s, 1) /\ h[1] = SealInputs(cfg, u, 1)
    BY <1>1, <1>2, <1>3, <2>1
  <2>3. SealInputs(cfg, u, 1) = SealInputs(cfg, s, 1)
    BY <2>2, <1>5
  <2> QED
    BY <2>3, InputsSay
<1> HIDE DEF g, h, p
<1>6. CASE ~cfg.ni
  <2> DEFINE o == [kind |-> "multi", proofs |-> g]
  <2>1. CommitProof(cfg, s) = o /\ o.kind = "multi" /\ o.proofs = g
    BY <1>6 DEF CommitProof, g
  <2>2. VerifySeal(cfg, u, o) <=> VerifyMulti(cfg, u, o)
    BY <1>6 DEF VerifySeal
  <2>3. VerifyMulti(cfg, u, o) <=> u.commD # Zero /\ u.commR # Zero /\ g = h
    <3>1. EnoughChallenges(cfg, p)
      BY ChallengesEnough DEF p
    <3> QED
      BY <3>1, <1>2 DEF VerifyMulti, ReadMany, h, p
  <2>4. u.commD # Zero /\ u.commR # Zero /\ g = h <=> Said(cfg, u) = Said(cfg, s)
    BY <1>2, <1>4, <1>5
  <2> QED
    BY <2>1, <2>2, <2>3, <2>4
<1>7. CASE cfg.ni
  <2> DEFINE o == Made(g, <<s.commR>>, "V2")
  <2>1. CommitProof(cfg, s) = o /\ o.kind = "aggregate"
    <3>1. o.kind = "aggregate"
      BY <1>2, MadeIs
    <3> QED
      BY <3>1, <1>7 DEF CommitProof, g
  <2>2. VerifySeal(cfg, u, o) <=> h # <<>> /\ VerifyAggregate(o, h, <<u.commR>>, "V2")
    <3>1. Len(<<u.commR>>) = Len(<<u.seed>>)
      OBVIOUS
    <3>2. HashedSeedsAndCommRs(cfg, <<u.commR>>, <<u.seed>>) = <<u.commR>>
      BY <1>7 DEF HashedSeedsAndCommRs
    <3> QED
      BY <3>1, <3>2, <1>7, <2>1 DEF VerifySeal, VerifyAggregateSealCommitProofs, h
  <2>3. ASSUME h # <<>>, VerifyAggregate(o, h, <<u.commR>>, "V2") PROVE Said(cfg, u) = Said(cfg, s)
    <3> DEFINE n == GetAggregateTargetLen(Len(g))
    <3>1. \A i \in 1..n : h[Clip(h, i)] = g[Clip(g, i)]
      BY <1>2, <1>3, <2>3, AcceptedInputs
    <3>2. n \in Nat /\ n >= 2
      BY <1>1, <1>2, TargetLen
    <3> HIDE DEF n
    <3>3. h[Clip(h, 1)] = g[Clip(g, 1)]
      BY <3>1, <3>2
    <3>4. Clip(h, 1) = 1 /\ Clip(g, 1) = 1
      <4>1. Len(h) = p
        BY <1>3, <2>3
      <4> QED
        BY <4>1, <1>1, <1>2 DEF Clip
    <3> QED
      BY <3>3, <3>4, <1>5, <2>3
  <2>4. ASSUME Said(cfg, u) = Said(cfg, s) PROVE h # <<>> /\ VerifyAggregate(o, h, <<u.commR>>, "V2")
    BY <2>4, <1>2, <1>4, OwnInputs
  <2> QED
    BY <2>1, <2>2, <2>3, <2>4
<1> QED
  BY <1>6, <1>7

\* What phase 2 returns.
LEMMA CommitIs ==
  ASSUME NEW cfg \in PorepConfigs, NEW s \in SealInfos
  PROVE  /\ SealCommitPhase2(cfg, s) = IF CanCommit(cfg, s) THEN CommitProof(cfg, s) ELSE NoProof
         /\ CanCommit(cfg, s) => CommitProof(cfg, s) # NoProof
<1> DEFINE g == GetSealInputs(cfg, s)
           p == cfg.partitions
           o == [kind |-> "multi", proofs |-> g]
           output == SealCircuitProofs(cfg, s)
           proof == IF ~cfg.ni THEN output
                    ELSE IF FirstSupported(cfg) /\ output # NoProof
                    THEN AggregateSealCommitProofs(cfg, <<s.commR>>, <<s.seed>>, <<output>>, "V2")
                    ELSE NoProof
           bad == Zero \in {s.seed, s.commR, s.commD}
<1>1. p \in Nat \ {0} /\ cfg.ni \in BOOLEAN
  BY ConfigType
<1>2. g \in Seq(SealInputSet) /\ (s.commR # Zero /\ s.commD # Zero <=> g # <<>>) /\ (g # <<>> => Len(g) = p)
  BY SealInputsType
<1>3. output = IF bad THEN NoProof ELSE o
  BY <1>2 DEF SealCircuitProofs
<1>4. o # NoProof /\ o.kind = "multi" /\ o.proofs = g
  BY DEF NoProof
<1>5. SealCommitPhase2(cfg, s) = IF proof # NoProof /\ VerifySeal(cfg, s, proof) THEN proof ELSE NoProof
  BY DEF SealCommitPhase2
<1> HIDE DEF g, o, output
<1>6. proof = IF CanCommit(cfg, s) THEN CommitProof(cfg, s) ELSE NoProof
  <2>1. CASE ~cfg.ni
    BY <2>1, <1>3 DEF CanCommit, CommitProof, FirstSupported, o, g
  <2>2. CASE cfg.ni /\ (bad \/ ~FirstSupported(cfg))
    BY <2>2, <1>3 DEF CanCommit
  <2>3. CASE cfg.ni /\ ~bad /\ FirstSupported(cfg)
    <3>1. output = o /\ g # <<>> /\ Len(g) = p
      BY <2>3, <1>2, <1>3
    <3>2. proof = AggregateSealCommitProofs(cfg, <<s.commR>>, <<s.seed>>, <<o>>, "V2")
      BY <2>3, <3>1, <1>4
    <3>3. <<o>> # <<>> /\ Len(<<o>>) = 1 /\ DOMAIN <<o>> = 1..1 /\ <<o>>[1] = o
      OBVIOUS
    <3>4. proof = Aggregate(<<o>>, <<s.commR>>, "V2", p)
      <4>1. HashedSeedsAndCommRs(cfg, <<s.commR>>, <<s.seed>>) = <<s.commR>>
        BY <2>3 DEF HashedSeedsAndCommRs
      <4> QED
        BY <4>1, <3>2, <3>3 DEF AggregateSealCommitProofs
    <3>5. FlattenSeq([i \in DOMAIN <<o>> |-> <<o>>[i].proofs]) = g
      <4>1. [i \in DOMAIN <<o>> |-> <<o>>[i].proofs] = [i \in 1..1 |-> g]
        BY <3>3, <1>4
      <4> QED
        BY <4>1, <3>1, <1>2, FlattenOne
    <3>6. \A i \in DOMAIN <<o>> : ReadMany(<<o>>[i], p)
      BY <3>1, <3>3, <1>4 DEF ReadMany
    <3>7. GetAggregateTargetLen(p) > 1
      BY <1>1, TargetLen
    <3>8. proof = IF GetAggregateTargetLen(p) <= SrsMax THEN Made(g, <<s.commR>>, "V2") ELSE NoProof
      BY <3>1, <3>4, <3>5, <3>6, <3>7 DEF Aggregate, Made
    <3> QED
      BY <2>3, <3>8 DEF CanCommit, CommitProof, g
  <2> QED
    BY <1>1, <2>1, <2>2, <2>3
<1> HIDE DEF proof
<1>7. ASSUME CanCommit(cfg, s) PROVE CommitProof(cfg, s) # NoProof /\ VerifySeal(cfg, s, CommitProof(cfg, s))
  <2>1. s.commR # Zero /\ s.commD # Zero
    BY <1>7 DEF CanCommit
  <2>2. VerifySeal(cfg, s, CommitProof(cfg, s))
    BY <2>1, CommitAccepted
  <2>3. CommitProof(cfg, s) # NoProof
    <3>1. g # <<>>
      BY <2>1, <1>2
    <3>2. Made(g, <<s.commR>>, "V2") # NoProof
      BY <3>1, <1>2, MadeIs
    <3> QED
      BY <3>2, <1>4 DEF CommitProof, o, g
  <2> QED
    BY <2>2, <2>3
<1> QED
  BY <1>5, <1>6, <1>7

----------------------------------------------------------------------------
(* Aggregates of lists of sectors                                           *)

\* The inputs of the sectors of a list, one after the other.
FlatInputs(cfg, of, list) == FlattenSeq([i \in DOMAIN list |-> InputsOf(cfg, of, list[i])])

\* What phase 2 and the update of one sector hand to the aggregation.
OutputOf(cfg, of, s) == IF of = "seal" THEN SealCircuitProofs(cfg, s) ELSE UpdateProof(cfg, s)

\* A list of sectors is a sequence of them, with seeds that are not zero.
LEMMA ListType ==
  ASSUME NEW of \in {"seal", "update"}, NEW list \in Lists(of)
  PROVE  list \in Seq(Infos(of)) /\ Len(list) \in Nat /\ DOMAIN list = 1..Len(list)
         /\ (of = "seal" => \A i \in 1..Len(list) : list[i].seed # Zero)
<1> DEFINE X == IF of = "seal" THEN {s \in SealInfos : s.seed # Zero} ELSE UpdateInfos
<1>1. PICK m \in 0..MaxSectors : list \in [1..m -> X]
  BY DEF Lists, SeqOf
<1>2. m \in Nat
  BY AggregationAssumption
<1>3. \A i \in 1..m : list[i] \in Infos(of) /\ (of = "seal" => list[i].seed # Zero)
  BY <1>1 DEF Infos
<1>4. list = [i \in 1..m |-> list[i]]
  BY <1>1
<1>5. list \in Seq(Infos(of))
  BY <1>2, <1>3, <1>4, IsASeq
<1>6. Len(list) = m /\ DOMAIN list = 1..m
  BY <1>1, <1>2, <1>5, LenProperties
<1> QED
  BY <1>2, <1>3, <1>5, <1>6

\* The inputs of one sector.
LEMMA InputsType ==
  ASSUME NEW cfg \in PorepConfigs, NEW of \in {"seal", "update"}, NEW s \in Infos(of)
  PROVE  /\ InputsOf(cfg, of, s) \in Seq(InputSet(of))
         /\ InputsOf(cfg, of, s) # <<>> => Len(InputsOf(cfg, of, s)) = cfg.partitions
<1>1. CASE of = "seal"
  BY <1>1, SealInputsType DEF InputsOf, InputSet, Infos
<1>2. CASE of # "seal"
  <2> DEFINE one(k) == [commROld |-> s.commROld, commRNew |-> s.commRNew, commDNew |-> s.commDNew, h |-> cfg.h, k |-> k]
             g == [k \in 1..cfg.partitions |-> one(k)]
  <2>1. cfg.partitions \in Nat \ {0} /\ cfg.h \in Nat
    BY ConfigType
  <2>2. s.commROld \in Nat /\ s.commRNew \in Nat /\ s.commDNew \in Nat
    BY <1>2, AggregationAssumption DEF Infos
  <2>3. \A k \in 1..cfg.partitions : one(k) \in UpdateInputSet
    BY <2>1, <2>2 DEF UpdateInputSet
  <2>4. g \in Seq(UpdateInputSet)
    BY <2>1, <2>3, IsASeq
  <2>5. Len(g) = cfg.partitions
    BY <2>1, <2>4, LenProperties
  <2>6. InputsOf(cfg, of, s) = IF Zero \in {s.commROld, s.commRNew, s.commDNew} THEN <<>> ELSE g
    BY <1>2 DEF InputsOf, GetSectorUpdateInputs
  <2> HIDE DEF g
  <2> QED
    BY <1>2, <2>4, <2>5, <2>6 DEF InputSet
<1> QED
  BY <1>1, <1>2

\* The inputs of a list.
LEMMA FlatType ==
  ASSUME NEW cfg \in PorepConfigs, NEW of \in {"seal", "update"}, NEW list \in Seq(Infos(of)), list # <<>>,
         \A i \in DOMAIN list : InputsOf(cfg, of, list[i]) # <<>>
  PROVE  LET p == cfg.partitions
             flat == FlatInputs(cfg, of, list)
         IN /\ flat \in Seq(InputSet(of)) /\ flat # <<>> /\ Len(flat) = Len(list) * p
            /\ \A i \in 1..Len(list) : \A k \in 1..p :
                 (i - 1) * p + k \in 1..(Len(list) * p) /\ flat[(i - 1) * p + k] = InputsOf(cfg, of, list[i])[k]
<1> DEFINE g == [i \in DOMAIN list |-> InputsOf(cfg, of, list[i])]
           m == Len(list)
           p == cfg.partitions
<1>1. m \in Nat \ {0} /\ DOMAIN list = 1..m /\ p \in Nat \ {0}
  BY ConfigType
<1>2. ASSUME NEW i \in 1..m PROVE InputsOf(cfg, of, list[i]) \in Seq(InputSet(of)) /\ Len(InputsOf(cfg, of, list[i])) = p
  <2>1. list[i] \in Infos(of)
    BY ElementOfSeq
  <2> QED
    BY <2>1, <1>1, InputsType
<1>3. g = [i \in 1..m |-> InputsOf(cfg, of, list[i])]
  BY <1>1
<1>4. g \in Seq(Seq(InputSet(of)))
  <2>1. \A i \in 1..m : InputsOf(cfg, of, list[i]) \in Seq(InputSet(of))
    BY <1>2
  <2> QED
    BY <1>1, <1>3, <2>1, IsASeq
<1>5. Len(g) = m
  BY <1>1, <1>3, <1>4, LenProperties
<1>6. \A i \in 1..m : g[i] = InputsOf(cfg, of, list[i])
  BY <1>3
<1>a. \A i \in 1..m : Len(g[i]) = p
  BY <1>2, <1>6
<1> HIDE DEF g, m, p
<1>b. Uniform(InputSet(of), g, m, p)
  BY <1>1, <1>4, <1>5, <1>a DEF Uniform
<1>c. JoinOf(InputSet(of), FlattenSeq(g), g, m, p)
  BY <1>b, FlattenUniform
<1>7. /\ FlattenSeq(g) \in Seq(InputSet(of)) /\ Len(FlattenSeq(g)) = m * p /\ FlattenSeq(g) # <<>>
      /\ \A i \in 1..m : \A k \in 1..p : (i - 1) * p + k \in 1..(m * p) /\ FlattenSeq(g)[(i - 1) * p + k] = g[i][k]
  BY <1>c DEF JoinOf
<1>8. FlatInputs(cfg, of, list) = FlattenSeq(g)
  BY DEF FlatInputs, g
<1> QED
  BY <1>6, <1>7, <1>8 DEF m, p

\* The lists a caller names: at each place the sector proved there, or the last one.
LEMMA NamedIs ==
  ASSUME NEW S, NEW proved \in Seq(S), proved # <<>>, NEW named \in Named(proved)
  PROVE  /\ named \in Seq(S)
         /\ \A i \in 1..Len(named) : named[i] = proved[Clip(proved, i)]
<1>1. Len(proved) \in Nat \ {0} /\ proved[Len(proved)] \in S
  OBVIOUS
<1>2. named = proved \/ named = Front(proved) \/ named = Append(proved, Last(proved))
  BY DEF Named
<1>3. CASE named = proved
  BY <1>1, <1>3 DEF Clip
<1>4. CASE named = Front(proved)
  <2>1. /\ SubSeq(proved, 1, Len(proved) - 1) \in Seq(S)
        /\ Len(SubSeq(proved, 1, Len(proved) - 1)) = Len(proved) - 1
        /\ \A i \in 1..(Len(proved) - 1) : SubSeq(proved, 1, Len(proved) - 1)[i] = proved[i]
    <3> DEFINE n == Len(proved) - 1
               f == SubSeq(proved, 1, n)
    <3>1. 1 \in 1..(Len(proved) + 1) /\ n \in 0..Len(proved)
      BY <1>1
    <3>2. /\ f \in Seq(S) /\ Len(f) = (IF 1 <= n THEN n - 1 + 1 ELSE 0)
          /\ \A i \in 1..(n - 1 + 1) : f[i] = proved[1 + i - 1]
      BY <3>1, SubSeqProperties
    <3> HIDE DEF f
    <3> HIDE DEF n
    <3>a. n \in Nat
      BY <3>1
    <3>b. Len(f) = n
      BY <3>a, <3>2
    <3>c. n - 1 + 1 = n /\ \A i \in 1..n : 1 + i - 1 = i
      BY <3>a
    <3>3. Len(f) = n /\ \A i \in 1..n : f[i] = proved[i]
      BY <3>b, <3>c, <3>2
    <3> QED
      BY <3>2, <3>3 DEF f, n
  <2> QED
    BY <2>1, <1>1, <1>4 DEF Front, Clip
<1>5. CASE named = Append(proved, Last(proved))
  <2>1. /\ named \in Seq(S) /\ Len(named) = Len(proved) + 1
        /\ \A i \in 1..Len(proved) : named[i] = proved[i]
        /\ named[Len(proved) + 1] = proved[Len(proved)]
    BY <1>1, <1>5 DEF Last
  <2> QED
    BY <2>1, <1>1 DEF Clip
<1> QED
  BY <1>2, <1>3, <1>4, <1>5

\* An aggregate, when one is made, is made of the inputs of all sectors proved.
LEMMA AggregateIs ==
  ASSUME NEW cfg \in PorepConfigs, NEW of \in {"seal", "update"}, NEW proved \in Lists(of), proved # <<>>, NEW t, NEW v,
         Aggregate([i \in DOMAIN proved |-> OutputOf(cfg, of, proved[i])], t, v, cfg.partitions) # NoProof
  PROVE  /\ \A i \in DOMAIN proved : InputsOf(cfg, of, proved[i]) # <<>>
         /\ Aggregate([i \in DOMAIN proved |-> OutputOf(cfg, of, proved[i])], t, v, cfg.partitions) = Made(FlatInputs(cfg, of, proved), t, v)
<1> DEFINE outputs == [i \in DOMAIN proved |-> OutputOf(cfg, of, proved[i])]
           flat == FlattenSeq([i \in DOMAIN outputs |-> outputs[i].proofs])
<1>1. DOMAIN outputs = DOMAIN proved /\ \A i \in DOMAIN proved : outputs[i] = OutputOf(cfg, of, proved[i])
  OBVIOUS
<1> HIDE DEF outputs
<1>2. \A i \in DOMAIN outputs : ReadMany(outputs[i], cfg.partitions)
  BY DEF Aggregate, outputs
<1>3. Aggregate(outputs, t, v, cfg.partitions) = Made(flat, t, v)
  BY DEF Aggregate, Made, outputs
<1>4. ASSUME NEW i \in DOMAIN proved PROVE outputs[i].proofs = InputsOf(cfg, of, proved[i]) /\ InputsOf(cfg, of, proved[i]) # <<>>
  <2>1. outputs[i].kind = "multi" /\ Len(outputs[i].proofs) = cfg.partitions
    BY <1>1, <1>2 DEF ReadMany
  <2>2. outputs[i].proofs = InputsOf(cfg, of, proved[i])
    <3>1. CASE of = "seal"
      <4>1. outputs[i] = SealCircuitProofs(cfg, proved[i])
        BY <3>1, <1>1 DEF OutputOf
      <4> QED
        BY <4>1, <3>1, <2>1 DEF SealCircuitProofs, NoProof, InputsOf
    <3>2. CASE of # "seal"
      BY <3>2, <1>1 DEF OutputOf, UpdateProof, InputsOf
    <3> QED
      BY <3>1, <3>2
  <2>3. cfg.partitions \in Nat \ {0}
    BY ConfigType
  <2> QED
    BY <2>1, <2>2, <2>3
<1>5. [i \in DOMAIN outputs |-> outputs[i].proofs] = [i \in DOMAIN proved |-> InputsOf(cfg, of, proved[i])]
  BY <1>1, <1>4
<1>6. flat = FlatInputs(cfg, of, proved)
  BY <1>5 DEF FlatInputs
<1> HIDE DEF flat
<1> QED
  BY <1>3, <1>4, <1>6 DEF outputs

----------------------------------------------------------------------------
(* What is accepted of a commit                                             *)

\* No proof is accepted by none of the verifiers.
LEMMA NoProofRejected ==
  ASSUME NEW cfg \in PorepConfigs, NEW u
  PROVE  ~VerifySeal(cfg, u, NoProof) /\ ~VerifyMulti(cfg, u, NoProof)
BY ConfigType DEF VerifySeal, VerifyMulti, ReadMany, NoProof

\* verify_seal accepts exactly the sectors the proof says the same of.
LEMMA CommittedAccepted ==
  ASSUME NEW cfg \in PorepConfigs, NEW s \in SealInfos, NEW u \in SealInfos
  PROVE  VerifySeal(cfg, u, SealCommitPhase2(cfg, s)) <=> CanCommit(cfg, s) /\ Said(cfg, u) = Said(cfg, s)
<1>1. CASE CanCommit(cfg, s)
  <2>1. s.commR # Zero /\ s.commD # Zero
    BY <1>1 DEF CanCommit
  <2>2. SealCommitPhase2(cfg, s) = CommitProof(cfg, s)
    BY <1>1, CommitIs
  <2>3. VerifySeal(cfg, u, CommitProof(cfg, s)) <=> Said(cfg, u) = Said(cfg, s)
    BY <2>1, CommitAccepted
  <2> QED
    BY <1>1, <2>2, <2>3
<1>2. CASE ~CanCommit(cfg, s)
  <2>1. SealCommitPhase2(cfg, s) = NoProof
    BY <1>2, CommitIs
  <2> QED
    BY <1>2, <2>1, NoProofRejected
<1> QED
  BY <1>1, <1>2

\* A batch takes the proof of an interactive seal, for its sector.
LEMMA CommittedBatches ==
  ASSUME NEW cfg \in PorepConfigs, NEW s \in SealInfos, NEW u \in SealInfos, NEW w \in SealInfos
  PROVE  VerifyBatchSeal(cfg, <<u, w>>, <<SealCommitPhase2(cfg, s), SealCircuitProofs(cfg, u)>>)
           <=> CanCommit(cfg, s) /\ ~cfg.ni /\ u = s /\ w = s
<1> DEFINE proof == SealCommitPhase2(cfg, s)
           other == SealCircuitProofs(cfg, u)
<1>0. cfg.ni \in BOOLEAN
  BY ConfigType
<1>1. VerifyBatchSeal(cfg, <<u, w>>, <<proof, other>>) <=> VerifyMulti(cfg, u, proof) /\ VerifyMulti(cfg, w, other)
  <2> HIDE DEF proof, other
  <2>1. <<u, w>> # <<>> /\ Len(<<u, w>>) = 2 /\ Len(<<proof, other>>) = 2 /\ DOMAIN <<u, w>> = {1, 2}
    OBVIOUS
  <2>2. <<u, w>>[1] = u /\ <<u, w>>[2] = w /\ <<proof, other>>[1] = proof /\ <<proof, other>>[2] = other
    OBVIOUS
  <2> QED
    BY <2>1, <2>2 DEF VerifyBatchSeal
<1>2. CASE ~CanCommit(cfg, s)
  <2>1. proof = NoProof
    BY <1>2, CommitIs
  <2> QED
    BY <1>1, <1>2, <2>1, NoProofRejected
<1>3. CASE CanCommit(cfg, s) /\ cfg.ni
  <2>1. proof = CommitProof(cfg, s) /\ s.commR # Zero /\ s.commD # Zero
    BY <1>3, CommitIs DEF CanCommit
  <2>2. GetSealInputs(cfg, s) \in Seq(SealInputSet) /\ GetSealInputs(cfg, s) # <<>>
    BY <2>1, SealInputsType
  <2>3. Made(GetSealInputs(cfg, s), <<s.commR>>, "V2").kind = "aggregate"
    BY <2>2, MadeIs
  <2>4. proof.kind = "aggregate"
    BY <1>3, <2>1, <2>3 DEF CommitProof
  <2>5. ~VerifyMulti(cfg, u, proof)
    BY <2>4 DEF VerifyMulti, ReadMany
  <2> QED
    BY <1>1, <1>3, <2>5
<1>4. CASE CanCommit(cfg, s) /\ ~cfg.ni
  <2>1. proof = CommitProof(cfg, s) /\ s.commR # Zero /\ s.commD # Zero /\ s.seed # Zero
    BY <1>4, CommitIs DEF CanCommit
  <2>2. \A x \in SealInfos : VerifyMulti(cfg, x, CommitProof(cfg, s)) <=> x = s
    <3> TAKE x \in SealInfos
    <3>1. VerifySeal(cfg, x, CommitProof(cfg, s)) <=> Said(cfg, x) = Said(cfg, s)
      BY <2>1, CommitAccepted
    <3>2. VerifySeal(cfg, x, CommitProof(cfg, s)) <=> VerifyMulti(cfg, x, CommitProof(cfg, s))
      BY <1>4 DEF VerifySeal
    <3>3. Said(cfg, x) = Said(cfg, s) <=> x = s
      BY <1>4 DEF Said
    <3> QED
      BY <3>1, <3>2, <3>3
  <2>3. GetSealInputs(cfg, s) # <<>>
    BY <2>1, SealInputsType
  <2>4. SealCircuitProofs(cfg, s) = CommitProof(cfg, s)
    BY <1>4, <2>1, <2>3 DEF SealCircuitProofs, CommitProof
  <2> HIDE DEF proof
  <2>5. VerifyMulti(cfg, u, proof) <=> u = s
    BY <2>1, <2>2
  <2>6. u = s => (VerifyMulti(cfg, w, other) <=> w = s)
    BY <2>2, <2>4
  <2> HIDE DEF other
  <2>7. VerifyBatchSeal(cfg, <<u, w>>, <<proof, other>>) <=> u = s /\ w = s
    BY <1>1, <2>5, <2>6
  <2> QED
    BY <1>4, <2>7 DEF proof, other
<1> QED
  BY <1>0, <1>2, <1>3, <1>4

----------------------------------------------------------------------------
(* What is accepted of an aggregate                                         *)

\* The aggregate a caller asks for.
AggregateOf(cfg, of, proved, named, seeded, version) ==
  IF of = "seal"
  THEN AggregateSealCommitProofs(cfg, CommRs(named), Seeds(seeded),
         [i \in DOMAIN proved |-> SealCircuitProofs(cfg, proved[i])], version)
  ELSE AggregateEmptySectorUpdateProofs(cfg, [i \in DOMAIN proved |-> UpdateProof(cfg, proved[i])], named, version)

\* What its transcript covers.
TranscriptOf(cfg, of, named, seeded) ==
  IF of = "seal" THEN HashedSeedsAndCommRs(cfg, CommRs(named), Seeds(seeded)) ELSE named

\* When an aggregate is made it is of what was proved, bound to what was named.
LEMMA AggregateMade ==
  ASSUME NEW cfg \in PorepConfigs, NEW of \in {"seal", "update"}, NEW proved \in Lists(of), NEW named, NEW seeded, NEW version,
         AggregateOf(cfg, of, proved, named, seeded, version) # NoProof
  PROVE  /\ proved # <<>> /\ \A i \in DOMAIN proved : InputsOf(cfg, of, proved[i]) # <<>>
         /\ AggregateOf(cfg, of, proved, named, seeded, version)
              = Made(FlatInputs(cfg, of, proved), TranscriptOf(cfg, of, named, seeded), version)
         /\ of = "update" => cfg.api = "V1_2" /\ version = "V2" /\ named # <<>> /\ SameH(named)
<1> DEFINE outputs == [i \in DOMAIN proved |-> OutputOf(cfg, of, proved[i])]
           t == TranscriptOf(cfg, of, named, seeded)
<1>1. Len(proved) \in Nat /\ DOMAIN proved = 1..Len(proved) /\ proved \in Seq(Infos(of))
  BY ListType
<1>2. AggregateOf(cfg, of, proved, named, seeded, version) = Aggregate(outputs, t, version, cfg.partitions) /\ outputs # <<>>
  <2>1. CASE of = "seal"
    <3>1. outputs = [i \in DOMAIN proved |-> SealCircuitProofs(cfg, proved[i])]
      BY <2>1 DEF OutputOf
    <3> HIDE DEF outputs
    <3> QED
      BY <2>1, <3>1 DEF AggregateOf, AggregateSealCommitProofs, TranscriptOf
  <2>2. CASE of # "seal"
    <3>1. outputs = [i \in DOMAIN proved |-> UpdateProof(cfg, proved[i])]
      BY <2>2 DEF OutputOf
    <3> HIDE DEF outputs
    <3> QED
      BY <2>2, <3>1 DEF AggregateOf, AggregateEmptySectorUpdateProofs, TranscriptOf, GetHashedCommitments
  <2> QED
    BY <2>1, <2>2
<1>3. proved # <<>>
  <2> SUFFICES ASSUME proved = <<>> PROVE FALSE
    OBVIOUS
  <2>1. outputs = <<>>
    OBVIOUS
  <2> QED
    BY <1>2, <2>1
<1>4. of = "update" => cfg.api = "V1_2" /\ version = "V2" /\ named # <<>> /\ SameH(named)
  BY DEF AggregateOf, AggregateEmptySectorUpdateProofs
<1>5. Aggregate(outputs, t, version, cfg.partitions) # NoProof
  BY <1>2
<1> HIDE DEF t
<1>6. /\ \A i \in DOMAIN proved : InputsOf(cfg, of, proved[i]) # <<>>
      /\ Aggregate(outputs, t, version, cfg.partitions) = Made(FlatInputs(cfg, of, proved), t, version)
  BY <1>3, <1>5, AggregateIs
<1> QED
  BY <1>2, <1>3, <1>4, <1>6 DEF t

\* Said of a list, for a list that is a parameter.
SaidList(cfg, of, list) == IF of = "seal" THEN [i \in DOMAIN list |-> Said(cfg, list[i])] ELSE list

\* Functions on the same places with the same values are equal.
LEMMA SameSeq ==
  ASSUME NEW S, NEW s \in Seq(S), NEW t \in Seq(S), Len(s) = Len(t), \A i \in 1..Len(s) : s[i] = t[i]
  PROVE  s = t
BY SeqEqual

\* What is accepted of seals says at each place what was proved there, or last.
LEMMA AcceptedSeals ==
  ASSUME NEW cfg \in PorepConfigs, NEW proved \in Seq(SealInfos), proved # <<>>, NEW list \in Seq(SealInfos),
         \A i \in DOMAIN proved : GetSealInputs(cfg, proved[i]) # <<>>,
         \A i \in DOMAIN list : GetSealInputs(cfg, list[i]) # <<>>,
         list # <<>>, NEW t, NEW v, NEW t2, NEW v2,
         VerifyAggregate(Made(FlatInputs(cfg, "seal", proved), t, v), FlatInputs(cfg, "seal", list), t2, v2)
  PROVE  \A i \in 1..Len(list) : Said(cfg, list[i]) = Said(cfg, proved[Clip(proved, i)])
<1> DEFINE p == cfg.partitions
           m == Len(list)
           q == Len(proved)
           inputs == FlatInputs(cfg, "seal", list)
           proofs == FlatInputs(cfg, "seal", proved)
           n == GetAggregateTargetLen(Len(proofs))
<1>1. m \in Nat \ {0} /\ q \in Nat \ {0} /\ p \in Nat \ {0} /\ DOMAIN list = 1..m /\ DOMAIN proved = 1..q
  BY ConfigType
<1>2. Infos("seal") = SealInfos /\ InputSet("seal") = SealInputSet /\ \A s : InputsOf(cfg, "seal", s) = GetSealInputs(cfg, s)
  BY DEF Infos, InputSet, InputsOf
<1>3. /\ inputs \in Seq(SealInputSet) /\ inputs # <<>> /\ Len(inputs) = m * p
      /\ \A i \in 1..m : \A k \in 1..p : (i - 1) * p + k \in 1..(m * p) /\ inputs[(i - 1) * p + k] = GetSealInputs(cfg, list[i])[k]
  BY <1>2, FlatType
<1>4. /\ proofs \in Seq(SealInputSet) /\ proofs # <<>> /\ Len(proofs) = q * p
      /\ \A i \in 1..q : \A k \in 1..p : (i - 1) * p + k \in 1..(q * p) /\ proofs[(i - 1) * p + k] = GetSealInputs(cfg, proved[i])[k]
  BY <1>2, FlatType
<1>5. /\ Len(inputs) <= n
      /\ \A i \in 1..n : inputs[Clip(inputs, i)] = proofs[Clip(proofs, i)]
  BY <1>3, <1>4, AcceptedInputs
<1>6. n \in Nat
  <2>1. Len(proofs) \in Nat \ {0}
    BY <1>4
  <2> QED
    BY <2>1, TargetLen
<1> HIDE DEF p, m, q, inputs, proofs, n
<1>7. \A i \in 1..m : \A k \in 1..p : GetSealInputs(cfg, list[i])[k] = SealInputs(cfg, list[i], k)
  <2> TAKE i \in 1..m
  <2>1. list[i] \in SealInfos /\ GetSealInputs(cfg, list[i]) # <<>>
    BY <1>1, ElementOfSeq DEF m
  <2> QED
    BY <2>1, SealInputsType DEF p
<1>8. \A i \in 1..q : \A k \in 1..p : GetSealInputs(cfg, proved[i])[k] = SealInputs(cfg, proved[i], k)
  <2> TAKE i \in 1..q
  <2>1. proved[i] \in SealInfos /\ GetSealInputs(cfg, proved[i]) # <<>>
    BY <1>1, ElementOfSeq DEF q
  <2> QED
    BY <2>1, SealInputsType DEF p
<1>9. ASSUME NEW i \in 1..m PROVE Said(cfg, list[i]) = Said(cfg, proved[Clip(proved, i)])
  <2> DEFINE a == (i - 1) * p + 1
  <2>1. 1 \in 1..p /\ i \in Nat \ {0}
    BY <1>1
  <2>2. a \in 1..(m * p) /\ inputs[a] = SealInputs(cfg, list[i], 1)
    BY <2>1, <1>3, <1>7
  <2>3. a \in 1..Len(inputs) /\ a \in Nat /\ Len(inputs) \in Nat
    BY <1>3, <2>2
  <2> HIDE DEF a
  <2>4. Clip(inputs, a) = a /\ a \in 1..n
    BY <2>3, <1>5, <1>6 DEF Clip
  <2>5. inputs[a] = proofs[Clip(proofs, a)]
    BY <2>4, <1>5
  <2>6. list[i] \in SealInfos
    BY ElementOfSeq DEF m
  <2>7. CASE i <= q
    <3>1. i \in 1..q /\ Clip(proved, i) = i
      BY <2>1, <2>7, <1>1 DEF Clip, q
    <3>2. a \in 1..Len(proofs) /\ proofs[a] = SealInputs(cfg, proved[i], 1)
      BY <2>1, <3>1, <1>4, <1>8 DEF a
    <3>3. Clip(proofs, a) = a
      BY <3>2 DEF Clip
    <3>4. SealInputs(cfg, list[i], 1) = SealInputs(cfg, proved[i], 1) /\ proved[i] \in SealInfos
      BY <2>2, <2>5, <3>1, <3>2, <3>3, ElementOfSeq DEF q
    <3> QED
      BY <2>6, <3>1, <3>4, InputsSay
  <2>8. CASE ~(i <= q)
    <3>1. Clip(proved, i) = q
      BY <2>8 DEF Clip, q
    <3>2. (q - 1) * p + p = Len(proofs) /\ (q - 1) * p + p <= (i - 1) * p
      BY <2>1, <2>8, <1>1, <1>4, Multiples
    <3>3. q \in 1..q /\ p \in 1..p /\ Len(proofs) \in Nat
      BY <1>1, <1>4
    <3>4. proofs[Len(proofs)] = SealInputs(cfg, proved[q], p)
      BY <3>2, <3>3, <1>4, <1>8
    <3>5. Clip(proofs, a) = Len(proofs)
      <4> DEFINE z == (i - 1) * p
      <4>1. z \in Int /\ Len(proofs) <= z /\ a = z + 1
        BY <1>1, <2>1, <3>2 DEF a
      <4> HIDE DEF z
      <4> QED
        BY <3>3, <4>1 DEF Clip
    <3>6. SealInputs(cfg, list[i], 1) = SealInputs(cfg, proved[q], p) /\ proved[q] \in SealInfos
      BY <2>2, <2>5, <3>3, <3>4, <3>5, ElementOfSeq DEF q
    <3> QED
      BY <2>6, <3>1, <3>6, InputsSay
  <2> QED
    BY <2>7, <2>8
<1> QED
  BY <1>9 DEF m

\* As far as the commitments and the seeds that are named both go.
Bound(cfg, named, seeded) == IF cfg.ni THEN named ELSE SubSeq(named, 1, Min({Len(named), Len(seeded)}))

\* The first sectors of a list.
LEMMA PrefixIs ==
  ASSUME NEW S, NEW s \in Seq(S), NEW n \in Nat, n <= Len(s)
  PROVE  /\ SubSeq(s, 1, n) \in Seq(S) /\ Len(SubSeq(s, 1, n)) = n
         /\ \A i \in 1..n : SubSeq(s, 1, n)[i] = s[i]
<1> DEFINE f == SubSeq(s, 1, n)
<1>1. 1 \in Int /\ n \in Int /\ \A i \in 1..n : s[i] \in S
  OBVIOUS
<1>2. /\ f \in Seq(S) /\ Len(f) = (IF 1 <= n THEN n - 1 + 1 ELSE 0)
      /\ \A i \in 1..(n - 1 + 1) : f[i] = s[1 + i - 1]
  BY <1>1, SubSeqProperties
<1> HIDE DEF f
<1>3. n - 1 + 1 = n /\ \A i \in 1..n : 1 + i - 1 = i
  OBVIOUS
<1>4. Len(f) = n
  BY <1>2
<1>5. \A i \in 1..n : f[i] = s[i]
  BY <1>2, <1>3
<1> QED
  BY <1>2, <1>4, <1>5 DEF f

\* A list with the transcript of the names is as long as they are.
LEMMA TranscriptLength ==
  ASSUME NEW cfg \in PorepConfigs, NEW S, NEW named \in Seq(S), NEW seeded \in Seq(S), NEW list \in Seq(S),
         HashedSeedsAndCommRs(cfg, CommRs(named), Seeds(seeded)) = HashedSeedsAndCommRs(cfg, CommRs(list), Seeds(list))
  PROVE  /\ Bound(cfg, named, seeded) \in Seq(S) /\ Len(Bound(cfg, named, seeded)) = Len(list)
         /\ \A i \in 1..Len(list) : i \in 1..Len(named) /\ Bound(cfg, named, seeded)[i] = named[i]
<1>1. Len(named) \in Nat /\ Len(seeded) \in Nat /\ Len(list) \in Nat
  OBVIOUS
<1>2. ASSUME NEW s \in Seq(S) PROVE DOMAIN CommRs(s) = 1..Len(s) /\ Len(CommRs(s)) = Len(s) /\ Len(Seeds(s)) = Len(s)
  <2>1. CommRs(s) = [i \in 1..Len(s) |-> s[i].commR] /\ Seeds(s) = [i \in 1..Len(s) |-> s[i].seed] /\ Len(s) \in Nat
    BY DEF CommRs, Seeds
  <2> DEFINE V == {s[i].commR : i \in 1..Len(s)}
             W == {s[i].seed : i \in 1..Len(s)}
  <2>2. (\A i \in 1..Len(s) : s[i].commR \in V) /\ (\A i \in 1..Len(s) : s[i].seed \in W)
    OBVIOUS
  <2> HIDE DEF V, W
  <2>3. CommRs(s) \in Seq(V) /\ Seeds(s) \in Seq(W)
    BY <2>1, <2>2, IsASeq
  <2>4. DOMAIN CommRs(s) = 1..Len(s) /\ DOMAIN Seeds(s) = 1..Len(s)
    BY <2>1
  <2> QED
    BY <2>1, <2>3, <2>4, LenProperties
<1>3. CASE cfg.ni
  <2>1. CommRs(named) = CommRs(list)
    BY <1>3 DEF HashedSeedsAndCommRs
  <2>2. Len(named) = Len(list)
    BY <2>1, <1>2
  <2> QED
    BY <1>1, <1>3, <2>2 DEF Bound
<1>4. CASE ~cfg.ni
  <2> DEFINE a == Min({Len(seeded), Len(named)})
             b == Min({Len(list), Len(list)})
             n == Min({Len(named), Len(seeded)})
  <2>1. b = Len(list)
    BY <1>1, MinOfOne
  <2>2. a \in {Len(seeded), Len(named)} /\ a <= Len(seeded) /\ a <= Len(named)
    <3>1. Len(named) \in Int /\ Len(seeded) \in Int
      BY <1>1
    <3> QED
      BY <3>1, MinOfTwo, Zenon
  <2>3. a = n
    <3>1. {Len(seeded), Len(named)} = {Len(named), Len(seeded)}
      OBVIOUS
    <3> QED
      BY <3>1
  <2> HIDE DEF n
  <2>4. DOMAIN HashedSeedsAndCommRs(cfg, CommRs(named), Seeds(seeded)) = 1..a
    BY <1>2, <1>4 DEF HashedSeedsAndCommRs
  <2>5. DOMAIN HashedSeedsAndCommRs(cfg, CommRs(list), Seeds(list)) = 1..b
    BY <1>2, <1>4 DEF HashedSeedsAndCommRs
  <2> HIDE DEF a, b
  <2>6. a \in Nat /\ a <= Len(named)
    BY <1>1, <2>2
  <2>7. 1..a = 1..Len(list)
    BY <2>1, <2>4, <2>5
  <2>8. a = Len(list)
    <3>1. \A x, y \in Nat : 1..x = 1..y => x = y
      <4> TAKE x, y \in Nat
      <4> HAVE 1..x = 1..y
      <4>1. x \in 1..x <=> x \in 1..y
        OBVIOUS
      <4>2. y \in 1..x <=> y \in 1..y
        OBVIOUS
      <4> QED
        BY <4>1, <4>2
    <3> QED
      BY <3>1, <2>6, <2>7, <1>1
  <2>9. Bound(cfg, named, seeded) = SubSeq(named, 1, a)
    BY <1>4, <2>3 DEF Bound, n
  <2>10. /\ SubSeq(named, 1, a) \in Seq(S) /\ Len(SubSeq(named, 1, a)) = a
         /\ \A i \in 1..a : SubSeq(named, 1, a)[i] = named[i]
    BY <2>6, PrefixIs
  <2> QED
    BY <1>1, <2>6, <2>8, <2>9, <2>10
<1>5. cfg.ni \in BOOLEAN
  BY ConfigType
<1> QED
  BY <1>3, <1>4, <1>5

\* A list that is accepted is the one that was named, and was proved.
LEMMA AcceptedList ==
  ASSUME NEW cfg \in PorepConfigs, NEW of \in {"seal", "update"}, NEW proved \in Lists(of), NEW named \in Named(proved),
         NEW seeded \in {proved, named}, of = "update" => seeded = named, NEW version, NEW v2, NEW list \in Lists(of),
         AggregateOf(cfg, of, proved, named, seeded, version) # NoProof,
         AcceptsList(cfg, of, AggregateOf(cfg, of, proved, named, seeded, version), list, v2)
  PROVE  /\ v2 = version
         /\ SaidList(cfg, of, list) = SaidList(cfg, of, Bound(cfg, named, seeded))
         /\ \A i \in DOMAIN list : SaidList(cfg, of, list)[i] = SaidList(cfg, of, proved)[Min({i, Len(proved)})]
<1> DEFINE flat == FlatInputs(cfg, of, proved)
           inputs == FlatInputs(cfg, of, list)
           t == TranscriptOf(cfg, of, named, seeded)
           t2 == TranscriptOf(cfg, of, list, list)
           proof == AggregateOf(cfg, of, proved, named, seeded, version)
           bound == Bound(cfg, named, seeded)
<1>1. /\ proved # <<>> /\ \A i \in DOMAIN proved : InputsOf(cfg, of, proved[i]) # <<>>
      /\ proof = Made(flat, t, version)
  BY AggregateMade
<1>2. /\ proved \in Seq(Infos(of)) /\ Len(proved) \in Nat /\ DOMAIN proved = 1..Len(proved)
      /\ list \in Seq(Infos(of)) /\ Len(list) \in Nat /\ DOMAIN list = 1..Len(list)
  BY ListType
<1>3. named \in Seq(Infos(of)) /\ \A i \in 1..Len(named) : named[i] = proved[Clip(proved, i)]
  BY <1>1, <1>2, NamedIs
<1>4. /\ \A i \in DOMAIN list : InputsOf(cfg, of, list[i]) # <<>>
      /\ VerifyAggregate(proof, inputs, t2, v2)
  <2>1. CASE of = "seal"
    BY <2>1 DEF AcceptsList, VerifyAggregateSealCommitProofs, TranscriptOf, FlatInputs
  <2>2. CASE of # "seal"
    BY <2>2 DEF AcceptsList, VerifyAggregateSectorUpdateProofs, TranscriptOf, FlatInputs, GetHashedCommitments
  <2> QED
    BY <2>1, <2>2
<1>5. flat \in Seq(InputSet(of)) /\ flat # <<>>
  BY <1>1, <1>2, FlatType
<1> HIDE DEF flat, inputs, t, t2, proof
<1>6. proof.transcript = t /\ proof.version = version
  BY <1>1, <1>5, MadeIs
<1>7. t = t2 /\ version = v2 /\ inputs # <<>>
  BY <1>4, <1>6 DEF VerifyAggregate, VerifyAggregateProofs
<1>8. list # <<>>
  <2> SUFFICES ASSUME list = <<>> PROVE FALSE
    OBVIOUS
  <2>1. [i \in DOMAIN list |-> InputsOf(cfg, of, list[i])] = <<>>
    OBVIOUS
  <2>2. inputs = <<>>
    BY <2>1 DEF inputs, FlatInputs, FlattenSeq
  <2> QED
    BY <2>2, <1>7
<1>9. seeded \in Seq(Infos(of))
  BY <1>2, <1>3
<1>10. \A i \in 1..Len(list) : Clip(proved, i) = Min({i, Len(proved)}) /\ Clip(proved, i) \in 1..Len(proved)
  <2> TAKE i \in 1..Len(list)
  <2>1. i \in Nat \ {0}
    BY <1>2
  <2> QED
    BY <2>1, <1>1, <1>2, Clipped
<1>11. CASE of = "seal"
  <2>1. Infos(of) = SealInfos
    BY <1>11 DEF Infos
  <2>2. /\ bound \in Seq(Infos(of)) /\ Len(bound) = Len(list)
        /\ \A i \in 1..Len(list) : i \in 1..Len(named) /\ bound[i] = named[i]
    <3>1. HashedSeedsAndCommRs(cfg, CommRs(named), Seeds(seeded)) = HashedSeedsAndCommRs(cfg, CommRs(list), Seeds(list))
      BY <1>7, <1>11 DEF t, t2, TranscriptOf
    <3> QED
      BY <3>1, <1>2, <1>3, <1>9, TranscriptLength
  <2> HIDE DEF bound
  <2>3. \A i \in 1..Len(list) : Said(cfg, list[i]) = Said(cfg, proved[Clip(proved, i)])
    <3>1. VerifyAggregate(Made(FlatInputs(cfg, "seal", proved), t, version), FlatInputs(cfg, "seal", list), t2, v2)
      BY <1>1, <1>4, <1>11 DEF flat, inputs
    <3>2. /\ \A i \in DOMAIN proved : GetSealInputs(cfg, proved[i]) # <<>>
          /\ \A i \in DOMAIN list : GetSealInputs(cfg, list[i]) # <<>>
      BY <1>1, <1>4, <1>11 DEF InputsOf
    <3> QED
      BY <3>1, <3>2, <1>1, <1>2, <1>8, <2>1, AcceptedSeals
  <2>4. /\ SaidList(cfg, of, list) = [i \in 1..Len(list) |-> Said(cfg, list[i])]
        /\ SaidList(cfg, of, proved) = [i \in 1..Len(proved) |-> Said(cfg, proved[i])]
        /\ SaidList(cfg, of, bound) = [i \in 1..Len(list) |-> Said(cfg, bound[i])]
    BY <1>2, <1>11, <2>2 DEF SaidList
  <2>5. \A i \in 1..Len(list) : bound[i] = proved[Clip(proved, i)]
    BY <1>3, <2>2
  <2>6. SaidList(cfg, of, list) = SaidList(cfg, of, bound)
    BY <2>3, <2>4, <2>5
  <2>7. \A i \in 1..Len(list) : SaidList(cfg, of, list)[i] = SaidList(cfg, of, proved)[Min({i, Len(proved)})]
    BY <2>3, <2>4, <1>10
  <2> QED
    BY <1>2, <1>7, <2>6, <2>7 DEF bound
<1>12. CASE of # "seal"
  <2>1. named = list /\ seeded = named
    BY <1>7, <1>12 DEF t, t2, TranscriptOf
  <2>2. bound = list
    <3>1. Min({Len(list), Len(list)}) = Len(list)
      BY <1>2, MinOfOne
    <3>2. SubSeq(list, 1, Len(list)) = list
      <4>1. /\ SubSeq(list, 1, Len(list)) \in Seq(Infos(of)) /\ Len(SubSeq(list, 1, Len(list))) = Len(list)
            /\ \A i \in 1..Len(list) : SubSeq(list, 1, Len(list))[i] = list[i]
        BY <1>2, PrefixIs
      <4> QED
        BY <4>1, <1>2, SameSeq
    <3> QED
      BY <2>1, <3>1, <3>2 DEF Bound
  <2>3. \A i \in 1..Len(list) : list[i] = proved[Min({i, Len(proved)})]
    BY <1>3, <1>10, <2>1
  <2> QED
    BY <1>2, <1>7, <1>12, <2>2, <2>3 DEF SaidList
<1> QED
  BY <1>11, <1>12

\* The list that was proved and named is accepted.
LEMMA OwnList ==
  ASSUME NEW cfg \in PorepConfigs, NEW of \in {"seal", "update"}, NEW proved \in Lists(of), NEW version,
         AggregateOf(cfg, of, proved, proved, proved, version) # NoProof
  PROVE  AcceptsList(cfg, of, AggregateOf(cfg, of, proved, proved, proved, version), proved, version)
<1> DEFINE flat == FlatInputs(cfg, of, proved)
           t == TranscriptOf(cfg, of, proved, proved)
           proof == AggregateOf(cfg, of, proved, proved, proved, version)
<1>1. /\ proved # <<>> /\ \A i \in DOMAIN proved : InputsOf(cfg, of, proved[i]) # <<>>
      /\ proof = Made(flat, t, version)
      /\ of = "update" => cfg.api = "V1_2" /\ version = "V2" /\ proved # <<>> /\ SameH(proved)
  BY AggregateMade
<1>2. proved \in Seq(Infos(of)) /\ Len(proved) \in Nat /\ DOMAIN proved = 1..Len(proved)
  BY ListType
<1>3. flat \in Seq(InputSet(of)) /\ flat # <<>>
  BY <1>1, <1>2, FlatType
<1>4. FlattenSeq([i \in DOMAIN proved |-> InputsOf(cfg, of, proved[i])]) = flat
  BY DEF FlatInputs
<1> HIDE DEF flat, proof
<1>5. InputsPerProof(proof, flat) = 1 /\ VerifyAggregate(proof, flat, t, version) /\ proof.kind = "aggregate"
  BY <1>1, <1>3, OwnInputs, MadeIs
<1>6. CASE of = "seal"
  <2>1. Len(CommRs(proved)) = Len(Seeds(proved))
    <3>1. CommRs(proved) = [i \in 1..Len(proved) |-> proved[i].commR] /\ Seeds(proved) = [i \in 1..Len(proved) |-> proved[i].seed]
      BY <1>2 DEF CommRs, Seeds
    <3>2. \A i \in 1..Len(proved) : proved[i] \in SealInfos
      BY <1>2, <1>6, ElementOfSeq DEF Infos
    <3>3. \A i \in 1..Len(proved) : proved[i].commR \in Nat /\ proved[i].seed \in Nat
      BY <3>2, InfoType
    <3>4. CommRs(proved) \in Seq(Nat) /\ Seeds(proved) \in Seq(Nat)
      BY <1>2, <3>1, <3>3, IsASeq
    <3>5. DOMAIN CommRs(proved) = 1..Len(proved) /\ DOMAIN Seeds(proved) = 1..Len(proved)
      BY <3>1
    <3> QED
      BY <1>2, <3>4, <3>5, LenProperties
  <2>2. VerifyAggregateSealCommitProofs(cfg, proof, CommRs(proved), Seeds(proved), flat, version)
    BY <1>5, <1>6, <2>1 DEF VerifyAggregateSealCommitProofs, TranscriptOf
  <2>3. AcceptsList(cfg, of, proof, proved, version)
    BY <1>1, <1>4, <1>6, <2>2 DEF AcceptsList
  <2> QED
    BY <2>3 DEF proof
<1>7. CASE of # "seal"
  <2>1. of = "update" /\ t = GetHashedCommitments(proved)
    BY <1>7 DEF TranscriptOf, GetHashedCommitments
  <2>2. VerifyAggregateSectorUpdateProofs(cfg, proof, proved, flat, version)
    BY <1>1, <1>3, <1>5, <2>1 DEF VerifyAggregateSectorUpdateProofs
  <2>3. AcceptsList(cfg, of, proof, proved, version)
    BY <1>1, <1>4, <1>7, <2>2 DEF AcceptsList
  <2> QED
    BY <2>3 DEF proof
<1> QED
  BY <1>6, <1>7

----------------------------------------------------------------------------
(* The theorem about aggregates                                             *)

\* What a call of phase 2 has returned.
CommitReturned(c) ==
  \E cfg \in PorepConfigs, s \in SealInfos :
    c = [fn |-> "commit", cfg |-> cfg, s |-> s, proof |-> SealCommitPhase2(cfg, s)]

\* What a call of the aggregation has returned.
AggregateReturned(c) ==
  \E cfg \in PorepConfigs, of \in {"seal", "update"}, version \in {"V1", "V2"} : \E proved \in Lists(of) :
    \E named \in Named(proved) : \E seeded \in {proved, named} :
      /\ of = "update" => seeded = named
      /\ c = [fn |-> "aggregate", cfg |-> cfg, of |-> of, proved |-> proved, named |-> named, seeded |-> seeded,
              version |-> version, proof |-> AggregateOf(cfg, of, proved, named, seeded, version)]

\* The inductive invariant.
CommittingInv ==
  /\ call.fn = "commit" => CommitReturned(call)
  /\ call.fn = "aggregate" => AggregateReturned(call)
  /\ AggregatesRight

\* The verdicts on a commit are right.
LEMMA VerifySealsRight ==
  ASSUME CommittingInv, VerifySeals
  PROVE  CommittingInv'
<1>1. call.fn = "commit"
  BY DEF VerifySeals
<1>2. PICK cfg \in PorepConfigs, s \in SealInfos :
        call = [fn |-> "commit", cfg |-> cfg, s |-> s, proof |-> SealCommitPhase2(cfg, s)]
  BY <1>1 DEF CommittingInv, CommitReturned
<1> DEFINE proof == SealCommitPhase2(cfg, s)
           made == proof # NoProof
           accepted == {u \in SealInfos : VerifySeal(cfg, u, proof)}
           batches == {pair \in SealInfos \X SealInfos : VerifyBatchSeal(cfg, pair, <<proof, SealCircuitProofs(cfg, pair[1])>>)}
<1>3. call.cfg = cfg /\ call.s = s /\ call.proof = proof
  BY <1>2
<1>4. call' = [fn |-> "committed", cfg |-> cfg, s |-> s, made |-> made, accepted |-> accepted, batches |-> batches]
  BY <1>3 DEF VerifySeals
<1>5. made <=> CanCommit(cfg, s)
  BY CommitIs
<1>6. accepted = {u \in SealInfos : made /\ Said(cfg, u) = Said(cfg, s)}
  <2>1. \A u \in SealInfos : VerifySeal(cfg, u, proof) <=> made /\ Said(cfg, u) = Said(cfg, s)
    BY <1>5, CommittedAccepted
  <2> HIDE DEF proof, made
  <2> QED
    BY <2>1
<1>7. batches = {<<u, u>> : u \in {u \in SealInfos : made /\ ~cfg.ni /\ u = s}}
  <2>1. ASSUME NEW u \in SealInfos, NEW w \in SealInfos
        PROVE  <<u, w>> \in batches <=> made /\ ~cfg.ni /\ u = s /\ w = s
    <3>1. VerifyBatchSeal(cfg, <<u, w>>, <<proof, SealCircuitProofs(cfg, u)>>) <=> CanCommit(cfg, s) /\ ~cfg.ni /\ u = s /\ w = s
      BY CommittedBatches
    <3>2. <<u, w>> \in SealInfos \X SealInfos /\ <<u, w>>[1] = u
      OBVIOUS
    <3> HIDE DEF proof, made
    <3>3. <<u, w>> \in batches <=> VerifyBatchSeal(cfg, <<u, w>>, <<proof, SealCircuitProofs(cfg, u)>>)
      BY <3>2
    <3> QED
      BY <3>1, <3>3, <1>5
  <2>2. \A pair \in batches : \E u, w \in SealInfos : pair = <<u, w>>
    OBVIOUS
  <2> HIDE DEF batches, made
  <2> QED
    BY <2>1, <2>2
<1> HIDE DEF proof, made, accepted, batches
<1>8. /\ call'.fn = "committed" /\ call'.cfg = cfg /\ call'.s = s /\ call'.made = made
      /\ call'.accepted = accepted /\ call'.batches = batches
  BY <1>4
<1>9. EnoughChallenges(cfg, cfg.partitions)
  BY ChallengesEnough
<1>10. made \in BOOLEAN
  BY DEF made
<1>11. CommittedRight(call')
  <2>1. call'.made <=> /\ Zero \notin {call'.s.seed, call'.s.commR, call'.s.commD} /\ FirstSupported(call'.cfg)
                       /\ call'.cfg.ni => GetAggregateTargetLen(call'.cfg.partitions) <= SrsMax
    BY <1>5, <1>8, <1>10 DEF CanCommit
  <2>2. call'.accepted = {u \in SealInfos : call'.made /\ Said(call'.cfg, u) = Said(call'.cfg, call'.s)}
    BY <1>6, <1>8, Zenon
  <2>3. call'.batches = {<<u, u>> : u \in {u \in SealInfos : call'.made /\ ~call'.cfg.ni /\ u = call'.s}}
    BY <1>7, <1>8, Zenon
  <2>4. EnoughChallenges(call'.cfg, call'.cfg.partitions)
    BY <1>8, <1>9
  <2> QED
    BY <2>1, <2>2, <2>3, <2>4, Zenon DEF CommittedRight
<1> QED
  BY <1>8, <1>11 DEF CommittingInv, AggregatesRight

\* The verdicts on an aggregate are right.
LEMMA VerifyAggregatesRight ==
  ASSUME CommittingInv, VerifyAggregates
  PROVE  CommittingInv'
<1>1. call.fn = "aggregate"
  BY DEF VerifyAggregates
<1>2. PICK cfg \in PorepConfigs, of \in {"seal", "update"}, version \in {"V1", "V2"} : \E proved \in Lists(of) :
      \E named \in Named(proved) : \E seeded \in {proved, named} :
        /\ of = "update" => seeded = named
        /\ call = [fn |-> "aggregate", cfg |-> cfg, of |-> of, proved |-> proved, named |-> named, seeded |-> seeded,
                   version |-> version, proof |-> AggregateOf(cfg, of, proved, named, seeded, version)]
  BY <1>1 DEF CommittingInv, AggregateReturned
<1>3. PICK proved \in Lists(of) : \E named \in Named(proved) : \E seeded \in {proved, named} :
        /\ of = "update" => seeded = named
        /\ call = [fn |-> "aggregate", cfg |-> cfg, of |-> of, proved |-> proved, named |-> named, seeded |-> seeded,
                   version |-> version, proof |-> AggregateOf(cfg, of, proved, named, seeded, version)]
  BY <1>2
<1>4. PICK named \in Named(proved) : \E seeded \in {proved, named} :
        /\ of = "update" => seeded = named
        /\ call = [fn |-> "aggregate", cfg |-> cfg, of |-> of, proved |-> proved, named |-> named, seeded |-> seeded,
                   version |-> version, proof |-> AggregateOf(cfg, of, proved, named, seeded, version)]
  BY <1>3
<1>5. PICK seeded \in {proved, named} :
        /\ of = "update" => seeded = named
        /\ call = [fn |-> "aggregate", cfg |-> cfg, of |-> of, proved |-> proved, named |-> named, seeded |-> seeded,
                   version |-> version, proof |-> AggregateOf(cfg, of, proved, named, seeded, version)]
  BY <1>4
<1> DEFINE proof == AggregateOf(cfg, of, proved, named, seeded, version)
           bound == Bound(cfg, named, seeded)
           accepts(v) == {list \in Lists(of) : proof # NoProof /\ AcceptsList(cfg, of, proof, list, v)}
<1>6. /\ call.cfg = cfg /\ call.of = of /\ call.proved = proved /\ call.named = named /\ call.seeded = seeded
      /\ call.version = version /\ call.proof = proof
  BY <1>5
<1>7. PICK v \in {"V1", "V2"} :
        call' = [fn |-> "aggregated", cfg |-> cfg, of |-> of, proved |-> proved, named |-> bound,
                 honest |-> named = proved /\ seeded = proved /\ v = version,
                 made |-> proof # NoProof, sameVersion |-> v = version, accepted |-> accepts(v)]
  <2>1. PICK v \in {"V1", "V2"} :
          call' = [fn |-> "aggregated", cfg |-> call.cfg, of |-> call.of, proved |-> call.proved,
                   named |-> IF call.cfg.ni THEN call.named ELSE SubSeq(call.named, 1, Min({Len(call.named), Len(call.seeded)})),
                   honest |-> call.named = call.proved /\ call.seeded = call.proved /\ v = call.version,
                   made |-> call.proof # NoProof, sameVersion |-> v = call.version,
                   accepted |-> {list \in Lists(call.of) : call.proof # NoProof /\ AcceptsList(call.cfg, call.of, call.proof, list, v)}]
    BY Zenon DEF VerifyAggregates
  <2> HIDE DEF proof
  <2> QED
    BY <1>6, <2>1, Zenon DEF Bound
<1> DEFINE accepted == accepts(v)
<1>8. /\ call'.fn = "aggregated" /\ call'.cfg = cfg /\ call'.of = of /\ call'.proved = proved /\ call'.named = bound
      /\ (call'.honest <=> named = proved /\ seeded = proved /\ v = version)
      /\ (call'.made <=> proof # NoProof) /\ (call'.sameVersion <=> v = version) /\ call'.accepted = accepted
  <2> HIDE DEF proof, bound, accepts
  <2> QED
    BY <1>7
<1>9. ASSUME NEW list \in accepted
      PROVE  /\ v = version
             /\ SaidList(cfg, of, list) = SaidList(cfg, of, bound)
             /\ \A i \in DOMAIN list : SaidList(cfg, of, list)[i] = SaidList(cfg, of, proved)[Min({i, Len(proved)})]
  <2>1. list \in Lists(of) /\ proof # NoProof /\ AcceptsList(cfg, of, proof, list, v)
    OBVIOUS
  <2> QED
    BY <2>1, <1>5, AcceptedList
<1>10. proof # NoProof /\ named = proved /\ seeded = proved /\ v = version => proved \in accepted
  BY OwnList
<1> HIDE DEF proof, bound, accepts, accepted
<1>11. \A list : SaidOf(call', list) = SaidList(cfg, of, list)
  BY <1>8 DEF SaidList, SaidOf
<1>12. AggregatedRight(call')
  <2>1. ASSUME NEW list \in call'.accepted
        PROVE  /\ call'.sameVersion
               /\ SaidOf(call', list) = SaidOf(call', call'.named)
               /\ \A i \in DOMAIN list : SaidOf(call', list)[i] = SaidOf(call', call'.proved)[Min({i, Len(call'.proved)})]
    <3>1. list \in accepted
      BY <1>8
    <3>2. /\ SaidOf(call', list) = SaidList(cfg, of, list) /\ SaidOf(call', call'.named) = SaidList(cfg, of, bound)
          /\ SaidOf(call', call'.proved) = SaidList(cfg, of, proved)
      BY <1>8, <1>11
    <3>3. call'.sameVersion /\ call'.proved = proved
      BY <3>1, <1>8, <1>9
    <3> QED
      BY <3>1, <3>2, <3>3, <1>9, Zenon
  <2>2. call'.made /\ call'.honest => call'.proved \in call'.accepted
    BY <1>8, <1>10
  <2> QED
    BY <2>1, <2>2 DEF AggregatedRight
<1> QED
  BY <1>8, <1>12 DEF CommittingInv, AggregatesRight

\* A proof of replication that seal_commit_phase2 returns is accepted by verify_seal for
\* its own sector only, and in a batch of interactive ones; an aggregate is accepted for
\* the list of sectors its maker named and only when each of them was proved, and the
\* list that was proved and named is accepted.  For any number of sectors and of
\* partitions and for any bounds on what is aggregated.
THEOREM AggregatesAreRight == AggregateSpec => []AggregatesRight
<1>1. call = Idle => CommittingInv
  BY DEF Idle, CommittingInv, AggregatesRight
<1>2. ASSUME CommittingInv, [AggregateNext]_call PROVE CommittingInv'
  <2>1. CASE Commit
    <3>1. PICK cfg \in PorepConfigs, s \in SealInfos :
            call' = [fn |-> "commit", cfg |-> cfg, s |-> s, proof |-> SealCommitPhase2(cfg, s)]
      BY <2>1 DEF Commit
    <3>2. CommitReturned(call')
      BY <3>1, Zenon DEF CommitReturned
    <3>3. call'.fn = "commit"
      BY <3>1
    <3> QED
      BY <3>2, <3>3 DEF CommittingInv, AggregatesRight
  <2>2. CASE VerifySeals
    BY <1>2, <2>2, VerifySealsRight
  <2>3. CASE AggregateSeals
    <3>1. PICK cfg \in PorepConfigs, proved \in Lists("seal"), version \in {"V1", "V2"} :
            \E named \in Named(proved) : \E seeded \in {proved, named} :
              call' = [fn |-> "aggregate", cfg |-> cfg, of |-> "seal", proved |-> proved, named |-> named, seeded |-> seeded,
                       version |-> version, proof |-> AggregateOf(cfg, "seal", proved, named, seeded, version)]
      BY <2>3 DEF AggregateSeals, AggregateOf
    <3>a. PICK named \in Named(proved) : \E seeded \in {proved, named} :
            call' = [fn |-> "aggregate", cfg |-> cfg, of |-> "seal", proved |-> proved, named |-> named, seeded |-> seeded,
                     version |-> version, proof |-> AggregateOf(cfg, "seal", proved, named, seeded, version)]
      BY <3>1
    <3>2. PICK seeded \in {proved, named} :
            call' = [fn |-> "aggregate", cfg |-> cfg, of |-> "seal", proved |-> proved, named |-> named, seeded |-> seeded,
                     version |-> version, proof |-> AggregateOf(cfg, "seal", proved, named, seeded, version)]
      BY <3>a
    <3>3. AggregateReturned(call')
      <4>1. "seal" \in {"seal", "update"} /\ "seal" # "update"
        OBVIOUS
      <4> QED
        BY <3>2, <4>1, Zenon DEF AggregateReturned
    <3>4. call'.fn = "aggregate"
      BY <3>2
    <3> QED
      BY <3>3, <3>4 DEF CommittingInv, AggregatesRight
  <2>4. CASE AggregateUpdates
    <3>1. PICK cfg \in PorepConfigs, proved \in Lists("update"), version \in {"V1", "V2"} :
            \E named \in Named(proved) :
              call' = [fn |-> "aggregate", cfg |-> cfg, of |-> "update", proved |-> proved, named |-> named, seeded |-> named,
                       version |-> version, proof |-> AggregateOf(cfg, "update", proved, named, named, version)]
      BY <2>4 DEF AggregateUpdates, AggregateOf
    <3>2. PICK named \in Named(proved) :
            call' = [fn |-> "aggregate", cfg |-> cfg, of |-> "update", proved |-> proved, named |-> named, seeded |-> named,
                     version |-> version, proof |-> AggregateOf(cfg, "update", proved, named, named, version)]
      BY <3>1
    <3>3. AggregateReturned(call')
      <4>1. "update" \in {"seal", "update"} /\ named \in {proved, named}
        OBVIOUS
      <4> QED
        BY <3>2, <4>1, Zenon DEF AggregateReturned
    <3>4. call'.fn = "aggregate"
      BY <3>2
    <3> QED
      BY <3>3, <3>4 DEF CommittingInv, AggregatesRight
  <2>5. CASE VerifyAggregates
    BY <1>2, <2>5, VerifyAggregatesRight
  <2>6. CASE Return({"committed", "aggregated"})
    BY <2>6 DEF Return, Idle, CommittingInv, AggregatesRight
  <2>7. CASE UNCHANGED call
    BY <1>2, <2>7 DEF CommittingInv, AggregatesRight
  <2> QED
    BY <1>2, <2>1, <2>2, <2>3, <2>4, <2>5, <2>6, <2>7 DEF AggregateNext
<1>3. CommittingInv => AggregatesRight
  BY DEF CommittingInv
<1> QED
  BY <1>1, <1>2, <1>3, PTL DEF AggregateSpec

----------------------------------------------------------------------------
(* Partitions of a list of sectors                                          *)

\* s cut into m pieces of n elements, the last of which may be shorter.
CutInto(S, s, n, chunks, m) ==
  /\ m \in Nat \ {0} /\ chunks \in Seq(Seq(S)) /\ Len(chunks) = m /\ DOMAIN chunks = 1..m
  /\ (m - 1) * n \in Nat /\ (m - 1) * n < Len(s) /\ Len(s) <= m * n /\ m * n = (m - 1) * n + n
  /\ \A k \in 1..m :
       /\ chunks[k] \in Seq(S) /\ chunks[k] # <<>>
       /\ Len(chunks[k]) \in 1..n /\ DOMAIN chunks[k] = 1..Len(chunks[k])
       /\ Len(chunks[k]) = IF k < m THEN n ELSE Len(s) - (m - 1) * n
       /\ \A i \in 1..Len(chunks[k]) : (k - 1) * n + i \in 1..Len(s) /\ chunks[k][i] = s[(k - 1) * n + i]

\* The number of pieces.
LEMMA CeilDivIs ==
  ASSUME NEW a \in Nat \ {0}, NEW b \in Nat \ {0}
  PROVE  /\ CeilDiv(a, b) \in Nat \ {0} /\ (CeilDiv(a, b) - 1) * b \in Nat /\ (CeilDiv(a, b) - 1) * b < a /\ a <= CeilDiv(a, b) * b
         /\ CeilDiv(a, b) * b = (CeilDiv(a, b) - 1) * b + b
         /\ a <= b => CeilDiv(a, b) = 1
<1> DEFINE x == a + b - 1
           q == x \div b
<1>1. x \in Nat /\ x >= b
  OBVIOUS
<1>2. \A y \in Nat : y \div b \in Nat /\ y = b * (y \div b) + (y % b) /\ y % b \in 0..(b - 1)
  OBVIOUS
<1>3. q \in Nat /\ x = b * q + (x % b) /\ x % b \in 0..(b - 1)
  BY <1>1, <1>2
<1>4. CeilDiv(a, b) = q
  BY DEF CeilDiv
<1> HIDE DEF q
<1>5. q # 0
  <2> SUFFICES ASSUME q = 0 PROVE FALSE
    OBVIOUS
  <2>1. b * 0 = 0
    OBVIOUS
  <2> QED
    BY <2>1, <1>1, <1>3
<1>6. q \in Nat \ {0} /\ q * b = b * q /\ q * b = (q - 1) * b + b /\ (q - 1) * b \in Nat
  BY <1>3, <1>5, Multiples
<1> DEFINE z == q * b
           y == (q - 1) * b
<1>7. z \in Nat /\ y \in Nat /\ z = y + b /\ x = z + (x % b)
  BY <1>3, <1>6
<1> HIDE DEF y, z
<1>8. y < a /\ a <= z
  BY <1>1, <1>3, <1>7
<1>9. ASSUME a <= b PROVE q = 1
  <2> SUFFICES ASSUME q >= 2 PROVE FALSE
    BY <1>6
  <2>1. 2 \in Nat \ {0} /\ 2 <= q /\ b \in Nat
    BY <1>6
  <2>2. (2 - 1) * b <= (q - 1) * b
    BY <2>1, <1>6, Multiples
  <2>3. (2 - 1) * b = b
    OBVIOUS
  <2>4. b <= y
    BY <2>2, <2>3 DEF y
  <2> QED
    BY <2>4, <1>7, <1>8, <1>9
<1> QED
  BY <1>4, <1>6, <1>8, <1>9 DEF y, z

\* as_slice().chunks(n).
LEMMA ChunksIs ==
  ASSUME NEW S, NEW s \in Seq(S), s # <<>>, NEW n \in Nat \ {0}
  PROVE  CutInto(S, s, n, SectorChunks(s, n), CeilDiv(Len(s), n))
<1> DEFINE m == CeilDiv(Len(s), n)
           last(k) == Min({k * n, Len(s)})
           piece(k) == SubSeq(s, (k - 1) * n + 1, last(k))
           chunks == SectorChunks(s, n)
<1>1. Len(s) \in Nat \ {0}
  OBVIOUS
<1>2. m \in Nat \ {0} /\ (m - 1) * n \in Nat /\ (m - 1) * n < Len(s) /\ Len(s) <= m * n /\ m * n = (m - 1) * n + n
  BY <1>1, CeilDivIs
<1> HIDE DEF m
<1>3. ASSUME NEW k \in 1..m
      PROVE  LET l == IF k < m THEN n ELSE Len(s) - (m - 1) * n
             IN /\ piece(k) \in Seq(S) /\ Len(piece(k)) = l /\ l \in 1..n
                /\ \A i \in 1..l : (k - 1) * n + i \in 1..Len(s) /\ piece(k)[i] = s[(k - 1) * n + i]
  <2> DEFINE l == IF k < m THEN n ELSE Len(s) - (m - 1) * n
             a == (k - 1) * n
             b == k * n
             c == (m - 1) * n
             d == m * n
  <2>1. a \in Nat /\ b = a + n /\ a <= c /\ (k < m => b <= c) /\ (k = m => a = c /\ b = d)
    BY <1>2, Multiples
  <2>2. c \in Nat /\ c < Len(s) /\ Len(s) <= d /\ d = c + n
    BY <1>2
  <2>3. k < m \/ k = m
    BY <1>2
  <2> HIDE DEF a, b, c, d
  <2>4. last(k) = a + l /\ l \in 1..n /\ a + l <= Len(s)
    <3>1. b \in Int /\ Len(s) \in Int
      BY <1>1, <2>1
    <3>2. Min({b, Len(s)}) \in {b, Len(s)} /\ Min({b, Len(s)}) <= b /\ Min({b, Len(s)}) <= Len(s)
      BY <3>1, MinOfTwo, Zenon
    <3>3. last(k) = Min({b, Len(s)}) /\ l = IF k < m THEN n ELSE Len(s) - c
      BY DEF b, c
    <3> HIDE DEF last, l
    <3> QED
      BY <1>1, <2>1, <2>2, <2>3, <3>2, <3>3
  <2> HIDE DEF l, last
  <2>5. piece(k) = SubSeq(s, a + 1, a + l)
    BY <2>4 DEF a
  <2>6. a + 1 \in Int /\ a + l \in Int /\ \A i \in (a + 1)..(a + l) : s[i] \in S
    BY <2>1, <2>4
  <2> DEFINE f == SubSeq(s, a + 1, a + l)
  <2>7. /\ f \in Seq(S) /\ Len(f) = (IF a + 1 <= a + l THEN (a + l) - (a + 1) + 1 ELSE 0)
        /\ \A i \in 1..((a + l) - (a + 1) + 1) : f[i] = s[(a + 1) + i - 1]
    BY <2>6, SubSeqProperties
  <2> HIDE DEF f
  <2>8. (a + l) - (a + 1) + 1 = l /\ a + 1 <= a + l /\ \A i \in 1..l : (a + 1) + i - 1 = a + i /\ a + i \in 1..Len(s)
    BY <2>1, <2>4, <1>1
  <2>9. Len(f) = l /\ \A i \in 1..l : f[i] = s[a + i]
    BY <2>7, <2>8
  <2> QED
    BY <2>4, <2>5, <2>7, <2>8, <2>9 DEF f, l, a
<1>4. chunks = [k \in 1..m |-> piece(k)]
  BY DEF SectorChunks, m
<1> HIDE DEF piece, chunks
<1>5. chunks \in Seq(Seq(S))
  <2>1. \A k \in 1..m : piece(k) \in Seq(S)
    BY <1>3
  <2> QED
    BY <1>2, <1>4, <2>1, IsASeq
<1>6. Len(chunks) = m /\ DOMAIN chunks = 1..m
  <2>1. DOMAIN chunks = 1..m
    BY <1>4
  <2> QED
    BY <1>2, <1>5, <2>1, LenProperties
<1>7. ASSUME NEW k \in 1..m
      PROVE  /\ chunks[k] \in Seq(S) /\ chunks[k] # <<>>
             /\ Len(chunks[k]) \in 1..n /\ DOMAIN chunks[k] = 1..Len(chunks[k])
             /\ Len(chunks[k]) = IF k < m THEN n ELSE Len(s) - (m - 1) * n
             /\ \A i \in 1..Len(chunks[k]) : (k - 1) * n + i \in 1..Len(s) /\ chunks[k][i] = s[(k - 1) * n + i]
  <2> DEFINE l == IF k < m THEN n ELSE Len(s) - (m - 1) * n
  <2>1. chunks[k] = piece(k)
    BY <1>4
  <2>2. /\ piece(k) \in Seq(S) /\ Len(piece(k)) = l /\ l \in 1..n
        /\ \A i \in 1..l : (k - 1) * n + i \in 1..Len(s) /\ piece(k)[i] = s[(k - 1) * n + i]
    BY <1>3
  <2>3. piece(k) # <<>>
    <3> HIDE DEF l
    <3> QED
      BY <2>2
  <2>4. DOMAIN piece(k) = 1..Len(piece(k))
    BY <2>2, LenProperties
  <2> QED
    BY <2>1, <2>2, <2>3, <2>4
<1>8. CutInto(S, s, n, chunks, m)
  BY <1>2, <1>5, <1>6, <1>7 DEF CutInto
<1> QED
  BY <1>8 DEF chunks, m

----------------------------------------------------------------------------
(* The inputs of a circuit                                                  *)

\* What the sectors of a circuit allocate, sector by sector.
SynthesizeAll(circuit) == [i \in DOMAIN circuit |-> SectorSynthesize(circuit[i])]

\* Every sector of a circuit allocates c inputs.
Regular(S, X, circuit, c) ==
  /\ circuit \in Seq(X) /\ circuit # <<>> /\ c \in Nat \ {0}
  /\ \A i \in 1..Len(circuit) : SectorSynthesize(circuit[i]) \in Seq(S) /\ Len(SectorSynthesize(circuit[i])) = c

\* The inputs of a circuit, joined.
LEMMA SynthesizeJoins ==
  ASSUME NEW S, NEW X, NEW circuit, NEW c, Regular(S, X, circuit, c)
  PROVE  JoinOf(S, FlattenSeq(SynthesizeAll(circuit)), SynthesizeAll(circuit), Len(circuit), c)
<1> DEFINE g == SynthesizeAll(circuit)
           m == Len(circuit)
<1>1. /\ circuit \in Seq(X) /\ c \in Nat \ {0} /\ m \in Nat \ {0} /\ DOMAIN circuit = 1..m
      /\ \A i \in 1..m : SectorSynthesize(circuit[i]) \in Seq(S) /\ Len(SectorSynthesize(circuit[i])) = c
  BY DEF Regular
<1>2. g = [i \in 1..m |-> SectorSynthesize(circuit[i])]
  BY <1>1 DEF SynthesizeAll
<1> HIDE DEF g, m
<1>3. g \in Seq(Seq(S))
  BY <1>1, <1>2, IsASeq
<1>4. Len(g) = m
  BY <1>1, <1>2, <1>3, LenProperties
<1>5. Uniform(S, g, m, c)
  BY <1>1, <1>2, <1>3, <1>4 DEF Uniform
<1> QED
  BY <1>5, FlattenUniform DEF g, m

\* Places in groups of groups.
LEMMA NestedPlaces ==
  ASSUME NEW h \in Nat \ {0}, NEW w \in Nat \ {0}, NEW c \in Nat \ {0}, NEW e \in Nat, NEW j \in Nat
  PROVE  (h - 1) * (w * c) + ((e - 1) * c + j) = ((h - 1) * w + e - 1) * c + j
<1>1. (h - 1) * (w * c) = ((h - 1) * w) * c
  OBVIOUS
<1> DEFINE a == (h - 1) * w
<1>2. a \in Int
  OBVIOUS
<1> HIDE DEF a
<1>3. a * c + ((e - 1) * c + j) = (a + e - 1) * c + j
  BY <1>2
<1> QED
  BY <1>1, <1>3 DEF a

\* Synthesizing groups of sectors apart and joining the groups gives the inputs in the
\* order of the sectors.
LEMMA GroupsJoin ==
  ASSUME NEW S, NEW X, NEW circuit, NEW c, Regular(S, X, circuit, c), NEW w \in Nat \ {0}
  PROVE  LET groups == SectorChunks(circuit, w)
         IN FlattenSeq([h \in DOMAIN groups |-> FlattenSeq([i \in DOMAIN groups[h] |-> SectorSynthesize(groups[h][i])])])
              = FlattenSeq(SynthesizeAll(circuit))
<1> DEFINE groups == SectorChunks(circuit, w)
           m == Len(circuit)
           q == CeilDiv(m, w)
           flat == FlattenSeq(SynthesizeAll(circuit))
           part(h) == FlattenSeq(SynthesizeAll(groups[h]))
           parts == [h \in DOMAIN groups |-> part(h)]
           total == FlattenSeq(parts)
           n == w * c
<1>1. /\ circuit \in Seq(X) /\ circuit # <<>> /\ c \in Nat \ {0} /\ m \in Nat \ {0} /\ n \in Nat
      /\ \A i \in 1..m : SectorSynthesize(circuit[i]) \in Seq(S) /\ Len(SectorSynthesize(circuit[i])) = c
  BY DEF Regular
<1>2. JoinOf(S, flat, SynthesizeAll(circuit), m, c)
  BY SynthesizeJoins
<1>3. CutInto(X, circuit, w, groups, q)
  BY <1>1, ChunksIs
<1>4. /\ q \in Nat \ {0} /\ groups \in Seq(Seq(X)) /\ Len(groups) = q /\ DOMAIN groups = 1..q
      /\ (q - 1) * w \in Nat /\ (q - 1) * w < m
      /\ \A h \in 1..q :
           /\ groups[h] \in Seq(X) /\ groups[h] # <<>>
           /\ Len(groups[h]) \in 1..w /\ DOMAIN groups[h] = 1..Len(groups[h])
           /\ Len(groups[h]) = IF h < q THEN w ELSE m - (q - 1) * w
           /\ \A i \in 1..Len(groups[h]) : (h - 1) * w + i \in 1..m /\ groups[h][i] = circuit[(h - 1) * w + i]
  BY <1>3 DEF CutInto
<1>5. DOMAIN circuit = 1..m
  BY <1>1
<1> HIDE DEF groups, m, q, flat, n
<1>6. ASSUME NEW h \in 1..q PROVE JoinOf(S, part(h), SynthesizeAll(groups[h]), Len(groups[h]), c)
  <2>1. Regular(S, X, groups[h], c)
    BY <1>1, <1>4 DEF Regular
  <2> QED
    BY <2>1, SynthesizeJoins
<1> HIDE DEF part
<1>7. \A h \in 1..q : part(h) \in Seq(S) /\ Len(part(h)) = Len(groups[h]) * c
  BY <1>6 DEF JoinOf
<1>8. parts = [h \in 1..q |-> part(h)]
  BY <1>4
<1> HIDE DEF parts
<1>9. parts \in Seq(Seq(S))
  BY <1>4, <1>7, <1>8, IsASeq
<1>10. Len(parts) = q /\ parts # <<>>
  <2>1. Len(parts) = q
    BY <1>4, <1>8, <1>9, LenProperties
  <2> QED
    BY <2>1, <1>4
<1>11. \A h \in 1..(Len(parts) - 1) : Len(parts[h]) = n
  <2> TAKE h \in 1..(Len(parts) - 1)
  <2>1. h \in 1..q /\ h < q
    BY <1>4, <1>10
  <2>2. Len(groups[h]) = w
    BY <2>1, <1>4
  <2> QED
    BY <2>1, <2>2, <1>7, <1>8 DEF n
<1>12. /\ total \in Seq(S)
       /\ Len(total) = (Len(parts) - 1) * n + Len(parts[Len(parts)])
       /\ \A k \in 1..Len(parts) : \A i \in 1..Len(parts[k]) : total[(k - 1) * n + i] = parts[k][i]
  BY <1>1, <1>9, <1>10, <1>11, FlattenRegular
<1> HIDE DEF total
<1>13. Len(total) = m * c
  <2> DEFINE l == Len(groups[q])
             a == (q - 1) * w
  <2>1. q \in 1..q /\ l = m - a /\ l \in Nat /\ a \in Nat
    BY <1>4
  <2>2. Len(parts[q]) = l * c
    BY <2>1, <1>7, <1>8
  <2>3. Len(total) = (q - 1) * n + l * c
    BY <2>2, <1>10, <1>12
  <2>4. (q - 1) * n = a * c
    BY <1>1, <1>4 DEF n
  <2> HIDE DEF a, l
  <2>5. m = a + l
    BY <1>1, <2>1
  <2>6. (a + l) * c = a * c + l * c
    BY <1>1, <2>1
  <2> QED
    BY <2>3, <2>4, <2>5, <2>6
<1>14. flat \in Seq(S) /\ Len(flat) = m * c
  BY <1>2 DEF JoinOf
<1>15. ASSUME NEW p \in 1..(m * c) PROVE total[p] = flat[p]
  <2>1. p \in Nat \ {0}
    OBVIOUS
  <2>2. PICK i \in Nat \ {0}, j \in 1..c : p = (i - 1) * c + j
    BY <1>1, <2>1, Blocks
  <2>3. i <= m
    <3>1. m * c = (m - 1) * c + c
      BY <1>1, Multiples
    <3>2. (i - 1) * c + j <= (m - 1) * c + c /\ c \in 1..c
      BY <1>1, <2>2, <3>1
    <3> QED
      BY <3>2, <1>1, SameBlock
  <2>4. PICK h \in Nat \ {0}, e \in 1..w : i = (h - 1) * w + e
    BY Blocks
  <2>5. h <= q /\ e <= Len(groups[h])
    <3> DEFINE a == (q - 1) * w
               l == Len(groups[q])
    <3>1. q \in 1..q /\ l = m - a /\ l \in 1..w /\ a \in Nat
      BY <1>4
    <3>2. (h - 1) * w + e <= a + l
      <4> HIDE DEF a, l
      <4> QED
        BY <1>1, <2>3, <2>4, <3>1
    <3>3. h <= q
      BY <3>1, <3>2, <1>4, SameBlock
    <3>4. CASE h < q
      BY <3>3, <3>4, <1>4
    <3>5. CASE h = q
      <4>1. a + e <= a + l
        BY <3>2, <3>5
      <4> HIDE DEF a, l
      <4>2. e <= l
        BY <3>1, <4>1
      <4> QED
        BY <4>2, <3>5 DEF l
    <3> QED
      BY <3>3, <3>4, <3>5, <1>4
  <2>6. h \in 1..q /\ e \in 1..Len(groups[h]) /\ i \in 1..m
    BY <1>1, <1>4, <2>3, <2>5
  <2>7. groups[h][e] = circuit[i]
    BY <1>4, <2>4, <2>6
  <2>8. flat[(i - 1) * c + j] = SectorSynthesize(circuit[i])[j]
    <3>1. SynthesizeAll(circuit)[i] = SectorSynthesize(circuit[i])
      BY <1>5, <2>6 DEF SynthesizeAll
    <3> QED
      BY <3>1, <2>6, <1>2 DEF JoinOf
  <2>9. (e - 1) * c + j \in 1..Len(part(h)) /\ part(h)[(e - 1) * c + j] = SectorSynthesize(circuit[i])[j]
    <3>1. SynthesizeAll(groups[h])[e] = SectorSynthesize(groups[h][e])
      BY <1>4, <2>6 DEF SynthesizeAll
    <3>2. JoinOf(S, part(h), SynthesizeAll(groups[h]), Len(groups[h]), c)
      BY <1>6, <2>6
    <3> QED
      BY <3>1, <3>2, <2>6, <2>7 DEF JoinOf
  <2>10. total[(h - 1) * n + ((e - 1) * c + j)] = part(h)[(e - 1) * c + j]
    <3>1. parts[h] = part(h) /\ h \in 1..Len(parts)
      BY <1>8, <1>10, <2>6
    <3> QED
      BY <3>1, <2>9, <1>12
  <2>11. (h - 1) * n + ((e - 1) * c + j) = ((h - 1) * w + e - 1) * c + j
    BY <1>1, NestedPlaces DEF n
  <2>12. (h - 1) * w + e - 1 = i - 1
    <3>1. (h - 1) * w \in Int
      OBVIOUS
    <3> QED
      BY <3>1, <2>4
  <2> QED
    BY <2>2, <2>8, <2>9, <2>10, <2>11, <2>12
<1>16. total = flat
  BY <1>12, <1>13, <1>14, <1>15, SameSeq
<1> QED
  BY <1>16 DEF total, parts, part, flat, groups, SynthesizeAll

----------------------------------------------------------------------------
(* The inputs the verifier expects of a partition                           *)

Leaf == Int \X Int
Replica == [id : Nat, comm_r : Leaf, bad : SUBSET Leaf]
Counts(pp) == pp.sectors \in Nat \ {0} /\ pp.challenges \in Nat \ {0}

\* The fields of a replica.
LEMMA ReplicaType ==
  ASSUME NEW r \in Replica
  PROVE  r.id \in Nat /\ r.comm_r \in Leaf /\ r.bad \in SUBSET Leaf
BY DEF Replica

\* A sector has as many challenged leaves as the parameters say.
LEMMA LeavesType ==
  ASSUME NEW pp, Counts(pp), NEW id \in Nat, NEW place \in Nat
  PROVE  /\ LeavesOf(pp, id, place) \in Seq(Leaf) /\ Len(LeavesOf(pp, id, place)) = pp.challenges
         /\ DOMAIN LeavesOf(pp, id, place) = 1..pp.challenges
         /\ \A n \in 1..pp.challenges :
              /\ LeavesOf(pp, id, place)[n] = <<id, GetChallengeIndex(pp.api, place, pp.challenges, n - 1)>>
              /\ GetChallengeIndex(pp.api, place, pp.challenges, n - 1) \in Nat
<1> DEFINE c == pp.challenges
           x == place * c
           leaf(n) == <<id, GetChallengeIndex(pp.api, place, c, n - 1)>>
           f == LeavesOf(pp, id, place)
<1>1. c \in Nat \ {0}
  BY DEF Counts
<1>2. x \in Nat
  BY <1>1
<1>3. \A n \in 1..c : GetChallengeIndex(pp.api, place, c, n - 1) = IF pp.api = "V1_2" THEN n - 1 ELSE x + (n - 1)
  BY DEF GetChallengeIndex
<1> HIDE DEF x, c
<1>4. \A n \in 1..c : GetChallengeIndex(pp.api, place, c, n - 1) \in Nat
  BY <1>1, <1>2, <1>3
<1>5. f = [n \in 1..c |-> leaf(n)]
  BY DEF LeavesOf, GenerateLeafChallenge, c
<1>6. \A n \in 1..c : leaf(n) \in Leaf
  BY <1>4 DEF Leaf
<1> HIDE DEF leaf, f
<1>7. f \in Seq(Leaf)
  BY <1>1, <1>5, <1>6, IsASeq
<1>8. Len(f) = c /\ DOMAIN f = 1..c
  BY <1>1, <1>5, <1>7, LenProperties
<1>9. \A n \in 1..c : f[n] = leaf(n)
  BY <1>5
<1> QED
  BY <1>4, <1>7, <1>8, <1>9 DEF f, c, leaf

\* What one sector contributes to the inputs: its commitment, then its leaves.
SectorInputs(pp, r, place) == <<r.comm_r>> \o LeavesOf(pp, r.id, place)

LEMMA SectorInputsType ==
  ASSUME NEW pp, Counts(pp), NEW r \in Replica, NEW place \in Nat
  PROVE  /\ SectorInputs(pp, r, place) \in Seq(Leaf) /\ Len(SectorInputs(pp, r, place)) = pp.challenges + 1
         /\ SectorInputs(pp, r, place)[1] = r.comm_r
         /\ \A n \in 1..pp.challenges : SectorInputs(pp, r, place)[n + 1] = LeavesOf(pp, r.id, place)[n]
<1> DEFINE f == LeavesOf(pp, r.id, place)
           c == pp.challenges
           a == <<r.comm_r>>
<1>1. f \in Seq(Leaf) /\ Len(f) = c /\ c \in Nat
  BY ReplicaType, LeavesType DEF Counts
<1>2. a \in Seq(Leaf) /\ Len(a) = 1 /\ a[1] = r.comm_r
  BY ReplicaType
<1>3. SectorInputs(pp, r, place) = a \o f
  BY DEF SectorInputs
<1> HIDE DEF a, f, c
<1>4. /\ a \o f \in Seq(Leaf) /\ Len(a \o f) = Len(a) + Len(f)
      /\ \A i \in 1..(Len(a) + Len(f)) : (a \o f)[i] = IF i <= Len(a) THEN a[i] ELSE f[i - Len(a)]
  BY <1>1, <1>2, ConcatProperties
<1>5. Len(a \o f) = c + 1 /\ (a \o f)[1] = r.comm_r
  BY <1>1, <1>2, <1>4
<1>6. \A n \in 1..c : (a \o f)[n + 1] = f[n]
  <2> TAKE n \in 1..c
  <2>1. n + 1 \in 1..(Len(a) + Len(f)) /\ ~(n + 1 <= Len(a)) /\ (n + 1) - Len(a) = n
    BY <1>1, <1>2
  <2> QED
    BY <1>4, <2>1
<1> QED
  BY <1>3, <1>4, <1>5, <1>6 DEF f, c

\* The places of a partition: the last sector fills the missing ones.
Pieces(pp, chunk, k) ==
  [i \in 1..pp.sectors |-> SectorInputs(pp, chunk[Clip(chunk, i)], k * pp.sectors + Clip(chunk, i) - 1)]
ChunkInputs(pp, chunk, k) == FlattenSeq(Pieces(pp, chunk, k))
PieceLen(pp) == pp.challenges + 1

\* The inputs of a partition are those of its places, one after another.
LEMMA ChunkInputsJoin ==
  ASSUME NEW pp, Counts(pp), NEW chunk \in Seq(Replica), chunk # <<>>, NEW k \in Nat
  PROVE  /\ JoinOf(Leaf, ChunkInputs(pp, chunk, k), Pieces(pp, chunk, k), pp.sectors, PieceLen(pp))
         /\ \A i \in 1..pp.sectors :
              /\ chunk[Clip(chunk, i)] \in Replica /\ k * pp.sectors + Clip(chunk, i) - 1 \in Nat
              /\ Clip(chunk, i) \in 1..Len(chunk)
              /\ Pieces(pp, chunk, k)[i] = SectorInputs(pp, chunk[Clip(chunk, i)], k * pp.sectors + Clip(chunk, i) - 1)
<1> DEFINE n == pp.sectors
           x == k * n
           piece(i) == SectorInputs(pp, chunk[Clip(chunk, i)], x + Clip(chunk, i) - 1)
           g == Pieces(pp, chunk, k)
<1>1. n \in Nat \ {0} /\ PieceLen(pp) \in Nat \ {0}
  BY DEF Counts, PieceLen
<1>2. x \in Nat
  BY <1>1
<1>3. g = [i \in 1..n |-> piece(i)]
  BY DEF Pieces
<1> HIDE DEF x, n
<1>4. ASSUME NEW i \in 1..n
      PROVE  /\ chunk[Clip(chunk, i)] \in Replica /\ x + Clip(chunk, i) - 1 \in Nat /\ Clip(chunk, i) \in 1..Len(chunk)
             /\ piece(i) \in Seq(Leaf) /\ Len(piece(i)) = PieceLen(pp)
  <2>0. i \in Nat \ {0}
    BY <1>1
  <2>1. Clip(chunk, i) \in 1..Len(chunk) /\ chunk[Clip(chunk, i)] \in Replica
    BY <2>0, Clipped
  <2>2. x + Clip(chunk, i) - 1 \in Nat
    BY <1>2, <2>1
  <2> QED
    BY <2>1, <2>2, SectorInputsType DEF PieceLen
<1> HIDE DEF piece, g
<1>5. g \in Seq(Seq(Leaf))
  BY <1>1, <1>3, <1>4, IsASeq
<1>6. Len(g) = n
  BY <1>1, <1>3, <1>5, LenProperties
<1>7. Uniform(Leaf, g, n, PieceLen(pp))
  BY <1>1, <1>3, <1>4, <1>5, <1>6 DEF Uniform
<1>8. JoinOf(Leaf, FlattenSeq(g), g, n, PieceLen(pp))
  BY <1>7, FlattenUniform
<1> QED
  BY <1>3, <1>4, <1>8 DEF ChunkInputs, g, n, x, piece

\* generate_public_inputs of partition k.
LEMMA PublicInputsAre ==
  ASSUME NEW pp, Counts(pp), NEW s, NEW k \in Nat, SectorChunks(s, pp.sectors)[k + 1] \in Seq(Replica),
         SectorChunks(s, pp.sectors)[k + 1] # <<>>
  PROVE  PostPublicInputs(pp, s, k) = ChunkInputs(pp, SectorChunks(s, pp.sectors)[k + 1], k)
<1> DEFINE chunk == SectorChunks(s, pp.sectors)[k + 1]
           one(j) == <<chunk[j].comm_r>> \o LeavesOf(pp, chunk[j].id, k * pp.sectors + j - 1)
<1>1. PostPublicInputs(pp, s, k) = FlattenSeq([i \in 1..pp.sectors |-> one(Min({i, Len(chunk)}))])
  BY DEF PostPublicInputs
<1>2. chunk \in Seq(Replica) /\ chunk # <<>>
  OBVIOUS
<1> HIDE DEF chunk
<1>3. \A i \in 1..pp.sectors : Min({i, Len(chunk)}) = Clip(chunk, i)
  <2> TAKE i \in 1..pp.sectors
  <2>1. i \in Nat \ {0}
    BY DEF Counts
  <2> QED
    BY <1>2, <2>1, Clipped
<1>4. \A j : one(j) = SectorInputs(pp, chunk[j], k * pp.sectors + j - 1)
  BY DEF SectorInputs
<1> HIDE DEF one
<1>5. [i \in 1..pp.sectors |-> one(Min({i, Len(chunk)}))] = Pieces(pp, chunk, k)
  BY <1>3, <1>4, Zenon DEF Pieces
<1> QED
  BY <1>1, <1>5 DEF ChunkInputs, chunk

----------------------------------------------------------------------------
(* The proofs of a partition                                                *)

SectorProofs == [comm : Leaf, leaves : Seq(Leaf)]
SectorProofAt(pp, chunk, k, i) == SectorProofOf(chunk[i], LeavesOf(pp, chunk[i].id, k * pp.sectors + i - 1))

\* The sector proofs of partition k, padded to its places.
RightPart(pp, chunk, k) == Padded([i \in 1..Len(chunk) |-> SectorProofAt(pp, chunk, k, i)], pp.sectors)

\* A partition: at least one sector, at most as many as fit.
Partition(pp, chunk) == Counts(pp) /\ chunk \in Seq(Replica) /\ chunk # <<>> /\ Len(chunk) <= pp.sectors

\* Every place has the proof of the sector that fills it.
FilledFrom(pp, chunk, k, proof) == \A i \in 1..pp.sectors : proof[i] = SectorProofAt(pp, chunk, k, Clip(chunk, i))

\* Padding gives every place the proof of the sector that fills it.
LEMMA RightPartIs ==
  ASSUME NEW pp, NEW chunk, Partition(pp, chunk), NEW k \in Nat
  PROVE  /\ RightPart(pp, chunk, k) = PadProofs([i \in 1..Len(chunk) |-> SectorProofAt(pp, chunk, k, i)], pp.sectors)
         /\ RightPart(pp, chunk, k) \in Seq(SectorProofs) /\ Len(RightPart(pp, chunk, k)) = pp.sectors
         /\ DOMAIN RightPart(pp, chunk, k) = 1..pp.sectors
         /\ FilledFrom(pp, chunk, k, RightPart(pp, chunk, k))
<1> DEFINE n == pp.sectors
           x == k * n
           l == Len(chunk)
           at(i) == SectorProofAt(pp, chunk, k, i)
           f == [i \in 1..l |-> at(i)]
<1>1. n \in Nat \ {0} /\ chunk \in Seq(Replica) /\ l \in Nat \ {0} /\ l <= n
  BY DEF Partition, Counts
<1>2. x \in Nat
  BY <1>1
<1> HIDE DEF x
<1>3. \A i \in 1..l : at(i) \in SectorProofs
  <2> TAKE i \in 1..l
  <2>1. chunk[i] \in Replica
    BY <1>1, ElementOfSeq
  <2>2. x + i - 1 \in Nat /\ i \in Nat
    BY <1>1, <1>2
  <2>3. LeavesOf(pp, chunk[i].id, x + i - 1) \in Seq(Leaf)
    BY <2>1, <2>2, ReplicaType, LeavesType DEF Partition
  <2> QED
    BY <2>1, <2>3, ReplicaType DEF SectorProofAt, SectorProofOf, SectorProofs, x
<1> HIDE DEF at, n, l
<1>4. f \in Seq(SectorProofs)
  BY <1>1, <1>3, IsASeq
<1>5. Len(f) = l /\ f # <<>>
  <2>1. Len(f) = l
    BY <1>1, <1>4, LenProperties
  <2> QED
    BY <1>1, <2>1
<1>6. \A i \in 1..l : f[i] = at(i)
  OBVIOUS
<1> HIDE DEF f
<1>7. /\ f \o [i \in 1..(n - Len(f)) |-> f[Len(f)]] = Padded(f, n)
      /\ Padded(f, n) \in Seq(SectorProofs) /\ Len(Padded(f, n)) = n
  <2>1. n \in Nat /\ Len(f) <= n
    BY <1>1, <1>5
  <2> QED
    BY <2>1, <1>4, <1>5, PadIs
<1>8. RightPart(pp, chunk, k) = Padded(f, n)
  BY DEF RightPart, f, n, l, at
<1>9. PadProofs(f, n) = Padded(f, n)
  BY <1>7 DEF PadProofs, Last
<1>10. \A i \in 1..n : Padded(f, n)[i] = at(Clip(chunk, i))
  <2> TAKE i \in 1..n
  <2>1. i \in Nat \ {0} /\ chunk # <<>>
    BY <1>1 DEF Partition
  <2>2. Clip(chunk, i) \in 1..l
    BY <1>1, <2>1, Clipped DEF l
  <2>3. Clip(f, i) = Clip(chunk, i)
    BY <1>5 DEF Clip, l
  <2> QED
    BY <1>6, <2>2, <2>3 DEF Padded
<1>11. DOMAIN Padded(f, n) = 1..n
  BY DEF Padded
<1> QED
  BY <1>7, <1>8, <1>9, <1>10, <1>11 DEF f, n, l, at, FilledFrom

\* The right proofs of a partition validate.
LEMMA RightPartVerifies ==
  ASSUME NEW pp, NEW chunk, Partition(pp, chunk), NEW k \in Nat
  PROVE  VerifyPartition(pp, k, chunk, RightPart(pp, chunk, k))
<1> DEFINE n == pp.sectors
           l == Len(chunk)
           x == k * n
           p == RightPart(pp, chunk, k)
<1>1. n \in Nat \ {0} /\ chunk \in Seq(Replica) /\ l \in Nat \ {0} /\ l <= n /\ Counts(pp) /\ x \in Nat /\ chunk # <<>>
  BY DEF Partition, Counts
<1>0. Len(p) = n /\ FilledFrom(pp, chunk, k, p)
  BY RightPartIs
<1>2. Len(p) = n /\ \A i \in 1..n : p[i] = SectorProofAt(pp, chunk, k, Clip(chunk, i))
  BY <1>0 DEF FilledFrom
<1>3. Min({l, n}) \in {l, n} /\ Min({l, n}) <= l
  <2>1. l \in Int /\ n \in Int
    BY <1>1
  <2> QED
    BY <2>1, MinOfTwo, Zenon
<1> HIDE DEF p, n, l, x
<1>4. ASSUME NEW i \in 1..Min({l, n})
      PROVE  /\ p[i].comm = chunk[i].comm_r /\ Len(p[i].leaves) = pp.challenges
             /\ p[i].leaves = LeavesOf(pp, chunk[i].id, x + i - 1)
  <2>1. i \in 1..l /\ i \in 1..n /\ i \in Nat \ {0}
    BY <1>1, <1>3
  <2>2. Clip(chunk, i) = i /\ chunk[i] \in Replica
    <3>1. i <= Len(chunk)
      BY <2>1 DEF l
    <3>2. Clip(chunk, i) = i
      BY <3>1 DEF Clip
    <3> QED
      BY <1>1, <2>1, <3>2, ElementOfSeq DEF l
  <2>3. p[i] = SectorProofOf(chunk[i], LeavesOf(pp, chunk[i].id, x + i - 1))
    BY <1>2, <2>1, <2>2 DEF SectorProofAt, x, n
  <2>4. x + i - 1 \in Nat
    BY <1>1, <2>1
  <2>5. Len(LeavesOf(pp, chunk[i].id, x + i - 1)) = pp.challenges
    BY <1>1, <2>2, <2>4, ReplicaType, LeavesType
  <2> QED
    BY <2>3, <2>5 DEF SectorProofOf
<1> QED
  BY <1>1, <1>2, <1>4 DEF VerifyPartition, p, n, l, x

\* The circuit of a partition, with the sectors it is built from.
CircuitOf(chunk, proof) == [i \in DOMAIN proof |-> [comm_r |-> chunk[Clip(chunk, i)].comm_r, proof |-> proof[i]]]
RightProofOf(pp, chunk, k) == [sat |-> TRUE, inputs |-> ChunkInputs(pp, chunk, k)]

\* However many processors synthesize it, the circuit of the right proofs is satisfied and
\* its inputs are those the verifier expects.
LEMMA RightCircuit ==
  ASSUME NEW pp, NEW chunk, Partition(pp, chunk), NEW k \in Nat, NEW cpus \in Nat \ {0}
  PROVE  PostSynthesize(CircuitOf(chunk, RightPart(pp, chunk, k)), cpus) = RightProofOf(pp, chunk, k)
<1> DEFINE n == pp.sectors
           p == RightPart(pp, chunk, k)
           one(i) == [comm_r |-> chunk[Clip(chunk, i)].comm_r, proof |-> p[i]]
           circuit == CircuitOf(chunk, p)
           X == [comm_r : Leaf, proof : SectorProofs]
           w == Max({1, Len(circuit) \div cpus})
<1>1. n \in Nat \ {0} /\ chunk \in Seq(Replica) /\ chunk # <<>> /\ Counts(pp)
  BY DEF Partition, Counts
<1>2. /\ p \in Seq(SectorProofs) /\ DOMAIN p = 1..n /\ Len(p) = n
      /\ \A i \in 1..n : p[i] = SectorProofAt(pp, chunk, k, Clip(chunk, i))
  <2>0. Len(p) = n
    BY RightPartIs
  <2>1. \A i \in 1..n : p[i] = SectorProofAt(pp, chunk, k, Clip(chunk, i))
    <3>1. FilledFrom(pp, chunk, k, p)
      BY RightPartIs
    <3> QED
      BY <3>1 DEF FilledFrom
  <2>2. p \in Seq(SectorProofs)
    BY RightPartIs
  <2>3. DOMAIN p = 1..n
    BY RightPartIs
  <2> QED
    BY <2>0, <2>1, <2>2, <2>3
<1>3. circuit = [i \in 1..n |-> one(i)]
  BY <1>2 DEF CircuitOf
<1>4. \A i \in 1..n :
        /\ chunk[Clip(chunk, i)] \in Replica /\ k * n + Clip(chunk, i) - 1 \in Nat
        /\ Pieces(pp, chunk, k)[i] = SectorInputs(pp, chunk[Clip(chunk, i)], k * n + Clip(chunk, i) - 1)
  BY <1>1, ChunkInputsJoin
<1> HIDE DEF p, circuit, n
<1>5. \A i \in 1..n : /\ one(i) \in X /\ one(i).comm_r = one(i).proof.comm
                      /\ SectorSynthesize(one(i)) = Pieces(pp, chunk, k)[i]
  <2> TAKE i \in 1..n
  <2> DEFINE r == chunk[Clip(chunk, i)]
             leaves == LeavesOf(pp, r.id, k * n + Clip(chunk, i) - 1)
  <2>1. p[i] = [comm |-> r.comm_r, leaves |-> leaves]
    BY <1>2 DEF SectorProofAt, SectorProofOf, n
  <2>2. r.comm_r \in Leaf /\ p[i] \in SectorProofs
    <3>1. i \in 1..Len(p)
      BY <1>2
    <3> HIDE DEF r
    <3>2. p[i] \in SectorProofs
      BY <1>2, <3>1, ElementOfSeq
    <3> QED
      BY <3>2, <1>4, ReplicaType DEF r
  <2>3. Pieces(pp, chunk, k)[i] = <<r.comm_r>> \o leaves
    BY <1>4 DEF SectorInputs
  <2> HIDE DEF r, leaves
  <2>4. one(i) = [comm_r |-> r.comm_r, proof |-> p[i]]
    BY DEF r
  <2> HIDE DEF one
  <2> QED
    BY <2>1, <2>2, <2>3, <2>4 DEF SectorSynthesize
<1> HIDE DEF one, X
<1>6. circuit \in Seq(X)
  BY <1>1, <1>3, <1>5, IsASeq
<1>7. Len(circuit) = n /\ DOMAIN circuit = 1..n /\ circuit # <<>>
  <2>1. Len(circuit) = n /\ DOMAIN circuit = 1..n
    BY <1>1, <1>3, <1>6, LenProperties
  <2> QED
    BY <1>1, <2>1
<1>8. Regular(Leaf, X, circuit, PieceLen(pp))
  <2>1. PieceLen(pp) \in Nat \ {0}
    BY <1>1 DEF Counts, PieceLen
  <2>2. \A i \in 1..n : Pieces(pp, chunk, k)[i] \in Seq(Leaf) /\ Len(Pieces(pp, chunk, k)[i]) = PieceLen(pp)
    <3> TAKE i \in 1..n
    <3> DEFINE r == chunk[Clip(chunk, i)]
               place == k * n + Clip(chunk, i) - 1
    <3>1. r \in Replica /\ place \in Nat /\ Pieces(pp, chunk, k)[i] = SectorInputs(pp, r, place)
      BY <1>4
    <3> HIDE DEF r, place
    <3>2. SectorInputs(pp, r, place) \in Seq(Leaf) /\ Len(SectorInputs(pp, r, place)) = pp.challenges + 1
      BY <1>1, <3>1, SectorInputsType
    <3> QED
      BY <3>1, <3>2 DEF PieceLen
  <2> QED
    BY <2>1, <2>2, <1>3, <1>5, <1>6, <1>7 DEF Regular
<1>9. w \in Nat \ {0}
  <2> DEFINE d == Len(circuit) \div cpus
  <2>1. d \in Int
    BY <1>1, <1>7
  <2>2. w = Max({1, d}) /\ 1 \in Int
    OBVIOUS
  <2> HIDE DEF d, w
  <2>3. Max({1, d}) \in {1, d} /\ Max({1, d}) >= 1
    BY <2>1, <2>2, MinOfTwo, Zenon
  <2> QED
    BY <2>1, <2>2, <2>3
<1>10. SynthesizeAll(circuit) = Pieces(pp, chunk, k)
  <2>1. SynthesizeAll(circuit) = [i \in 1..n |-> SectorSynthesize(circuit[i])]
    BY <1>7 DEF SynthesizeAll
  <2>2. Pieces(pp, chunk, k) = [i \in 1..n |-> Pieces(pp, chunk, k)[i]]
    BY DEF Pieces, n
  <2>3. \A i \in 1..n : SectorSynthesize(circuit[i]) = Pieces(pp, chunk, k)[i]
    BY <1>3, <1>5
  <2> QED
    BY <2>1, <2>2, <2>3, Zenon
<1> DEFINE sat == \A i \in DOMAIN circuit : circuit[i].comm_r = circuit[i].proof.comm
           groups == SectorChunks(circuit, w)
           inputs == FlattenSeq([h \in DOMAIN groups |-> FlattenSeq([i \in DOMAIN groups[h] |-> SectorSynthesize(groups[h][i])])])
<1>11. inputs = ChunkInputs(pp, chunk, k)
  <2> HIDE DEF w
  <2>1. inputs = FlattenSeq(SynthesizeAll(circuit))
    BY <1>8, <1>9, GroupsJoin
  <2> QED
    BY <2>1, <1>10 DEF ChunkInputs
<1>12. sat
  BY <1>3, <1>5, <1>7
<1>13. PostSynthesize(circuit, cpus) = [sat |-> sat, inputs |-> inputs]
  BY DEF PostSynthesize
<1> HIDE DEF inputs, groups, w
<1>14. sat = TRUE
  BY <1>12
<1> HIDE DEF sat
<1>15. PostSynthesize(circuit, cpus) = RightProofOf(pp, chunk, k)
  BY <1>11, <1>13, <1>14 DEF RightProofOf
<1> QED
  BY <1>15 DEF circuit, p

----------------------------------------------------------------------------
(* All the partitions of a list of sectors                                  *)

Listed(pp, s) == Counts(pp) /\ s \in Seq(Replica) /\ s # <<>>
PartsOf(pp, s) == CeilDiv(Len(s), pp.sectors)
Chunk(pp, s, k) == SectorChunks(s, pp.sectors)[k]
RightProofs(pp, s) == [k \in 1..PartsOf(pp, s) |-> RightPart(pp, Chunk(pp, s, k), k - 1)]
RightGroth(pp, s) == [k \in 1..PartsOf(pp, s) |-> RightProofOf(pp, Chunk(pp, s, k), k - 1)]

\* Every piece of the list is a partition.
LEMMA ChunkIs ==
  ASSUME NEW pp, NEW s, Listed(pp, s)
  PROVE  /\ CutInto(Replica, s, pp.sectors, SectorChunks(s, pp.sectors), PartsOf(pp, s))
         /\ PartsOf(pp, s) \in Nat \ {0} /\ DOMAIN SectorChunks(s, pp.sectors) = 1..PartsOf(pp, s)
         /\ Len(SectorChunks(s, pp.sectors)) = PartsOf(pp, s)
         /\ \A k \in 1..PartsOf(pp, s) : Partition(pp, Chunk(pp, s, k)) /\ k - 1 \in Nat
<1> DEFINE n == pp.sectors
           m == PartsOf(pp, s)
           chunks == SectorChunks(s, n)
<1>1. n \in Nat \ {0} /\ s \in Seq(Replica) /\ s # <<>> /\ Counts(pp)
  BY DEF Listed, Counts
<1>2. CutInto(Replica, s, n, chunks, m)
  BY <1>1, ChunksIs DEF PartsOf
<1> HIDE DEF m, chunks
<1>3. /\ m \in Nat \ {0} /\ DOMAIN chunks = 1..m /\ Len(chunks) = m
      /\ \A k \in 1..m : chunks[k] \in Seq(Replica) /\ chunks[k] # <<>> /\ Len(chunks[k]) \in 1..n
  BY <1>2 DEF CutInto
<1>4. \A k \in 1..m : Partition(pp, chunks[k]) /\ k - 1 \in Nat
  BY <1>1, <1>3 DEF Partition
<1> QED
  BY <1>2, <1>3, <1>4 DEF Chunk, m, chunks

\* The inputs the verifier expects of each partition.
LEMMA ExpectedInputs ==
  ASSUME NEW pp, NEW s, Listed(pp, s), NEW k \in 1..PartsOf(pp, s)
  PROVE  PostPublicInputs(pp, s, k - 1) = ChunkInputs(pp, Chunk(pp, s, k), k - 1)
<1>1. Partition(pp, Chunk(pp, s, k)) /\ k - 1 \in Nat /\ (k - 1) + 1 = k
  BY ChunkIs
<1>2. SectorChunks(s, pp.sectors)[(k - 1) + 1] = Chunk(pp, s, k)
  BY <1>1 DEF Chunk
<1>3. Counts(pp) /\ SectorChunks(s, pp.sectors)[(k - 1) + 1] \in Seq(Replica) /\ SectorChunks(s, pp.sectors)[(k - 1) + 1] # <<>>
  BY <1>1, <1>2 DEF Partition
<1>4. PostPublicInputs(pp, s, k - 1) = ChunkInputs(pp, SectorChunks(s, pp.sectors)[(k - 1) + 1], k - 1)
  BY <1>1, <1>3, PublicInputsAre
<1> QED
  BY <1>2, <1>4

\* The right proofs of all partitions validate.
LEMMA RightProofsVerify ==
  ASSUME NEW pp, NEW s, Listed(pp, s)
  PROVE  VerifyAllPartitions(pp, s, RightProofs(pp, s))
<1> DEFINE n == pp.sectors
           m == PartsOf(pp, s)
           chunks == SectorChunks(s, n)
           P == RightProofs(pp, s)
<1>1. /\ CutInto(Replica, s, n, chunks, m)
      /\ m \in Nat \ {0} /\ Len(chunks) = m /\ \A k \in 1..m : Partition(pp, Chunk(pp, s, k)) /\ k - 1 \in Nat
  BY ChunkIs
<1>2. P = [k \in 1..m |-> RightPart(pp, Chunk(pp, s, k), k - 1)]
  BY DEF RightProofs
<1>3. \A k \in 1..m : Chunk(pp, s, k) = chunks[k]
  BY DEF Chunk
<1> HIDE DEF m, chunks, P
<1>4. P \in Seq(Seq(SectorProofs))
  <2>1. \A k \in 1..m : RightPart(pp, Chunk(pp, s, k), k - 1) \in Seq(SectorProofs)
    BY <1>1, RightPartIs
  <2> QED
    BY <1>1, <1>2, <2>1, IsASeq
<1>5. Len(P) = m
  BY <1>1, <1>2, <1>4, LenProperties
<1>6. Len(s) <= n * Len(P)
  <2>1. Len(s) <= m * n /\ m \in Nat /\ n \in Nat
    BY <1>1 DEF CutInto, Listed, Counts
  <2>2. m * n = n * m
    BY <2>1
  <2> QED
    BY <1>5, <2>1, <2>2
<1>7. Min({Len(chunks), Len(P)}) = m
  BY <1>1, <1>5, MinOfOne
<1>8. \A k \in 1..m : VerifyPartition(pp, k - 1, chunks[k], P[k])
  BY <1>1, <1>2, <1>3, RightPartVerifies
<1> QED
  BY <1>6, <1>7, <1>8 DEF VerifyAllPartitions, P, chunks, n

\* The circuit of a partition is built from the sectors of its piece of the list.
LEMMA PostCircuitIs ==
  ASSUME NEW pp, NEW s, NEW k, NEW chunk, Partition(pp, chunk), SectorChunks(s, pp.sectors)[k + 1] = chunk,
         NEW proof, DOMAIN proof \subseteq Nat \ {0}
  PROVE  PostCircuit(pp, s, k, proof) = CircuitOf(chunk, proof)
<1>1. PostCircuit(pp, s, k, proof) = [i \in DOMAIN proof |-> [comm_r |-> chunk[Min({i, Len(chunk)})].comm_r, proof |-> proof[i]]]
  BY DEF PostCircuit
<1>2. \A i \in DOMAIN proof : Min({i, Len(chunk)}) = Clip(chunk, i)
  <2> TAKE i \in DOMAIN proof
  <2>1. i \in Nat \ {0} /\ chunk \in Seq(Replica) /\ chunk # <<>>
    BY DEF Partition
  <2> QED
    BY <2>1, Clipped
<1> QED
  BY <1>1, <1>2, Zenon DEF CircuitOf

\* The circuits of the right proofs.
LEMMA RightGrothMade ==
  ASSUME NEW pp, NEW s, Listed(pp, s), NEW cpus \in Nat \ {0}
  PROVE  CircuitProofs(pp, s, RightProofs(pp, s), cpus) = RightGroth(pp, s)
<1> DEFINE m == PartsOf(pp, s)
           P == RightProofs(pp, s)
           made(k) == PostSynthesize(PostCircuit(pp, s, k - 1, P[k]), cpus)
<1>1. m \in Nat \ {0} /\ \A k \in 1..m : Partition(pp, Chunk(pp, s, k)) /\ k - 1 \in Nat
  BY ChunkIs
<1>2. DOMAIN P = 1..m /\ \A k \in 1..m : P[k] = RightPart(pp, Chunk(pp, s, k), k - 1)
  BY DEF RightProofs
<1>3. CircuitProofs(pp, s, P, cpus) = [k \in 1..m |-> made(k)]
  BY <1>2 DEF CircuitProofs
<1> HIDE DEF P, m
<1>4. ASSUME NEW k \in 1..m PROVE made(k) = RightProofOf(pp, Chunk(pp, s, k), k - 1)
  <2> DEFINE chunk == Chunk(pp, s, k)
             proof == RightPart(pp, chunk, k - 1)
  <2>1. Partition(pp, chunk) /\ k - 1 \in Nat /\ (k - 1) + 1 = k /\ pp.sectors \in Nat
    BY <1>1 DEF Partition, Counts
  <2>2. SectorChunks(s, pp.sectors)[(k - 1) + 1] = chunk
    BY <2>1 DEF Chunk
  <2> HIDE DEF chunk
  <2>3. DOMAIN proof = 1..pp.sectors
    BY <2>1, RightPartIs
  <2>4. DOMAIN proof \subseteq Nat \ {0}
    BY <2>1, <2>3
  <2> HIDE DEF proof
  <2>5. PostCircuit(pp, s, k - 1, proof) = CircuitOf(chunk, proof)
    BY <2>1, <2>2, <2>4, PostCircuitIs
  <2>6. PostSynthesize(CircuitOf(chunk, proof), cpus) = RightProofOf(pp, chunk, k - 1)
    BY <2>1, RightCircuit DEF proof
  <2>7. P[k] = proof
    BY <1>2 DEF proof, chunk
  <2> QED
    BY <2>5, <2>6, <2>7 DEF chunk
<1> HIDE DEF made
<1>5. [k \in 1..m |-> made(k)] = [k \in 1..m |-> RightProofOf(pp, Chunk(pp, s, k), k - 1)]
  BY <1>4
<1> QED
  BY <1>3, <1>5 DEF RightGroth, P, m

\* The sectors with a challenged leaf that cannot be proved.
Faulty(pp, s) == {p \in DOMAIN s : ~CanProve(s[p], LeavesOf(pp, s[p].id, p - 1))}

Ascending(ids) == SetToSortSeq(ids, <)

\* A proof from the replicas: right, or none when a sector is faulty.
LEMMA DirectProof ==
  ASSUME NEW pp, NEW s, Listed(pp, s), NEW partitions, Len(s) <= partitions * pp.sectors, NEW cpus \in Nat \ {0}
  PROVE  LET made == CompoundProve(pp, s, partitions, cpus)
         IN /\ made.ok <=> Faulty(pp, s) = {}
            /\ made.faults = Ascending({s[p].id : p \in Faulty(pp, s)})
            /\ made.groth = IF Faulty(pp, s) = {} THEN RightGroth(pp, s) ELSE <<>>
<1> DEFINE n == pp.sectors
           m == PartsOf(pp, s)
           chunks == SectorChunks(s, n)
           leaves(k, i) == LeavesOf(pp, chunks[k][i].id, (k - 1) * n + i - 1)
           proofs == [k \in DOMAIN chunks |-> PadProofs([i \in DOMAIN chunks[k] |-> SectorProofOf(chunks[k][i], leaves(k, i))], n)]
           faulty == {s[p].id : p \in Faulty(pp, s)}
           all == ProveAllPartitions(pp, s, partitions)
           ok == all.ok /\ VerifyAllPartitions(pp, s, all.proofs)
<1>1. /\ m \in Nat \ {0} /\ DOMAIN chunks = 1..m
      /\ \A k \in 1..m : Partition(pp, Chunk(pp, s, k)) /\ k - 1 \in Nat
  BY ChunkIs
<1>2. \A k \in 1..m : PadProofs([i \in DOMAIN chunks[k] |-> SectorProofOf(chunks[k][i], leaves(k, i))], n)
                        = RightPart(pp, Chunk(pp, s, k), k - 1)
  <2> TAKE k \in 1..m
  <2> DEFINE chunk == Chunk(pp, s, k)
  <2>1. Partition(pp, chunk) /\ k - 1 \in Nat
    BY <1>1
  <2>2. chunks[k] = chunk
    BY DEF Chunk
  <2> HIDE DEF chunk, chunks
  <2>3. DOMAIN chunk = 1..Len(chunk)
    BY <2>1 DEF Partition
  <2>4. \A i \in 1..Len(chunk) : SectorProofOf(chunk[i], leaves(k, i)) = SectorProofAt(pp, chunk, k - 1, i)
    BY <2>2 DEF SectorProofAt
  <2>5. [i \in DOMAIN chunks[k] |-> SectorProofOf(chunks[k][i], leaves(k, i))] = [i \in 1..Len(chunk) |-> SectorProofAt(pp, chunk, k - 1, i)]
    BY <2>2, <2>3, <2>4, Zenon
  <2> HIDE DEF leaves
  <2>6. RightPart(pp, chunk, k - 1) = PadProofs([i \in 1..Len(chunk) |-> SectorProofAt(pp, chunk, k - 1, i)], n)
    BY <2>1, RightPartIs
  <2> QED
    BY <2>5, <2>6 DEF chunk
<1>3. proofs = RightProofs(pp, s)
  <2> HIDE DEF chunks, m, leaves
  <2>1. proofs = [k \in 1..m |-> PadProofs([i \in DOMAIN chunks[k] |-> SectorProofOf(chunks[k][i], leaves(k, i))], n)]
    BY <1>1
  <2> HIDE DEF proofs
  <2>2. RightProofs(pp, s) = [k \in 1..m |-> RightPart(pp, Chunk(pp, s, k), k - 1)]
    BY DEF RightProofs, m
  <2> QED
    BY <1>2, <2>1, <2>2, Zenon
<1>4. faulty = {s[q].id : q \in {p \in DOMAIN s : ~CanProve(s[p], LeavesOf(pp, s[p].id, p - 1))}}
  BY DEF Faulty
<1>5. all = [ok |-> Len(s) <= partitions * n /\ faulty = {}, faults |-> Ascending(faulty), proofs |-> proofs]
  <2> HIDE DEF proofs, faulty
  <2> QED
    BY <1>4, Zenon DEF ProveAllPartitions, proofs, all, Ascending
<1> HIDE DEF proofs, all
<1>6. faulty = {} <=> Faulty(pp, s) = {}
  OBVIOUS
<1> HIDE DEF faulty
<1>7. (all.ok <=> Faulty(pp, s) = {}) /\ all.faults = Ascending(faulty) /\ all.proofs = RightProofs(pp, s)
  BY <1>3, <1>5, <1>6
<1>8. ok <=> Faulty(pp, s) = {}
  BY <1>7, RightProofsVerify
<1>9. CompoundProve(pp, s, partitions, cpus)
        = [ok |-> ok, faults |-> all.faults, groth |-> IF ok THEN CircuitProofs(pp, s, all.proofs, cpus) ELSE <<>>]
  BY DEF CompoundProve, all
<1>10. CircuitProofs(pp, s, all.proofs, cpus) = RightGroth(pp, s)
  BY <1>7, RightGrothMade
<1> HIDE DEF ok
<1> QED
  BY <1>7, <1>8, <1>9, <1>10 DEF faulty

----------------------------------------------------------------------------
(* The vanilla proofs made sector by sector                                 *)

HasPlace(s, n, chunks, m, p) ==
  \E k \in 1..m : \E i \in 1..Len(chunks[k]) : p = (k - 1) * n + i /\ s[p] = chunks[k][i] /\ i \in 1..n

\* Every element of a list is in one of its pieces.
LEMMA PlaceIn ==
  ASSUME NEW S, NEW s \in Seq(S), NEW n \in Nat \ {0}, NEW chunks, NEW m, CutInto(S, s, n, chunks, m), NEW p \in 1..Len(s)
  PROVE  HasPlace(s, n, chunks, m, p)
<1> DEFINE a == (m - 1) * n
           l == Len(chunks[m])
<1>1. /\ m \in Nat \ {0} /\ a \in Nat /\ a < Len(s)
      /\ \A k \in 1..m :
           /\ Len(chunks[k]) \in 1..n /\ Len(chunks[k]) = IF k < m THEN n ELSE Len(s) - a
           /\ \A i \in 1..Len(chunks[k]) : chunks[k][i] = s[(k - 1) * n + i]
  BY DEF CutInto
<1>2. m \in 1..m /\ l = Len(s) - a /\ l \in 1..n /\ Len(s) \in Nat
  <2> HIDE DEF a
  <2>1. m \in 1..m /\ ~(m < m) /\ Len(s) \in Nat
    BY <1>1
  <2>2. l \in 1..n /\ l = IF m < m THEN n ELSE Len(s) - a
    BY <1>1, <2>1
  <2> QED
    BY <2>1, <2>2
<1>3. PICK k \in Nat \ {0}, i \in 1..n : p = (k - 1) * n + i
  <2>1. p \in Nat \ {0}
    OBVIOUS
  <2> QED
    BY <2>1, Blocks
<1>4. (k - 1) * n + i <= a + l
  <2> DEFINE x == (k - 1) * n + i
  <2>1. x <= Len(s) /\ x \in Int
    BY <1>3, <1>2
  <2> HIDE DEF x, a, l
  <2>2. x <= a + l
    BY <2>1, <1>1, <1>2
  <2> QED
    BY <2>2 DEF x
<1>5. k <= m
  BY <1>1, <1>2, <1>4, SameBlock
<1>6. i <= Len(chunks[k])
  <2>1. CASE k < m
    BY <1>1, <1>3, <1>5, <2>1
  <2>2. CASE k = m
    <3>1. a + i <= a + l
      BY <1>4, <2>2
    <3> HIDE DEF a, l
    <3>2. i <= l
      BY <1>1, <1>2, <3>1
    <3> QED
      BY <3>2, <2>2 DEF l
  <2> QED
    BY <1>1, <1>5, <2>1, <2>2
<1>7. k \in 1..m /\ i \in 1..Len(chunks[k])
  BY <1>1, <1>5, <1>6
<1>8. s[p] = chunks[k][i]
  BY <1>1, <1>3, <1>7
<1> QED
  BY <1>3, <1>7, <1>8 DEF HasPlace

\* The pieces of a list, joined, are the list.
LEMMA ChunksJoin ==
  ASSUME NEW S, NEW s \in Seq(S), NEW n \in Nat \ {0}, NEW chunks, NEW m, CutInto(S, s, n, chunks, m)
  PROVE  FlattenSeq(chunks) = s
<1> DEFINE flat == FlattenSeq(chunks)
           a == (m - 1) * n
<1>1. /\ m \in Nat \ {0} /\ a \in Nat /\ a < Len(s) /\ chunks \in Seq(Seq(S)) /\ Len(chunks) = m
      /\ \A k \in 1..m : Len(chunks[k]) = IF k < m THEN n ELSE Len(s) - a
  BY DEF CutInto
<1>2. chunks # <<>> /\ \A k \in 1..(Len(chunks) - 1) : Len(chunks[k]) = n
  BY <1>1
<1>3. /\ flat \in Seq(S)
      /\ Len(flat) = (Len(chunks) - 1) * n + Len(chunks[Len(chunks)])
      /\ \A k \in 1..Len(chunks) : \A i \in 1..Len(chunks[k]) : flat[(k - 1) * n + i] = chunks[k][i]
  <2>1. chunks \in Seq(Seq(S)) /\ chunks # <<>> /\ n \in Nat /\ \A k \in 1..(Len(chunks) - 1) : Len(chunks[k]) = n
    BY <1>1, <1>2
  <2> QED
    BY <2>1, FlattenRegular, Zenon
<1> HIDE DEF flat
<1>4. Len(flat) = Len(s)
  <2>0. m \in 1..m /\ ~(m < m)
    BY <1>1
  <2>1. Len(flat) = a + Len(chunks[m]) /\ Len(chunks[m]) = Len(s) - a /\ Len(s) \in Nat
    <3>1. Len(flat) = a + Len(chunks[m])
      BY <1>1, <1>3
    <3> HIDE DEF a
    <3>2. Len(chunks[m]) = IF m < m THEN n ELSE Len(s) - a
      BY <1>1, <2>0
    <3> QED
      BY <2>0, <3>1, <3>2
  <2> HIDE DEF a
  <2> QED
    BY <1>1, <2>1
<1>5. \A p \in 1..Len(s) : flat[p] = s[p]
  <2> TAKE p \in 1..Len(s)
  <2>1. PICK k \in 1..m : \E i \in 1..Len(chunks[k]) : p = (k - 1) * n + i /\ s[p] = chunks[k][i] /\ i \in 1..n
    BY PlaceIn DEF HasPlace
  <2>2. PICK i \in 1..Len(chunks[k]) : p = (k - 1) * n + i /\ s[p] = chunks[k][i]
    BY <2>1
  <2> QED
    BY <1>1, <1>3, <2>2
<1> QED
  BY <1>3, <1>4, <1>5, SameSeq DEF flat

\* The largest of one number.
LEMMA MaxOfOne ==
  ASSUME NEW a \in Nat
  PROVE  Max({a}) = a
<1>1. a \in Int /\ {a} = {a, a}
  OBVIOUS
<1>2. Max({a, a}) \in {a, a}
  BY <1>1, MinOfTwo, Zenon
<1> QED
  BY <1>1, <1>2

Asked == [id : Nat, leaves : Seq(Leaf)]
LastAsked(listed) ==
  [id \in {listed[i].id : i \in DOMAIN listed} |-> listed[Max({i \in DOMAIN listed : listed[i].id = id})].leaves]

\* Sectors that are listed once are asked for the leaves of their places in the list.
LEMMA ChallengesAre ==
  ASSUME NEW cfg, Counts(cfg), NEW ids \in Seq(Nat), ids # <<>>,
         PartitionsOf(cfg, Len(ids)) = CeilDiv(Len(ids), cfg.sectors),
         \A p \in 1..Len(ids), q \in 1..Len(ids) : ids[p] = ids[q] => p = q,
         NEW j \in 1..Len(ids)
  PROVE  GenerateFallbackSectorChallenges(cfg, ids)[ids[j]] = LeavesOf(cfg, ids[j], j - 1)
<1> DEFINE n == cfg.sectors
           m == CeilDiv(Len(ids), n)
           chunks == SectorChunks(ids, n)
           ask(id, place) == [id |-> id, leaves |-> LeavesOf(cfg, id, place)]
           part(k) == [i \in DOMAIN chunks[k] |-> ask(chunks[k][i], (k - 1) * n + i - 1)]
           parts == [k \in 1..m |-> part(k)]
           all == [p \in 1..Len(ids) |-> ask(ids[p], p - 1)]
<1>1. n \in Nat \ {0} /\ Len(ids) \in Nat \ {0}
  BY DEF Counts
<1>2. CutInto(Nat, ids, n, chunks, m)
  BY <1>1, ChunksIs
<1> HIDE DEF chunks, m
<1>3. /\ m \in Nat \ {0} /\ chunks \in Seq(Seq(Nat)) /\ Len(chunks) = m /\ DOMAIN chunks = 1..m
      /\ (m - 1) * n \in Nat /\ (m - 1) * n < Len(ids) /\ Len(ids) <= m * n /\ m * n = (m - 1) * n + n
      /\ \A k \in 1..m :
           /\ chunks[k] \in Seq(Nat) /\ chunks[k] # <<>>
           /\ Len(chunks[k]) \in 1..n /\ DOMAIN chunks[k] = 1..Len(chunks[k])
           /\ Len(chunks[k]) = IF k < m THEN n ELSE Len(ids) - (m - 1) * n
           /\ \A i \in 1..Len(chunks[k]) : (k - 1) * n + i \in 1..Len(ids) /\ chunks[k][i] = ids[(k - 1) * n + i]
  BY <1>2 DEF CutInto
<1>4. \A p \in 1..Len(ids) : ask(ids[p], p - 1) \in Asked /\ ids[p] \in Nat
  <2> TAKE p \in 1..Len(ids)
  <2>1. ids[p] \in Nat /\ p - 1 \in Nat
    BY <1>1, ElementOfSeq
  <2> QED
    BY <2>1, LeavesType DEF Asked
<1>5. all \in Seq(Asked)
  <2> HIDE DEF ask
  <2> QED
    BY <1>1, <1>4, IsASeq
<1>6. Len(all) = Len(ids) /\ DOMAIN all = 1..Len(ids) /\ \A p \in 1..Len(ids) : all[p] = ask(ids[p], p - 1)
  <2> HIDE DEF ask
  <2>1. DOMAIN all = 1..Len(ids) /\ \A p \in 1..Len(ids) : all[p] = ask(ids[p], p - 1)
    OBVIOUS
  <2> HIDE DEF all
  <2> QED
    BY <1>1, <1>5, <2>1, LenProperties
<1> HIDE DEF all
<1>7. \A k \in 1..m : /\ part(k) \in Seq(Asked) /\ Len(part(k)) = Len(chunks[k]) /\ DOMAIN part(k) = 1..Len(chunks[k])
                      /\ \A i \in 1..Len(chunks[k]) : part(k)[i] = all[(k - 1) * n + i]
  <2> TAKE k \in 1..m
  <2> DEFINE l == Len(chunks[k])
  <2>1. l \in Nat /\ part(k) = [i \in 1..l |-> ask(chunks[k][i], (k - 1) * n + i - 1)]
    <3>1. l \in 1..n /\ DOMAIN chunks[k] = 1..l
      BY <1>3
    <3>2. l \in Nat
      BY <1>1, <3>1
    <3> HIDE DEF l, ask
    <3> QED
      BY <3>1, <3>2, Zenon
  <2>2. \A i \in 1..l : /\ (k - 1) * n + i \in 1..Len(ids)
                        /\ ask(chunks[k][i], (k - 1) * n + i - 1) = all[(k - 1) * n + i]
    <3> TAKE i \in 1..l
    <3> DEFINE p == (k - 1) * n + i
    <3>1. p \in 1..Len(ids) /\ chunks[k][i] = ids[p]
      BY <1>3
    <3> HIDE DEF p, ask
    <3>2. ask(ids[p], p - 1) = all[p]
      BY <1>6, <3>1
    <3>3. ask(chunks[k][i], p - 1) = all[p]
      BY <3>1, <3>2
    <3>4. (k - 1) * n + i - 1 = p - 1
      <4>1. (k - 1) * n \in Int /\ i \in Int
        <5>1. k \in Int /\ n \in Int
          BY <1>1
        <5>2. i \in Int
          OBVIOUS
        <5> QED
          BY <5>1, <5>2
      <4> QED
        BY <4>1 DEF p
    <3>5. ask(chunks[k][i], (k - 1) * n + i - 1) = all[p]
      BY <3>3, <3>4
    <3> QED
      BY <3>1, <3>5 DEF p
  <2> HIDE DEF ask, part, l
  <2>3. \A i \in 1..l : all[(k - 1) * n + i] \in Asked
    BY <2>2, <1>5, <1>6, ElementOfSeq
  <2>a. \A i \in 1..l : ask(chunks[k][i], (k - 1) * n + i - 1) \in Asked
    BY <2>2, <2>3
  <2>4. part(k) \in Seq(Asked)
    BY <2>1, <2>a, IsASeq
  <2>5. Len(part(k)) = l /\ DOMAIN part(k) = 1..l
    BY <2>1, <2>4, LenProperties
  <2>6. \A i \in 1..l : part(k)[i] = all[(k - 1) * n + i]
    BY <2>1, <2>2
  <2> QED
    BY <2>4, <2>5, <2>6 DEF l
<1> DEFINE listed == FlattenSeq(parts)
<1>8. listed = all
  <2> HIDE DEF part
  <2>1. parts \in Seq(Seq(Asked))
    <3>1. \A k \in 1..m : parts[k] \in Seq(Asked)
      BY <1>7
    <3>2. DOMAIN parts = 1..m /\ parts = [k \in DOMAIN parts |-> parts[k]]
      OBVIOUS
    <3> DEFINE SA == Seq(Asked)
    <3> HIDE DEF parts, SA
    <3>3. \A k \in 1..m : parts[k] \in SA
      BY <3>1 DEF SA
    <3>4. parts \in [1..m -> SA] /\ m \in Nat
      BY <1>3, <3>2, <3>3
    <3>5. parts \in Seq(SA)
      BY <3>4, SeqDef
    <3> QED
      BY <3>5 DEF SA
  <2>2. Len(parts) = m /\ DOMAIN parts = 1..m /\ \A k \in 1..m : parts[k] = part(k)
    <3>1. DOMAIN parts = 1..m /\ \A k \in 1..m : parts[k] = part(k)
      OBVIOUS
    <3> HIDE DEF parts
    <3> QED
      BY <1>3, <2>1, <3>1, LenProperties
  <2> HIDE DEF parts
  <2>3. \A k \in 1..m :
          /\ parts[k] \in Seq(Asked) /\ parts[k] # <<>>
          /\ Len(parts[k]) \in 1..n /\ DOMAIN parts[k] = 1..Len(parts[k])
          /\ Len(parts[k]) = IF k < m THEN n ELSE Len(all) - (m - 1) * n
          /\ \A i \in 1..Len(parts[k]) : (k - 1) * n + i \in 1..Len(all) /\ parts[k][i] = all[(k - 1) * n + i]
    <3> TAKE k \in 1..m
    <3> DEFINE l == Len(chunks[k])
    <3>1. /\ l \in 1..n /\ l = IF k < m THEN n ELSE Len(ids) - (m - 1) * n
          /\ \A i \in 1..l : (k - 1) * n + i \in 1..Len(ids)
      BY <1>3
    <3>2. /\ part(k) \in Seq(Asked) /\ Len(part(k)) = l /\ DOMAIN part(k) = 1..l
          /\ \A i \in 1..l : part(k)[i] = all[(k - 1) * n + i]
      BY <1>7
    <3> HIDE DEF l
    <3>3. part(k) # <<>>
      BY <3>1, <3>2
    <3> QED
      BY <1>6, <2>2, <3>1, <3>2, <3>3
  <2>4. CutInto(Asked, all, n, parts, m)
    BY <1>3, <1>6, <2>1, <2>2, <2>3 DEF CutInto
  <2> QED
    BY <1>1, <1>5, <2>4, ChunksJoin
<1>9. {i \in DOMAIN all : all[i].id = ids[j]} = {j}
  BY <1>6
<1>10. Max({i \in DOMAIN all : all[i].id = ids[j]}) = j
  <2>1. j \in Nat
    BY <1>1
  <2> QED
    BY <1>9, <2>1, MaxOfOne
<1>11. ids[j] \in {all[i].id : i \in DOMAIN all} /\ all[j].leaves = LeavesOf(cfg, ids[j], j - 1)
  BY <1>6
<1>12. LastAsked(all)[ids[j]] = LeavesOf(cfg, ids[j], j - 1)
  BY <1>10, <1>11, Zenon DEF LastAsked
<1>13. GenerateFallbackSectorChallenges(cfg, ids) = LastAsked(listed)
  BY Zenon DEF GenerateFallbackSectorChallenges, LastAsked, chunks, m
<1> HIDE DEF listed
<1> QED
  BY <1>8, <1>12, <1>13

VanillaSet == [ok : BOOLEAN, id : Nat, comm_r : Leaf, proof : SectorProofs]
VanillaAt(cfg, s, i) == GenerateSingleVanillaProof(s[i], LeavesOf(cfg, s[i].id, i - 1))
RightVanilla(cfg, s) == [i \in 1..Len(s) |-> VanillaAt(cfg, s, i)]

\* No sector is listed twice.
Distinct(s) == \A p \in 1..Len(s), q \in 1..Len(s) : s[p].id = s[q].id => p = q

\* Whoever keeps the sectors makes the proofs of the leaves of their places.
LEMMA VanillaAre ==
  ASSUME NEW cfg, NEW s, Listed(cfg, s), Distinct(s), PartitionsOf(cfg, Len(s)) = PartsOf(cfg, s)
  PROVE  VanillaProofsOf(cfg, s) = RightVanilla(cfg, s)
<1> DEFINE ids == [i \in DOMAIN s |-> s[i].id]
           table == GenerateFallbackSectorChallenges(cfg, ids)
<1>1. s \in Seq(Replica) /\ s # <<>> /\ Counts(cfg) /\ DOMAIN s = 1..Len(s) /\ Len(s) \in Nat \ {0}
  BY DEF Listed
<1>2. ids = [i \in 1..Len(s) |-> s[i].id]
  BY <1>1
<1>3. \A i \in 1..Len(s) : s[i].id \in Nat /\ ids[i] = s[i].id
  <2> TAKE i \in 1..Len(s)
  <2>1. s[i] \in Replica
    BY <1>1, ElementOfSeq
  <2> QED
    BY <1>2, <2>1, ReplicaType
<1> HIDE DEF ids
<1>4. ids \in Seq(Nat)
  BY <1>1, <1>2, <1>3, IsASeq
<1>5. Len(ids) = Len(s) /\ ids # <<>>
  <2>1. Len(ids) = Len(s)
    BY <1>1, <1>2, <1>4, LenProperties
  <2> QED
    BY <1>1, <2>1
<1>6. PartitionsOf(cfg, Len(ids)) = CeilDiv(Len(ids), cfg.sectors)
  BY <1>5 DEF PartsOf
<1>7. \A p \in 1..Len(ids), q \in 1..Len(ids) : ids[p] = ids[q] => p = q
  BY <1>3, <1>5 DEF Distinct
<1>8. \A i \in 1..Len(s) : table[s[i].id] = LeavesOf(cfg, s[i].id, i - 1)
  <2> TAKE i \in 1..Len(s)
  <2>1. i \in 1..Len(ids)
    BY <1>5
  <2>2. table[ids[i]] = LeavesOf(cfg, ids[i], i - 1)
    BY <1>1, <1>4, <1>5, <1>6, <1>7, <2>1, ChallengesAre
  <2> QED
    BY <1>3, <2>2
<1>9. VanillaProofsOf(cfg, s) = [i \in DOMAIN s |-> GenerateSingleVanillaProof(s[i], table[s[i].id])]
  BY DEF VanillaProofsOf, ids
<1> HIDE DEF table
<1>10. \A i \in 1..Len(s) : GenerateSingleVanillaProof(s[i], table[s[i].id]) = VanillaAt(cfg, s, i)
  BY <1>8 DEF VanillaAt
<1> QED
  BY <1>1, <1>9, <1>10, Zenon DEF RightVanilla

\* What these proofs say.
LEMMA VanillaType ==
  ASSUME NEW cfg, NEW s, Listed(cfg, s)
  PROVE  /\ RightVanilla(cfg, s) \in Seq(VanillaSet) /\ Len(RightVanilla(cfg, s)) = Len(s)
         /\ DOMAIN RightVanilla(cfg, s) = 1..Len(s)
         /\ \A i \in 1..Len(s) :
              /\ RightVanilla(cfg, s)[i].id = s[i].id
              /\ RightVanilla(cfg, s)[i].proof = SectorProofOf(s[i], LeavesOf(cfg, s[i].id, i - 1))
              /\ RightVanilla(cfg, s)[i].ok <=> CanProve(s[i], LeavesOf(cfg, s[i].id, i - 1))
<1> DEFINE v == RightVanilla(cfg, s)
<1>1. s \in Seq(Replica) /\ Counts(cfg) /\ Len(s) \in Nat
  BY DEF Listed
<1>2. v = [i \in 1..Len(s) |-> VanillaAt(cfg, s, i)]
  BY DEF RightVanilla
<1>3. \A i \in 1..Len(s) :
        /\ VanillaAt(cfg, s, i) \in VanillaSet
        /\ VanillaAt(cfg, s, i).id = s[i].id
        /\ VanillaAt(cfg, s, i).proof = SectorProofOf(s[i], LeavesOf(cfg, s[i].id, i - 1))
        /\ VanillaAt(cfg, s, i).ok <=> CanProve(s[i], LeavesOf(cfg, s[i].id, i - 1))
  <2> TAKE i \in 1..Len(s)
  <2> DEFINE r == s[i]
             leaves == LeavesOf(cfg, r.id, i - 1)
             ok == CanProve(r, leaves)
  <2>1. r \in Replica /\ i - 1 \in Nat
    BY <1>1, ElementOfSeq
  <2>2. r.id \in Nat /\ r.comm_r \in Leaf
    BY <2>1, ReplicaType
  <2>3. leaves \in Seq(Leaf)
    BY <1>1, <2>1, <2>2, LeavesType
  <2>4. ok \in BOOLEAN
    BY DEF CanProve
  <2>5. VanillaAt(cfg, s, i) = [ok |-> ok, id |-> r.id, comm_r |-> r.comm_r, proof |-> SectorProofOf(r, leaves)]
    BY DEF VanillaAt, GenerateSingleVanillaProof
  <2> HIDE DEF ok, leaves, r
  <2>6. SectorProofOf(r, leaves) \in SectorProofs
    BY <2>2, <2>3 DEF SectorProofOf, SectorProofs
  <2>7. VanillaAt(cfg, s, i) \in VanillaSet
    BY <2>2, <2>4, <2>5, <2>6 DEF VanillaSet
  <2>8. /\ VanillaAt(cfg, s, i).id = r.id /\ VanillaAt(cfg, s, i).proof = SectorProofOf(r, leaves)
        /\ VanillaAt(cfg, s, i).ok <=> ok
    BY <2>5
  <2> QED
    BY <2>7, <2>8 DEF r, leaves, ok
<1> HIDE DEF v
<1>4. v \in Seq(VanillaSet)
  BY <1>1, <1>2, <1>3, IsASeq
<1>5. Len(v) = Len(s) /\ DOMAIN v = 1..Len(s)
  BY <1>1, <1>2, <1>4, LenProperties
<1>6. \A i \in 1..Len(s) : v[i] = VanillaAt(cfg, s, i)
  BY <1>2
<1> QED
  BY <1>3, <1>4, <1>5, <1>6 DEF v

\* The vanilla proofs v have one for every sector of the partition.
Finds(pp, chunk, k, v) ==
  /\ \A p \in 1..Len(v), q \in 1..Len(v) : v[p].id = v[q].id => p = q
  /\ \A i \in 1..Len(chunk) : \E p \in 1..Len(v) : v[p].id = chunk[i].id /\ v[p].proof = SectorProofAt(pp, chunk, k, i)

\* Then the partition is proved with them, in the order of its sectors.
LEMMA SinglePartition ==
  ASSUME NEW cfg, cfg.typ = "window", NEW pp, NEW chunk, Partition(pp, chunk), NEW k \in Nat,
         NEW v \in Seq(VanillaSet), Finds(pp, chunk, k, v)
  PROVE  LET part == SinglePartitionVanillaProofs(cfg, pp, k, chunk, v)
         IN part.ok /\ part.proof = RightPart(pp, chunk, k)
<1> DEFINE chosen(id) == CHOOSE i \in DOMAIN v : v[i].id = id /\ \A j \in 1..(i - 1) : v[j].id # id
           found(id) == v[chosen(id)].proof
           unrolled == [n \in DOMAIN v[1].proof.leaves |-> [v[1].proof EXCEPT !.leaves = <<v[1].proof.leaves[n]>>]]
           list == [i \in DOMAIN chunk |-> found(chunk[i].id)]
           proof == PadProofs(IF cfg.typ = "window" THEN list ELSE unrolled, pp.sectors)
           ok == /\ Len(chunk) <= pp.sectors
                 /\ cfg.typ = "winning" => Len(v) = 1 /\ cfg.sectors = 1 /\ Len(proof) = cfg.challenges
                 /\ VerifyPartition(pp, k, chunk, proof)
<1>1. chunk \in Seq(Replica) /\ DOMAIN chunk = 1..Len(chunk) /\ Len(chunk) <= pp.sectors
  BY DEF Partition
<1>2. DOMAIN v = 1..Len(v) /\ Len(v) \in Nat
  BY LenProperties
<1>3. \A i \in 1..Len(chunk) : found(chunk[i].id) = SectorProofAt(pp, chunk, k, i)
  <2> TAKE i \in 1..Len(chunk)
  <2>1. PICK p \in 1..Len(v) : v[p].id = chunk[i].id /\ v[p].proof = SectorProofAt(pp, chunk, k, i)
    BY DEF Finds
  <2>2. \A j \in 1..(p - 1) : v[j].id # chunk[i].id
    <3> SUFFICES ASSUME NEW j \in 1..(p - 1), v[j].id = chunk[i].id PROVE FALSE
      OBVIOUS
    <3>1. j \in 1..Len(v) /\ j # p
      BY <1>2
    <3> QED
      BY <2>1, <3>1 DEF Finds
  <2> DEFINE c == chosen(chunk[i].id)
  <2>3. c \in DOMAIN v /\ v[c].id = chunk[i].id
    BY <1>2, <2>1, <2>2, Zenon
  <2> HIDE DEF c
  <2>4. c = p
    BY <1>2, <2>1, <2>3 DEF Finds
  <2> QED
    BY <2>1, <2>4 DEF c
<1> HIDE DEF found
<1>4. list = [i \in 1..Len(chunk) |-> SectorProofAt(pp, chunk, k, i)]
  BY <1>1, <1>3, Zenon
<1> HIDE DEF list, unrolled
<1>5. proof = RightPart(pp, chunk, k)
  <2>1. proof = PadProofs(list, pp.sectors)
    OBVIOUS
  <2>2. RightPart(pp, chunk, k) = PadProofs([i \in 1..Len(chunk) |-> SectorProofAt(pp, chunk, k, i)], pp.sectors)
    BY RightPartIs
  <2> QED
    BY <1>4, <2>1, <2>2
<1>6. SinglePartitionVanillaProofs(cfg, pp, k, chunk, v) = [ok |-> ok, proof |-> proof]
  BY Zenon DEF SinglePartitionVanillaProofs, found, list, unrolled
<1> HIDE DEF proof
<1>7. ok
  <2>1. cfg.typ # "winning"
    OBVIOUS
  <2> QED
    BY <1>1, <1>5, <2>1, RightPartVerifies
<1> HIDE DEF ok
<1> QED
  BY <1>5, <1>6, <1>7

----------------------------------------------------------------------------
(* The three routes to a Window proof                                       *)

\* A proof of a list, when no sector is faulty, and none otherwise.
Proved(pp, s, made) ==
  /\ made.ok <=> Faulty(pp, s) = {}
  /\ made.groth = IF Faulty(pp, s) = {} THEN RightGroth(pp, s) ELSE <<>>

\* The parameters of a Window proof are those of the configuration.
LEMMA WindowParams ==
  ASSUME NEW cfg, NEW s, Listed(cfg, s)
  PROVE  LET pp == WindowPostSetupParams(cfg)
         IN /\ pp.sectors = cfg.sectors /\ pp.challenges = cfg.challenges /\ Listed(pp, s)
            /\ \A id, p : LeavesOf(pp, id, p) = LeavesOf(cfg, id, p)
BY DEF WindowPostSetupParams, Listed, Counts, LeavesOf

\* A Window proof has one partition for each piece of the list.
LEMMA WindowPartitions ==
  ASSUME NEW cfg, NEW s, Listed(cfg, s)
  PROVE  /\ GetPartitionsForWindowPost(Len(s), cfg) = PartsOf(cfg, s)
         /\ PartsOf(cfg, s) \in Nat \ {0} /\ Len(s) <= PartsOf(cfg, s) * cfg.sectors
<1> DEFINE m == PartsOf(cfg, s)
<1>1. Len(s) \in Nat \ {0} /\ cfg.sectors \in Nat \ {0}
  BY DEF Listed, Counts
<1>2. m \in Nat \ {0} /\ Len(s) <= m * cfg.sectors
  BY <1>1, CeilDivIs DEF PartsOf
<1>3. GetPartitionsForWindowPost(Len(s), cfg) = Max({1, m})
  BY DEF GetPartitionsForWindowPost, PartsOf
<1> HIDE DEF m
<1>4. m \in Int /\ 1 \in Int
  BY <1>2
<1>5. Max({1, m}) \in {1, m} /\ Max({1, m}) >= 1 /\ Max({1, m}) >= m
  BY <1>4, MinOfTwo, Zenon
<1>6. Max({1, m}) = m
  BY <1>2, <1>5
<1> QED
  BY <1>2, <1>3, <1>6 DEF m

\* From the replicas.
LEMMA WindowDirect ==
  ASSUME NEW cfg, NEW s, Listed(cfg, s), NEW cpus \in Nat \ {0}
  PROVE  LET pp == WindowPostSetupParams(cfg)
         IN /\ Proved(pp, s, GenerateWindowPost(cfg, s, cpus))
            /\ GenerateWindowPost(cfg, s, cpus).faults = Ascending({s[p].id : p \in Faulty(pp, s)})
<1> DEFINE pp == WindowPostSetupParams(cfg)
           m == GetPartitionsForWindowPost(Len(s), cfg)
<1>1. pp.sectors = cfg.sectors /\ Listed(pp, s)
  BY WindowParams
<1>2. Len(s) <= m * cfg.sectors
  BY WindowPartitions
<1> HIDE DEF pp, m
<1>3. Len(s) <= m * pp.sectors
  BY <1>1, <1>2
<1>4. GenerateWindowPost(cfg, s, cpus) = CompoundProve(pp, s, m, cpus)
  BY DEF GenerateWindowPost, pp, m
<1>5. LET made == CompoundProve(pp, s, m, cpus)
      IN /\ made.ok <=> Faulty(pp, s) = {}
         /\ made.faults = Ascending({s[p].id : p \in Faulty(pp, s)})
         /\ made.groth = IF Faulty(pp, s) = {} THEN RightGroth(pp, s) ELSE <<>>
  BY <1>1, <1>3, DirectProof
<1> QED
  BY <1>4, <1>5 DEF pp, Proved

\* When all the sectors' proofs could be made.
LEMMA NoneFaulty ==
  ASSUME NEW cfg, NEW s, Listed(cfg, s)
  PROVE  (\A i \in DOMAIN RightVanilla(cfg, s) : RightVanilla(cfg, s)[i].ok) <=> Faulty(WindowPostSetupParams(cfg), s) = {}
<1> DEFINE pp == WindowPostSetupParams(cfg)
           v == RightVanilla(cfg, s)
           can(i) == CanProve(s[i], LeavesOf(cfg, s[i].id, i - 1))
<1>1. \A id, p : LeavesOf(pp, id, p) = LeavesOf(cfg, id, p)
  BY WindowParams
<1>2. DOMAIN v = 1..Len(s) /\ \A i \in 1..Len(s) : v[i].ok <=> can(i)
  BY VanillaType
<1>3. DOMAIN s = 1..Len(s)
  BY DEF Listed
<1>4. Faulty(pp, s) = {p \in 1..Len(s) : ~can(p)}
  BY <1>1, <1>3 DEF Faulty
<1> HIDE DEF can, v, pp
<1>5. (\A i \in DOMAIN v : v[i].ok) <=> Faulty(pp, s) = {}
  BY <1>2, <1>4
<1> QED
  BY <1>5 DEF v, pp

\* From vanilla proofs made elsewhere.
LEMMA WindowVanilla ==
  ASSUME NEW cfg, cfg.typ = "window", NEW s, Listed(cfg, s), Distinct(s), NEW cpus \in Nat \ {0}
  PROVE  Proved(WindowPostSetupParams(cfg), s, GenerateWindowPostWithVanilla(cfg, s, cpus))
<1> DEFINE pp == WindowPostSetupParams(cfg)
           n == pp.sectors
           m == PartsOf(cfg, s)
           v == RightVanilla(cfg, s)
           chunks == SectorChunks(s, n)
           part(k) == SinglePartitionVanillaProofs(cfg, pp, k - 1, chunks[k], v)
           parts == [k \in DOMAIN chunks |-> part(k)]
           proofs == [k \in DOMAIN parts |-> parts[k].proof]
           all == PartitionVanillaProofs(cfg, pp, s, m, v)
<1>1. /\ n = cfg.sectors /\ Listed(pp, s)
      /\ \A id, p : LeavesOf(pp, id, p) = LeavesOf(cfg, id, p)
  BY WindowParams
<1>2. PartitionsOf(cfg, Len(s)) = m /\ m \in Nat \ {0} /\ Len(s) <= m * cfg.sectors
  BY WindowPartitions DEF PartitionsOf
<1>3. VanillaProofsOf(cfg, s) = v
  BY <1>2, VanillaAre
<1>4. PartsOf(pp, s) = m
  BY <1>1 DEF PartsOf
<1>5. /\ DOMAIN chunks = 1..m /\ CutInto(Replica, s, n, chunks, m)
      /\ \A k \in 1..m : Partition(pp, Chunk(pp, s, k)) /\ k - 1 \in Nat
  BY <1>1, <1>4, ChunkIs
<1>6. \A k \in 1..m : Chunk(pp, s, k) = chunks[k]
  BY DEF Chunk
<1>7. /\ v \in Seq(VanillaSet) /\ Len(v) = Len(s)
      /\ \A i \in 1..Len(s) : /\ v[i].id = s[i].id
                              /\ v[i].proof = SectorProofOf(s[i], LeavesOf(cfg, s[i].id, i - 1))
  BY VanillaType
<1> HIDE DEF pp, n, m, v, chunks
<1>8. ASSUME NEW k \in 1..m PROVE Finds(pp, chunks[k], k - 1, v)
  <2> DEFINE l == Len(chunks[k])
  <2>1. \A i \in 1..l : (k - 1) * n + i \in 1..Len(s) /\ chunks[k][i] = s[(k - 1) * n + i]
    BY <1>5 DEF CutInto
  <2>2. \A i \in 1..l : \E p \in 1..Len(v) : v[p].id = chunks[k][i].id /\ v[p].proof = SectorProofAt(pp, chunks[k], k - 1, i)
    <3> TAKE i \in 1..l
    <3> DEFINE p == (k - 1) * n + i
    <3>1. p \in 1..Len(s) /\ chunks[k][i] = s[p]
      BY <2>1
    <3>2. (k - 1) * n + i - 1 = p - 1
      <4>1. k \in Int /\ n \in Int /\ i \in Int
        BY <1>1 DEF Listed, Counts, n
      <4>2. (k - 1) * n \in Int
        BY <4>1
      <4> QED
        BY <4>1, <4>2
    <3>3. SectorProofAt(pp, chunks[k], k - 1, i) = SectorProofOf(s[p], LeavesOf(pp, s[p].id, p - 1))
      BY <3>1, <3>2 DEF SectorProofAt, n
    <3> HIDE DEF p
    <3>4. v[p].id = chunks[k][i].id /\ v[p].proof = SectorProofAt(pp, chunks[k], k - 1, i) /\ p \in 1..Len(v)
      BY <1>1, <1>7, <3>1, <3>3
    <3> QED
      BY <3>4
  <2>3. \A p \in 1..Len(v), q \in 1..Len(v) : v[p].id = v[q].id => p = q
    BY <1>7 DEF Distinct
  <2> QED
    BY <2>2, <2>3 DEF Finds
<1>9. \A k \in 1..m : part(k).ok /\ part(k).proof = RightPart(pp, Chunk(pp, s, k), k - 1)
  BY <1>5, <1>6, <1>7, <1>8, SinglePartition
<1> HIDE DEF part
<1>10. DOMAIN parts = 1..m /\ \A k \in 1..m : parts[k] = part(k)
  BY <1>5
<1> HIDE DEF parts
<1>11. proofs = RightProofs(pp, s)
  <2>1. \A k \in 1..m : parts[k].proof = RightPart(pp, Chunk(pp, s, k), k - 1)
    BY <1>9, <1>10
  <2> QED
    BY <1>4, <1>10, <2>1, Zenon DEF RightProofs
<1> HIDE DEF proofs
<1> DEFINE b == Len(s) <= m * n /\ (\A k \in DOMAIN parts : parts[k].ok) /\ VerifyAllPartitions(pp, s, proofs)
<1>12. all = [ok |-> b, proofs |-> proofs]
  BY Zenon DEF PartitionVanillaProofs, all, n, chunks, part, parts, proofs
<1>13. b
  <2>1. Len(s) <= m * n
    BY <1>1, <1>2
  <2>2. \A k \in DOMAIN parts : parts[k].ok
    BY <1>9, <1>10
  <2>3. VerifyAllPartitions(pp, s, proofs)
    BY <1>1, <1>11, RightProofsVerify
  <2> QED
    BY <2>1, <2>2, <2>3
<1> DEFINE ok == \A i \in DOMAIN v : v[i].ok
           made == [all EXCEPT !.ok = @ /\ ok]
<1> HIDE DEF b, all
<1>14. ok <=> Faulty(pp, s) = {}
  BY NoneFaulty DEF v, pp
<1>15. GenerateWindowPostWithVanilla(cfg, s, cpus)
         = [ok |-> made.ok, groth |-> IF made.ok THEN CircuitProofs(pp, s, made.proofs, cpus) ELSE <<>>]
  BY <1>2, <1>3 DEF GenerateWindowPostWithVanilla, WithVanilla, CompoundProveWithVanilla, all, pp
<1> HIDE DEF ok
<1>16. (made.ok <=> Faulty(pp, s) = {}) /\ made.proofs = RightProofs(pp, s)
  BY <1>11, <1>12, <1>13, <1>14
<1> HIDE DEF made
<1>17. CircuitProofs(pp, s, made.proofs, cpus) = RightGroth(pp, s)
  BY <1>1, <1>16, RightGrothMade
<1>18. Proved(pp, s, GenerateWindowPostWithVanilla(cfg, s, cpus))
  BY <1>15, <1>16, <1>17 DEF Proved
<1> QED
  BY <1>18 DEF pp

\* A list that fits into one piece is that piece.
LEMMA OnePiece ==
  ASSUME NEW S, NEW s \in Seq(S), s # <<>>, NEW n \in Nat \ {0}, Len(s) <= n
  PROVE  /\ CeilDiv(Len(s), n) = 1 /\ Len(SectorChunks(s, n)) = 1 /\ DOMAIN SectorChunks(s, n) = 1..1
         /\ SectorChunks(s, n)[1] = s
<1> DEFINE chunks == SectorChunks(s, n)
<1>1. Len(s) \in Nat \ {0}
  OBVIOUS
<1>2. CeilDiv(Len(s), n) = 1
  BY <1>1, CeilDivIs
<1>3. CutInto(S, s, n, chunks, 1)
  BY <1>2, ChunksIs
<1> HIDE DEF chunks
<1>4. 1 \in 1..1 /\ ~(1 < 1) /\ (1 - 1) * n = 0
  BY <1>1
<1>5. /\ chunks[1] \in Seq(S) /\ Len(chunks[1]) = Len(s) - (1 - 1) * n /\ Len(chunks) = 1 /\ DOMAIN chunks = 1..1
      /\ \A i \in 1..Len(chunks[1]) : chunks[1][i] = s[(1 - 1) * n + i]
  BY <1>3, <1>4 DEF CutInto
<1>6. Len(chunks[1]) = Len(s) /\ \A i \in 1..Len(s) : chunks[1][i] = s[i]
  BY <1>1, <1>4, <1>5
<1>7. chunks[1] = s
  BY <1>5, <1>6, SameSeq
<1> QED
  BY <1>2, <1>5, <1>7 DEF chunks

\* A list that fits into one partition is that partition.
LEMMA OneChunk ==
  ASSUME NEW pp, NEW chunk, Partition(pp, chunk)
  PROVE  SectorChunks(chunk, pp.sectors)[1] = chunk
<1>1. pp.sectors \in Nat \ {0} /\ chunk \in Seq(Replica) /\ chunk # <<>> /\ Len(chunk) <= pp.sectors
  BY DEF Partition, Counts
<1> QED
  BY <1>1, OnePiece

\* A call that proves one partition and knows no other sectors.
LEMMA SingleMade ==
  ASSUME NEW cfg, cfg.typ = "window", NEW chunk, Partition(WindowPostSetupParams(cfg), chunk), NEW k \in Nat,
         NEW v \in Seq(VanillaSet), Finds(WindowPostSetupParams(cfg), chunk, k, v), NEW cpus \in Nat \ {0}
  PROVE  LET made == GenerateSingleWindowPost(cfg, chunk, v, k, cpus)
         IN /\ made.ok <=> \A i \in DOMAIN v : v[i].ok
            /\ made.ok => made.groth = <<RightProofOf(WindowPostSetupParams(cfg), chunk, k)>>
<1> DEFINE pp == WindowPostSetupParams(cfg)
           part == SinglePartitionVanillaProofs(cfg, pp, k, chunk, v)
           all == \A i \in DOMAIN v : v[i].ok
           ok == part.ok /\ all
           made == [ok |-> ok, proofs |-> <<part.proof>>]
           proof == RightPart(pp, chunk, k)
<1> HIDE DEF pp
<1>1. part.ok /\ part.proof = proof
  BY SinglePartition DEF pp
<1>2. GenerateSingleWindowPost(cfg, chunk, v, k, cpus)
        = [ok |-> made.ok, groth |-> IF made.ok THEN CircuitProofs(pp, chunk, made.proofs, cpus) ELSE <<>>]
  BY DEF GenerateSingleWindowPost, CompoundProveWithVanilla, pp
<1> HIDE DEF part
<1>3. (made.ok <=> all) /\ made.proofs = <<proof>>
  BY <1>1
<1> HIDE DEF made, all
<1>4. PostSynthesize(PostCircuit(pp, chunk, 0, proof), cpus) = RightProofOf(pp, chunk, k)
  <2>1. Partition(pp, chunk) /\ pp.sectors \in Nat
    BY DEF pp, Partition, Counts
  <2>2. SectorChunks(chunk, pp.sectors)[0 + 1] = chunk
    BY <2>1, OneChunk
  <2>3. DOMAIN proof = 1..pp.sectors
    BY <2>1, RightPartIs
  <2>4. DOMAIN proof \subseteq Nat \ {0}
    BY <2>1, <2>3
  <2>5. PostSynthesize(CircuitOf(chunk, proof), cpus) = RightProofOf(pp, chunk, k)
    BY <2>1, RightCircuit
  <2> HIDE DEF proof
  <2>6. PostCircuit(pp, chunk, 0, proof) = CircuitOf(chunk, proof)
    BY <2>1, <2>2, <2>4, PostCircuitIs
  <2> QED
    BY <2>5, <2>6
<1> HIDE DEF proof
<1>5. CircuitProofs(pp, chunk, <<proof>>, cpus) = <<RightProofOf(pp, chunk, k)>>
  <2> DEFINE t == <<proof>>
             c(j) == PostSynthesize(PostCircuit(pp, chunk, j - 1, t[j]), cpus)
  <2>1. DOMAIN t = 1..1 /\ t[1] = proof
    OBVIOUS
  <2> HIDE DEF t
  <2>2. CircuitProofs(pp, chunk, t, cpus) = [j \in 1..1 |-> c(j)]
    BY <2>1 DEF CircuitProofs
  <2>3. \A j \in 1..1 : c(j) = RightProofOf(pp, chunk, k)
    <3> TAKE j \in 1..1
    <3>1. j - 1 = 0 /\ t[j] = proof
      BY <2>1
    <3> QED
      BY <1>4, <3>1
  <2> HIDE DEF c
  <2>4. CircuitProofs(pp, chunk, t, cpus) = [j \in 1..1 |-> RightProofOf(pp, chunk, k)]
    BY <2>2, <2>3
  <2>5. [j \in 1..1 |-> RightProofOf(pp, chunk, k)] = <<RightProofOf(pp, chunk, k)>>
    OBVIOUS
  <2> QED
    BY <2>4, <2>5 DEF t
<1> QED
  BY <1>2, <1>3, <1>5 DEF all, pp

Groths == [sat : BOOLEAN, inputs : Seq(Leaf)]

\* The right proofs are as many as the partitions.
LEMMA RightGrothType ==
  ASSUME NEW pp, NEW s, Listed(pp, s)
  PROVE  /\ RightGroth(pp, s) \in Seq(Groths) /\ Len(RightGroth(pp, s)) = PartsOf(pp, s) /\ RightGroth(pp, s) # <<>>
         /\ DOMAIN RightGroth(pp, s) = 1..PartsOf(pp, s)
         /\ \A k \in 1..PartsOf(pp, s) : RightGroth(pp, s)[k] = RightProofOf(pp, Chunk(pp, s, k), k - 1)
<1> DEFINE m == PartsOf(pp, s)
           g == RightGroth(pp, s)
           one(k) == RightProofOf(pp, Chunk(pp, s, k), k - 1)
<1>1. m \in Nat \ {0} /\ \A k \in 1..m : Partition(pp, Chunk(pp, s, k)) /\ k - 1 \in Nat
  BY ChunkIs
<1>2. g = [k \in 1..m |-> one(k)]
  BY DEF RightGroth
<1> HIDE DEF m, g
<1>3. \A k \in 1..m : one(k) \in Groths
  <2> TAKE k \in 1..m
  <2> DEFINE chunk == Chunk(pp, s, k)
             x == ChunkInputs(pp, chunk, k - 1)
  <2>1. Counts(pp) /\ chunk \in Seq(Replica) /\ chunk # <<>> /\ k - 1 \in Nat
    BY <1>1 DEF Partition
  <2> HIDE DEF chunk
  <2>2. JoinOf(Leaf, x, Pieces(pp, chunk, k - 1), pp.sectors, PieceLen(pp))
    BY <2>1, ChunkInputsJoin
  <2>3. x \in Seq(Leaf)
    BY <2>2 DEF JoinOf
  <2>4. one(k) = [sat |-> TRUE, inputs |-> x]
    BY DEF RightProofOf, chunk
  <2> HIDE DEF x, one
  <2> QED
    BY <2>3, <2>4 DEF Groths
<1> HIDE DEF one
<1>4. g \in Seq(Groths)
  BY <1>1, <1>2, <1>3, IsASeq
<1>5. Len(g) = m /\ DOMAIN g = 1..m
  BY <1>1, <1>2, <1>4, LenProperties
<1>6. g # <<>>
  BY <1>1, <1>5
<1>7. \A k \in 1..m : g[k] = one(k)
  BY <1>2
<1> QED
  BY <1>4, <1>5, <1>6, <1>7 DEF g, m, one

\* Lists of one element, joined.
LEMMA FlattenSingles ==
  ASSUME NEW S, NEW h \in Seq(S), h # <<>>
  PROVE  FlattenSeq([k \in 1..Len(h) |-> <<h[k]>>]) = h
<1> DEFINE m == Len(h)
           g == [k \in 1..m |-> <<h[k]>>]
<1>1. m \in Nat \ {0} /\ \A k \in 1..m : h[k] \in S
  BY ElementOfSeq
<1>2. \A k \in 1..m : <<h[k]>> \in Seq(S) /\ Len(<<h[k]>>) = 1 /\ <<h[k]>> # <<>> /\ DOMAIN <<h[k]>> = 1..1 /\ <<h[k]>>[1] = h[k]
  BY <1>1
<1> HIDE DEF m
<1>3. g \in Seq(Seq(S))
  BY <1>1, <1>2, IsASeq
<1>4. DOMAIN g = 1..m /\ \A k \in 1..m : g[k] = <<h[k]>>
  OBVIOUS
<1> HIDE DEF g
<1>5. Len(g) = m
  BY <1>1, <1>3, <1>4, LenProperties
<1>6. \A k \in 1..m :
        /\ g[k] \in Seq(S) /\ g[k] # <<>> /\ Len(g[k]) \in 1..1 /\ DOMAIN g[k] = 1..Len(g[k])
        /\ Len(g[k]) = IF k < m THEN 1 ELSE m - (m - 1) * 1
        /\ \A i \in 1..Len(g[k]) : (k - 1) * 1 + i \in 1..m /\ g[k][i] = h[(k - 1) * 1 + i]
  <2> TAKE k \in 1..m
  <2> DEFINE x == g[k]
  <2>1. x \in Seq(S) /\ Len(x) = 1 /\ x # <<>> /\ DOMAIN x = 1..1 /\ x[1] = h[k]
    BY <1>2, <1>4
  <2> HIDE DEF x
  <2>2. 1 \in 1..1 /\ 1 = IF k < m THEN 1 ELSE m - (m - 1) * 1
    BY <1>1
  <2>3. \A i \in 1..1 : (k - 1) * 1 + i \in 1..m /\ x[i] = h[(k - 1) * 1 + i]
    <3> TAKE i \in 1..1
    <3>1. i = 1 /\ (k - 1) * 1 + i = k
      BY <1>1
    <3> QED
      BY <2>1, <3>1
  <2>4. /\ x \in Seq(S) /\ x # <<>> /\ Len(x) \in 1..1 /\ DOMAIN x = 1..Len(x)
        /\ Len(x) = IF k < m THEN 1 ELSE m - (m - 1) * 1
        /\ \A i \in 1..Len(x) : (k - 1) * 1 + i \in 1..m /\ x[i] = h[(k - 1) * 1 + i]
    BY <2>1, <2>2, <2>3
  <2> QED
    BY <2>4 DEF x
<1>7. (m - 1) * 1 \in Nat /\ (m - 1) * 1 < m /\ m <= m * 1 /\ m * 1 = (m - 1) * 1 + 1
  BY <1>1
<1>8. CutInto(S, h, 1, g, m)
  <2>1. Len(h) = m
    BY DEF m
  <2> QED
    BY <1>1, <1>3, <1>4, <1>5, <1>6, <1>7, <2>1 DEF CutInto
<1>9. FlattenSeq(g) = h
  BY <1>8, ChunksJoin
<1> QED
  BY <1>9 DEF g, m

\* One partition at a time, the proofs joined afterwards.
LEMMA WindowSingle ==
  ASSUME NEW cfg, cfg.typ = "window", NEW s, Listed(cfg, s), Distinct(s), NEW cpus \in Nat \ {0}
  PROVE  Proved(WindowPostSetupParams(cfg), s, GenerateSingleWindowPosts(cfg, s, cpus))
<1> DEFINE pp == WindowPostSetupParams(cfg)
           n == cfg.sectors
           m == PartsOf(pp, s)
           v == RightVanilla(cfg, s)
           chunks == SectorChunks(s, n)
           vs == SectorChunks(v, n)
           part(k) == GenerateSingleWindowPost(cfg, chunks[k], vs[k], k - 1, cpus)
           parts == [k \in DOMAIN chunks |-> part(k)]
           ok == \A k \in DOMAIN parts : parts[k].ok
           joined == [k \in DOMAIN parts |-> parts[k].groth]
<1>1. /\ pp.sectors = n /\ Listed(pp, s) /\ n \in Nat \ {0}
      /\ \A id, p : LeavesOf(pp, id, p) = LeavesOf(cfg, id, p)
  BY WindowParams DEF Listed, Counts
<1>2. VanillaProofsOf(cfg, s) = v
  <2>1. PartitionsOf(cfg, Len(s)) = PartsOf(cfg, s)
    BY WindowPartitions DEF PartitionsOf
  <2> QED
    BY <2>1, VanillaAre
<1>3. /\ m \in Nat \ {0} /\ DOMAIN chunks = 1..m /\ CutInto(Replica, s, n, chunks, m)
      /\ \A k \in 1..m : Partition(pp, Chunk(pp, s, k)) /\ k - 1 \in Nat
  BY <1>1, ChunkIs
<1>4. \A k \in 1..m : Chunk(pp, s, k) = chunks[k]
  BY <1>1 DEF Chunk
<1>5. /\ v \in Seq(VanillaSet) /\ Len(v) = Len(s) /\ DOMAIN v = 1..Len(s)
      /\ \A i \in 1..Len(s) : /\ v[i].id = s[i].id
                              /\ v[i].proof = SectorProofOf(s[i], LeavesOf(cfg, s[i].id, i - 1))
  BY VanillaType
<1>6. CutInto(VanillaSet, v, n, vs, m)
  <2>1. m = CeilDiv(Len(v), n) /\ v # <<>>
    <3>1. s \in Seq(Replica) /\ s # <<>>
      BY DEF Listed
    <3>2. v # <<>>
      BY <1>5, <3>1
    <3> QED
      BY <1>1, <1>5, <3>2 DEF PartsOf
  <2> HIDE DEF m, v
  <2> QED
    BY <1>1, <1>5, <2>1, ChunksIs
<1> HIDE DEF pp, n, m, v, chunks, vs
<1>7. \A k \in 1..m :
        /\ vs[k] \in Seq(VanillaSet) /\ Len(vs[k]) = Len(chunks[k]) /\ DOMAIN vs[k] = 1..Len(chunks[k]) /\ Len(chunks[k]) \in Nat
        /\ \A i \in 1..Len(chunks[k]) :
             (k - 1) * n + i \in 1..Len(s) /\ chunks[k][i] = s[(k - 1) * n + i] /\ vs[k][i] = v[(k - 1) * n + i]
  <2> TAKE k \in 1..m
  <2>1. /\ vs[k] \in Seq(VanillaSet) /\ DOMAIN vs[k] = 1..Len(vs[k])
        /\ Len(vs[k]) = IF k < m THEN n ELSE Len(s) - (m - 1) * n
        /\ \A i \in 1..Len(vs[k]) : vs[k][i] = v[(k - 1) * n + i]
    BY <1>5, <1>6 DEF CutInto
  <2>2. /\ chunks[k] \in Seq(Replica)
        /\ Len(chunks[k]) = IF k < m THEN n ELSE Len(s) - (m - 1) * n
        /\ \A i \in 1..Len(chunks[k]) : (k - 1) * n + i \in 1..Len(s) /\ chunks[k][i] = s[(k - 1) * n + i]
    BY <1>3 DEF CutInto
  <2>3. Len(vs[k]) = Len(chunks[k])
    BY <2>1, <2>2
  <2> QED
    BY <2>1, <2>2, <2>3
<1>8. ASSUME NEW k \in 1..m PROVE Finds(pp, chunks[k], k - 1, vs[k])
  <2> DEFINE l == Len(chunks[k])
             x == (k - 1) * n
  <2>0. x \in Int
    <3>1. k \in Int /\ n \in Int
      BY <1>1
    <3> QED
      BY <3>1
  <2>1. \A i \in 1..l : x + i \in 1..Len(s) /\ chunks[k][i] = s[x + i] /\ vs[k][i] = v[x + i]
    BY <1>7
  <2>2. Len(vs[k]) = l
    BY <1>7
  <2>3. \A i \in 1..l : SectorProofAt(pp, chunks[k], k - 1, i) = SectorProofOf(chunks[k][i], LeavesOf(pp, chunks[k][i].id, x + i - 1))
    BY <1>1 DEF SectorProofAt
  <2> HIDE DEF x, l
  <2>4. \A i \in 1..l : \E p \in 1..l : vs[k][p].id = chunks[k][i].id /\ vs[k][p].proof = SectorProofAt(pp, chunks[k], k - 1, i)
    <3> TAKE i \in 1..l
    <3> DEFINE p == x + i
    <3>1. p \in 1..Len(s) /\ chunks[k][i] = s[p] /\ vs[k][i] = v[p]
      BY <2>1
    <3>2. x + i - 1 = p - 1
      BY <2>0
    <3> HIDE DEF p
    <3>3. vs[k][i].id = chunks[k][i].id /\ vs[k][i].proof = SectorProofAt(pp, chunks[k], k - 1, i)
      BY <1>1, <1>5, <2>3, <3>1, <3>2
    <3> QED
      BY <3>3
  <2>5. \A p \in 1..l, q \in 1..l : vs[k][p].id = vs[k][q].id => p = q
    <3> SUFFICES ASSUME NEW p \in 1..l, NEW q \in 1..l, vs[k][p].id = vs[k][q].id PROVE p = q
      OBVIOUS
    <3>1. x + p \in 1..Len(s) /\ x + q \in 1..Len(s) /\ vs[k][p] = v[x + p] /\ vs[k][q] = v[x + q]
      BY <2>1
    <3>2. s[x + p].id = s[x + q].id
      BY <1>5, <3>1
    <3>3. x + p = x + q
      BY <3>1, <3>2 DEF Distinct
    <3> QED
      BY <2>0, <3>3
  <2> QED
    BY <2>2, <2>4, <2>5 DEF Finds, l
<1>9. \A k \in 1..m : /\ part(k).ok <=> \A i \in DOMAIN vs[k] : vs[k][i].ok
                      /\ part(k).ok => part(k).groth = <<RightProofOf(pp, chunks[k], k - 1)>>
  <2> TAKE k \in 1..m
  <2>1. Partition(WindowPostSetupParams(cfg), chunks[k]) /\ k - 1 \in Nat /\ vs[k] \in Seq(VanillaSet)
    BY <1>3, <1>4, <1>7 DEF pp
  <2>2. Finds(WindowPostSetupParams(cfg), chunks[k], k - 1, vs[k])
    BY <1>8 DEF pp
  <2> QED
    BY <2>1, <2>2, SingleMade DEF pp
<1> HIDE DEF part
<1>10. DOMAIN parts = 1..m /\ \A k \in 1..m : parts[k] = part(k)
  BY <1>3
<1> HIDE DEF parts
<1>11. ok <=> \A p \in 1..Len(s) : v[p].ok
  <2>1. ASSUME ok, NEW p \in 1..Len(s) PROVE v[p].ok
    <3>1. HasPlace(v, n, vs, m, p)
      BY <1>1, <1>5, <1>6, PlaceIn
    <3>2. PICK k \in 1..m : \E i \in 1..Len(vs[k]) : v[p] = vs[k][i]
      BY <3>1 DEF HasPlace
    <3>3. PICK i \in 1..Len(vs[k]) : v[p] = vs[k][i]
      BY <3>2
    <3>4. part(k).ok /\ i \in DOMAIN vs[k]
      BY <1>7, <1>10, <2>1, <3>3
    <3> QED
      BY <1>9, <3>3, <3>4
  <2>2. ASSUME \A p \in 1..Len(s) : v[p].ok, NEW k \in 1..m PROVE parts[k].ok
    <3>1. \A i \in DOMAIN vs[k] : vs[k][i].ok
      BY <1>7, <2>2
    <3> QED
      BY <1>9, <1>10, <3>1
  <2> QED
    BY <2>1, <2>2, <1>10
<1>12. (\A p \in 1..Len(s) : v[p].ok) <=> Faulty(pp, s) = {}
  BY <1>5, NoneFaulty DEF v, pp
<1>13. ASSUME ok PROVE FlattenSeq(joined) = RightGroth(pp, s)
  <2> DEFINE h == RightGroth(pp, s)
  <2>1. /\ h \in Seq(Groths) /\ Len(h) = m /\ h # <<>>
        /\ \A k \in 1..m : h[k] = RightProofOf(pp, Chunk(pp, s, k), k - 1)
    BY <1>1, RightGrothType DEF m
  <2> HIDE DEF h
  <2>2. \A k \in 1..m : parts[k].groth = <<h[k]>>
    BY <1>4, <1>9, <1>10, <1>13, <2>1
  <2>3. joined = [k \in 1..Len(h) |-> <<h[k]>>]
    BY <1>10, <2>1, <2>2, Zenon
  <2> HIDE DEF joined
  <2>4. FlattenSeq([k \in 1..Len(h) |-> <<h[k]>>]) = h
    BY <2>1, FlattenSingles
  <2> QED
    BY <2>3, <2>4 DEF h
<1>14. GenerateSingleWindowPosts(cfg, s, cpus) = [ok |-> ok, groth |-> IF ok THEN FlattenSeq(joined) ELSE <<>>]
  BY <1>2 DEF GenerateSingleWindowPosts, MergeWindowPostPartitionProofs, chunks, vs, n, part, parts
<1> HIDE DEF ok, joined
<1>15. Proved(pp, s, GenerateSingleWindowPosts(cfg, s, cpus))
  BY <1>11, <1>12, <1>13, <1>14 DEF Proved
<1> QED
  BY <1>15 DEF pp

----------------------------------------------------------------------------
(* The two routes to a Winning proof                                        *)

\* A configuration of Winning proofs and the one sector they prove.
Winning(cfg, s) ==
  /\ Counts(cfg) /\ cfg.typ = "winning" /\ cfg.sectors = 1 /\ cfg.api # "V1_2"
  /\ s \in Seq(Replica) /\ Len(s) = 1

\* A number divided by one and by itself.
LEMMA DivByItself ==
  ASSUME NEW c \in Nat \ {0}
  PROVE  c \div 1 = c /\ c \div c = 1
<1>1. c \div 1 = c
  OBVIOUS
<1> DEFINE q == c \div c
           r == c % c
<1>2. q \in Nat /\ c = c * q + r /\ r \in 0..(c - 1)
  OBVIOUS
<1> HIDE DEF q, r
<1>3. q # 0
  <2> SUFFICES ASSUME q = 0 PROVE FALSE
    OBVIOUS
  <2>1. c * 0 = 0
    OBVIOUS
  <2> QED
    BY <1>2, <2>1
<1>4. q < 2
  <2> SUFFICES ASSUME q >= 2 PROVE FALSE
    BY <1>2
  <2>1. 2 \in Nat \ {0} /\ 2 <= q /\ q \in Nat \ {0} /\ c \in Nat
    BY <1>2
  <2> DEFINE x == (q - 1) * c
             y == (2 - 1) * c
  <2>2. y <= x /\ q * c = x + c /\ x \in Int
    BY <2>1, Multiples
  <2>3. y = c /\ q * c = c * q
    BY <1>2
  <2> HIDE DEF x, y
  <2>4. c = x + c + r
    BY <1>2, <2>2, <2>3
  <2> QED
    BY <1>2, <2>2, <2>3, <2>4
<1>5. q = 1
  BY <1>2, <1>3, <1>4
<1> QED
  BY <1>1, <1>5 DEF q

\* The sector is proved once per challenge, with one challenge each time.
LEMMA WinningParams ==
  ASSUME NEW cfg, NEW s, Winning(cfg, s)
  PROVE  LET pp == WinningPostSetupParams(cfg)
         IN pp.sectors = cfg.challenges /\ pp.challenges = 1 /\ pp.api = cfg.api /\ Counts(pp)
<1>1. cfg.sectors = 1 /\ cfg.challenges \in Nat \ {0}
  BY DEF Winning, Counts
<1>2. cfg.challenges \div 1 = cfg.challenges /\ cfg.challenges \div cfg.challenges = 1
  BY <1>1, DivByItself
<1>3. WinningPostSetupParams(cfg) = [sectors |-> cfg.challenges, challenges |-> 1, api |-> cfg.api]
  BY <1>1, <1>2 DEF WinningPostSetupParams
<1> QED
  BY <1>1, <1>3 DEF Counts

\* The repeated list is one partition.
LEMMA RepeatedIs ==
  ASSUME NEW cfg, NEW s, Winning(cfg, s)
  PROVE  LET pp == WinningPostSetupParams(cfg)
             t == Repeated(cfg, s)
         IN /\ t \in Seq(Replica) /\ Len(t) = cfg.challenges /\ \A i \in 1..cfg.challenges : t[i] = s[1]
            /\ Partition(pp, t) /\ Listed(pp, t) /\ Partition(pp, s) /\ Listed(cfg, s) /\ Distinct(s)
            /\ PartsOf(pp, t) = 1 /\ Chunk(pp, t, 1) = t
            /\ RightGroth(pp, t) = [k \in 1..1 |-> RightProofOf(pp, t, 0)]
<1> DEFINE pp == WinningPostSetupParams(cfg)
           t == Repeated(cfg, s)
           c == cfg.challenges
           g == [i \in 1..c |-> s]
<1>1. pp.sectors = c /\ pp.challenges = 1 /\ Counts(pp)
  BY WinningParams
<1>2. c \in Nat \ {0} /\ s \in Seq(Replica) /\ Len(s) = 1 /\ s # <<>> /\ Counts(cfg)
  BY DEF Winning, Counts
<1>3. t = FlattenSeq(g)
  BY <1>1 DEF Repeated
<1> HIDE DEF pp, c, t
<1>4. Uniform(Replica, g, c, 1)
  <2>1. g \in Seq(Seq(Replica))
    BY <1>2, IsASeq
  <2>2. DOMAIN g = 1..c /\ \A i \in 1..c : g[i] = s
    OBVIOUS
  <2> HIDE DEF g
  <2>3. Len(g) = c
    BY <1>2, <2>1, <2>2, LenProperties
  <2> QED
    BY <1>2, <2>1, <2>2, <2>3 DEF Uniform
<1>5. \A i \in 1..c : g[i] = s
  OBVIOUS
<1> HIDE DEF g
<1>6. JoinOf(Replica, t, g, c, 1)
  BY <1>3, <1>4, FlattenUniform
<1>7. /\ t \in Seq(Replica) /\ Len(t) = c * 1 /\ t # <<>>
      /\ \A i \in 1..c : \A k \in 1..1 : t[(i - 1) * 1 + k] = g[i][k]
  BY <1>6 DEF JoinOf
<1>8. Len(t) = c
  BY <1>2, <1>7
<1>9. \A i \in 1..c : t[i] = s[1]
  <2> TAKE i \in 1..c
  <2>1. 1 \in 1..1 /\ (i - 1) * 1 + 1 = i
    BY <1>2
  <2>2. t[(i - 1) * 1 + 1] = g[i][1]
    BY <1>7, <2>1
  <2> QED
    BY <1>5, <2>1, <2>2
<1>10. Partition(pp, t) /\ Listed(pp, t) /\ Partition(pp, s) /\ Listed(cfg, s)
  BY <1>1, <1>2, <1>7, <1>8 DEF Partition, Listed
<1>11. Distinct(s)
  BY <1>2 DEF Distinct
<1>12. CeilDiv(Len(t), c) = 1 /\ SectorChunks(t, c)[1] = t
  <2>1. Len(t) <= c
    BY <1>2, <1>8
  <2> QED
    BY <1>2, <1>7, <2>1, OnePiece
<1>13. PartsOf(pp, t) = 1 /\ Chunk(pp, t, 1) = t
  BY <1>1, <1>12 DEF PartsOf, Chunk
<1>14. RightGroth(pp, t) = [k \in 1..1 |-> RightProofOf(pp, t, 0)]
  <2>1. RightGroth(pp, t) = [k \in 1..1 |-> RightProofOf(pp, Chunk(pp, t, k), k - 1)]
    BY <1>13 DEF RightGroth
  <2>2. \A k \in 1..1 : RightProofOf(pp, Chunk(pp, t, k), k - 1) = RightProofOf(pp, t, 0)
    <3> TAKE k \in 1..1
    <3>1. k = 1 /\ k - 1 = 0
      OBVIOUS
    <3> QED
      BY <1>13, <3>1
  <2> QED
    BY <2>1, <2>2
<1> QED
  BY <1>7, <1>8, <1>9, <1>10, <1>11, <1>13, <1>14 DEF pp, t, c

\* The leaf of each repetition is the leaf of one challenge.
LEMMA WinningLeaves ==
  ASSUME NEW cfg, NEW s, Winning(cfg, s), NEW id \in Nat, NEW i \in 1..cfg.challenges
  PROVE  /\ LeavesOf(WinningPostSetupParams(cfg), id, i - 1) = <<<<id, i - 1>>>>
         /\ LeavesOf(cfg, id, 0)[i] = <<id, i - 1>>
         /\ DOMAIN LeavesOf(cfg, id, 0) = 1..cfg.challenges
<1> DEFINE pp == WinningPostSetupParams(cfg)
           c == cfg.challenges
<1>1. pp.challenges = 1 /\ pp.api = cfg.api /\ Counts(pp)
  BY WinningParams
<1>2. c \in Nat \ {0} /\ cfg.api # "V1_2" /\ Counts(cfg)
  BY DEF Winning, Counts
<1>3. i - 1 \in Nat /\ 0 \in Nat
  BY <1>2
<1> HIDE DEF pp, c
<1>4. LeavesOf(pp, id, i - 1) = [n \in 1..1 |-> <<id, i - 1>>]
  <2>1. LeavesOf(pp, id, i - 1) = [n \in 1..1 |-> <<id, GetChallengeIndex(pp.api, i - 1, 1, n - 1)>>]
    BY <1>1 DEF LeavesOf, GenerateLeafChallenge
  <2>2. \A n \in 1..1 : GetChallengeIndex(pp.api, i - 1, 1, n - 1) = i - 1
    BY <1>1, <1>2, <1>3 DEF GetChallengeIndex
  <2> QED
    BY <2>1, <2>2
<1>5. [n \in 1..1 |-> <<id, i - 1>>] = <<<<id, i - 1>>>>
  OBVIOUS
<1>6. LeavesOf(cfg, id, 0)[i] = <<id, GetChallengeIndex(cfg.api, 0, c, i - 1)>> /\ DOMAIN LeavesOf(cfg, id, 0) = 1..c
  BY <1>2, <1>3, LeavesType DEF c
<1>7. GetChallengeIndex(cfg.api, 0, c, i - 1) = i - 1
  <2>1. 0 * c = 0
    BY <1>2
  <2> QED
    BY <1>2, <1>3, <2>1 DEF GetChallengeIndex
<1> QED
  BY <1>4, <1>5, <1>6, <1>7 DEF pp, c

\* From the replica.
LEMMA WinningDirect ==
  ASSUME NEW cfg, NEW s, Winning(cfg, s), NEW cpus \in Nat \ {0}
  PROVE  LET pp == WinningPostSetupParams(cfg)
             t == Repeated(cfg, s)
         IN /\ Proved(pp, t, GenerateWinningPost(cfg, s, cpus))
            /\ GenerateWinningPost(cfg, s, cpus).faults = Ascending({t[p].id : p \in Faulty(pp, t)})
<1> DEFINE pp == WinningPostSetupParams(cfg)
           t == Repeated(cfg, s)
<1>1. Listed(pp, t) /\ Len(t) = cfg.challenges
  BY RepeatedIs
<1>2. pp.sectors = cfg.challenges /\ cfg.challenges \in Nat
  BY WinningParams DEF Winning, Counts
<1>3. GenerateWinningPost(cfg, s, cpus) = CompoundProve(pp, t, 1, cpus)
  BY DEF GenerateWinningPost
<1> HIDE DEF pp, t
<1>4. Len(t) <= 1 * pp.sectors
  BY <1>1, <1>2
<1>5. LET made == CompoundProve(pp, t, 1, cpus)
      IN /\ made.ok <=> Faulty(pp, t) = {}
         /\ made.faults = Ascending({t[p].id : p \in Faulty(pp, t)})
         /\ made.groth = IF Faulty(pp, t) = {} THEN RightGroth(pp, t) ELSE <<>>
  BY <1>1, <1>4, DirectProof
<1> QED
  BY <1>3, <1>5 DEF pp, t, Proved

\* From vanilla proofs made elsewhere: the inclusion proofs of the one sector become the
\* sector proofs of the circuit.
LEMMA WinningVanilla ==
  ASSUME NEW cfg, NEW s, Winning(cfg, s), NEW cpus \in Nat \ {0}
  PROVE  Proved(WinningPostSetupParams(cfg), Repeated(cfg, s), GenerateWinningPostWithVanilla(cfg, s, cpus))
<1> DEFINE pp == WinningPostSetupParams(cfg)
           t == Repeated(cfg, s)
           c == cfg.challenges
           r == s[1]
           v == RightVanilla(cfg, s)
           leaves == LeavesOf(cfg, r.id, 0)
           proof == RightPart(pp, t, 0)
           groups == SectorChunks(v, pp.sectors)
           part(k) == SinglePartitionVanillaProofs(cfg, pp, k - 1, s, groups[k])
           parts == [k \in DOMAIN groups |-> part(k)]
           proofs == [k \in DOMAIN parts |-> parts[k].proof]
           all == PartitionVanillaProofs(cfg, pp, s, 1, v)
<1>1. pp.sectors = c /\ pp.challenges = 1 /\ Counts(pp)
  BY WinningParams
<1>2. /\ c \in Nat \ {0} /\ s \in Seq(Replica) /\ Len(s) = 1 /\ cfg.typ = "winning" /\ cfg.typ # "window" /\ cfg.sectors = 1
      /\ Counts(cfg)
  BY DEF Winning, Counts
<1>3. /\ t \in Seq(Replica) /\ Len(t) = c /\ \A i \in 1..c : t[i] = r
      /\ Partition(pp, t) /\ Partition(pp, s) /\ Listed(cfg, s) /\ Distinct(s)
      /\ RightGroth(pp, t) = [k \in 1..1 |-> RightProofOf(pp, t, 0)]
  BY RepeatedIs
<1>4. r \in Replica /\ r.id \in Nat
  <2>1. 1 \in 1..Len(s)
    BY <1>2
  <2>2. r \in Replica
    BY <1>2, <2>1, ElementOfSeq
  <2> QED
    BY <2>2, ReplicaType
<1>5. \A i \in 1..c : LeavesOf(pp, r.id, i - 1) = <<<<r.id, i - 1>>>> /\ leaves[i] = <<r.id, i - 1>>
  BY <1>4, WinningLeaves
<1>6. DOMAIN leaves = 1..c
  <2>1. 1 \in 1..c
    BY <1>2
  <2> QED
    BY <1>4, <2>1, WinningLeaves
<1>7. /\ v \in Seq(VanillaSet) /\ Len(v) = 1 /\ DOMAIN v = 1..1 /\ v # <<>>
      /\ v[1].proof = [comm |-> r.comm_r, leaves |-> leaves] /\ (v[1].ok <=> CanProve(r, leaves))
  <2>1. 1 \in 1..Len(s) /\ 1 - 1 = 0
    BY <1>2
  <2>2. /\ v \in Seq(VanillaSet) /\ Len(v) = Len(s) /\ DOMAIN v = 1..Len(s)
        /\ \A i \in 1..Len(s) : /\ v[i].proof = SectorProofOf(s[i], LeavesOf(cfg, s[i].id, i - 1))
                                /\ v[i].ok <=> CanProve(s[i], LeavesOf(cfg, s[i].id, i - 1))
    BY <1>3, VanillaType
  <2>3. v[1].proof = SectorProofOf(r, LeavesOf(cfg, r.id, 1 - 1)) /\ (v[1].ok <=> CanProve(r, LeavesOf(cfg, r.id, 1 - 1)))
    BY <2>1, <2>2
  <2> HIDE DEF v
  <2>4. v # <<>>
    <3>1. Len(v) = 1
      BY <1>2, <2>2
    <3> QED
      BY <3>1
  <2> QED
    BY <1>2, <2>1, <2>2, <2>3, <2>4 DEF SectorProofOf
<1>8. PartitionsOf(cfg, Len(s)) = 1 /\ VanillaProofsOf(cfg, s) = v
  <2>1. PartitionsOf(cfg, Len(s)) = 1
    BY <1>2 DEF PartitionsOf
  <2>2. PartsOf(cfg, s) = 1
    <3>1. 1 \in Nat \ {0} /\ 1 <= 1
      OBVIOUS
    <3> QED
      BY <1>2, <3>1, CeilDivIs DEF PartsOf
  <2> QED
    BY <1>3, <2>1, <2>2, VanillaAre
<1>9. Len(groups) = 1 /\ DOMAIN groups = 1..1 /\ groups[1] = v
  <2>1. pp.sectors \in Nat \ {0} /\ Len(v) <= pp.sectors
    BY <1>1, <1>2, <1>7
  <2> HIDE DEF v, pp
  <2> QED
    BY <1>7, <2>1, OnePiece
<1>10. SectorChunks(s, pp.sectors)[1] = s /\ Len(SectorChunks(s, pp.sectors)) = 1
  <2>1. pp.sectors \in Nat \ {0} /\ Len(s) <= pp.sectors /\ s # <<>>
    <3> HIDE DEF pp, c
    <3>1. Len(s) = 1
      BY <1>2
    <3>2. s # <<>>
      BY <3>1
    <3> QED
      BY <1>1, <1>2, <3>1, <3>2
  <2> HIDE DEF pp
  <2> QED
    BY <1>2, <2>1, OnePiece
<1>11. \A i \in 1..c : SectorProofAt(pp, t, 0, i) = [comm |-> r.comm_r, leaves |-> <<<<r.id, i - 1>>>>]
  <2> TAKE i \in 1..c
  <2>1. 0 * pp.sectors + i - 1 = i - 1
    BY <1>1, <1>2
  <2>2. t[i] = r
    BY <1>3
  <2> HIDE DEF t, pp, r
  <2>3. SectorProofAt(pp, t, 0, i) = SectorProofOf(r, LeavesOf(pp, r.id, i - 1))
    BY <2>1, <2>2 DEF SectorProofAt
  <2> QED
    BY <1>5, <2>3 DEF SectorProofOf
<1> HIDE DEF pp, t, c, r, v, leaves, groups
<1> DEFINE unrolled == [n \in DOMAIN v[1].proof.leaves |-> [v[1].proof EXCEPT !.leaves = <<v[1].proof.leaves[n]>>]]
<1>12. unrolled = [i \in 1..Len(t) |-> SectorProofAt(pp, t, 0, i)]
  <2>1. v[1].proof.leaves = leaves
    BY <1>7
  <2>2. \A n \in 1..c : [v[1].proof EXCEPT !.leaves = <<leaves[n]>>] = SectorProofAt(pp, t, 0, n)
    BY <1>5, <1>7, <1>11
  <2>3. unrolled = [n \in 1..c |-> [v[1].proof EXCEPT !.leaves = <<leaves[n]>>]]
    BY <1>6, <2>1
  <2> QED
    BY <1>3, <2>2, <2>3
<1> HIDE DEF unrolled
<1>13. /\ proof = PadProofs(unrolled, pp.sectors) /\ Len(proof) = c /\ DOMAIN proof = 1..c
       /\ FilledFrom(pp, t, 0, proof)
  <2>1. 0 \in Nat
    OBVIOUS
  <2>2. RightPart(pp, t, 0) = PadProofs([i \in 1..Len(t) |-> SectorProofAt(pp, t, 0, i)], pp.sectors)
    BY <1>3, <2>1, RightPartIs
  <2>3. Len(RightPart(pp, t, 0)) = c /\ DOMAIN RightPart(pp, t, 0) = 1..c /\ FilledFrom(pp, t, 0, RightPart(pp, t, 0))
    BY <1>1, <1>3, <2>1, RightPartIs
  <2> QED
    BY <1>12, <2>2, <2>3
<1>14. VerifyPartition(pp, 0, s, proof)
  <2>1. Min({1, c}) \in {1, c} /\ Min({1, c}) <= 1
    <3>1. 1 \in Int /\ c \in Int
      BY <1>2
    <3> QED
      BY <3>1, MinOfTwo, Zenon
  <2>2. \A i \in 1..Min({1, c}) : i = 1
    BY <1>2, <2>1
  <2>3. proof[1] = [comm |-> r.comm_r, leaves |-> <<<<r.id, 1 - 1>>>>]
    <3>1. 1 \in 1..c
      BY <1>2
    <3>2. Clip(t, 1) = 1
      BY <1>2, <1>3 DEF Clip
    <3> QED
      BY <1>1, <1>11, <1>13, <3>1, <3>2 DEF FilledFrom
  <2>4. LeavesOf(pp, r.id, 0 * pp.sectors + 1 - 1) = <<<<r.id, 1 - 1>>>>
    <3>1. 0 * pp.sectors + 1 - 1 = 1 - 1 /\ 1 \in 1..c
      BY <1>1, <1>2
    <3> QED
      BY <1>5, <3>1
  <2> HIDE DEF proof
  <2>5. /\ proof[1].comm = s[1].comm_r /\ Len(proof[1].leaves) = pp.challenges
        /\ proof[1].leaves = LeavesOf(pp, s[1].id, 0 * pp.sectors + 1 - 1)
    BY <1>1, <2>3, <2>4 DEF r
  <2>6. Len(s) <= pp.sectors /\ Len(proof) = pp.sectors
    BY <1>1, <1>2, <1>13
  <2>7. \A i \in 1..Min({Len(s), Len(proof)}) :
          /\ proof[i].comm = s[i].comm_r /\ Len(proof[i].leaves) = pp.challenges
          /\ proof[i].leaves = LeavesOf(pp, s[i].id, 0 * pp.sectors + i - 1)
    BY <1>2, <1>13, <2>2, <2>5
  <2> QED
    BY <2>6, <2>7 DEF VerifyPartition
<1>15. part(1).ok /\ part(1).proof = proof
  <2> DEFINE found(id) == v[CHOOSE i \in DOMAIN v : v[i].id = id /\ \A j \in 1..(i - 1) : v[j].id # id].proof
             list == [i \in DOMAIN s |-> found(s[i].id)]
             padded == PadProofs(IF cfg.typ = "window" THEN list ELSE unrolled, pp.sectors)
             ok == /\ Len(s) <= pp.sectors
                   /\ cfg.typ = "winning" => Len(v) = 1 /\ cfg.sectors = 1 /\ Len(padded) = cfg.challenges
                   /\ VerifyPartition(pp, 0, s, padded)
  <2>1. 1 - 1 = 0 /\ groups[1] = v
    BY <1>9
  <2>2. SinglePartitionVanillaProofs(cfg, pp, 0, s, v) = [ok |-> ok, proof |-> padded]
    BY Zenon DEF SinglePartitionVanillaProofs, unrolled
  <2> HIDE DEF list
  <2>3. padded = proof
    BY <1>2, <1>13
  <2> HIDE DEF padded, proof
  <2>4. ok
    BY <1>1, <1>2, <1>7, <1>13, <1>14, <2>3 DEF c
  <2> HIDE DEF ok
  <2>5. part(1) = [ok |-> ok, proof |-> padded]
    BY <2>1, <2>2
  <2> QED
    BY <2>3, <2>4, <2>5
<1> HIDE DEF part, proof
<1>16. DOMAIN parts = 1..1 /\ parts[1] = part(1)
  BY <1>9
<1> HIDE DEF parts
<1>17. DOMAIN proofs = 1..1 /\ proofs[1] = proof /\ Len(proofs) = 1
  <2>1. DOMAIN proofs = 1..1 /\ proofs[1] = proof
    BY <1>15, <1>16
  <2>2. proofs = <<proof>>
    BY <1>15, <1>16
  <2> QED
    BY <2>1, <2>2
<1> DEFINE b == /\ Len(s) <= 1 * pp.sectors
                /\ \A k \in DOMAIN parts : parts[k].ok
                /\ VerifyAllPartitions(pp, s, proofs)
<1>18. all = [ok |-> b, proofs |-> proofs]
  BY <1>2, Zenon DEF PartitionVanillaProofs, groups, part, parts
<1> HIDE DEF proofs, all
<1>19. b
  <2>1. Len(s) <= 1 * pp.sectors /\ Len(s) <= pp.sectors * Len(proofs)
    BY <1>1, <1>2, <1>17
  <2>2. \A k \in DOMAIN parts : k = 1
    BY <1>16
  <2>3. \A k \in DOMAIN parts : parts[k].ok
    BY <1>15, <1>16, <2>2
  <2>4. Min({1, 1}) = 1
    BY MinOfOne
  <2>5. \A k \in 1..1 : VerifyPartition(pp, k - 1, SectorChunks(s, pp.sectors)[k], proofs[k])
    <3> TAKE k \in 1..1
    <3>1. k = 1 /\ k - 1 = 0
      OBVIOUS
    <3> QED
      BY <1>10, <1>14, <1>17, <3>1
  <2>6. VerifyAllPartitions(pp, s, proofs)
    BY <1>10, <1>17, <2>1, <2>4, <2>5 DEF VerifyAllPartitions
  <2> QED
    BY <2>1, <2>3, <2>6
<1> HIDE DEF b
<1>20. (\A i \in DOMAIN v : v[i].ok) <=> Faulty(pp, t) = {}
  <2>1. (\A i \in DOMAIN v : v[i].ok) <=> CanProve(r, leaves)
    BY <1>7
  <2>2. CanProve(r, leaves) <=> \A i \in 1..c : <<r.id, i - 1>> \notin r.bad
    BY <1>5, <1>6 DEF CanProve
  <2>3. \A i \in 1..c : CanProve(t[i], LeavesOf(pp, t[i].id, i - 1)) <=> <<r.id, i - 1>> \notin r.bad
    <3> TAKE i \in 1..c
    <3> DEFINE x == <<r.id, i - 1>>
    <3>1. t[i] = r /\ LeavesOf(pp, r.id, i - 1) = <<x>>
      BY <1>3, <1>5
    <3> HIDE DEF x
    <3>2. CanProve(r, <<x>>) <=> x \notin r.bad
      BY DEF CanProve
    <3> QED
      BY <3>1, <3>2 DEF x
  <2>4. DOMAIN t = 1..c
    BY <1>2, <1>3
  <2>5. Faulty(pp, t) = {} <=> \A i \in 1..c : <<r.id, i - 1>> \notin r.bad
    BY <2>3, <2>4 DEF Faulty
  <2> QED
    BY <2>1, <2>2, <2>5
<1>21. CircuitProofs(pp, s, proofs, cpus) = RightGroth(pp, t)
  <2> DEFINE made(k) == PostSynthesize(PostCircuit(pp, s, k - 1, proofs[k]), cpus)
  <2>1. SectorChunks(s, pp.sectors)[0 + 1] = s /\ DOMAIN proof \subseteq Nat \ {0}
    BY <1>2, <1>10, <1>13
  <2>2. PostCircuit(pp, s, 0, proof) = CircuitOf(s, proof)
    BY <1>3, <2>1, PostCircuitIs
  <2>3. CircuitOf(s, proof) = CircuitOf(t, proof)
    <3>1. \A i \in 1..c : s[Clip(s, i)] = r /\ t[Clip(t, i)] = r
      <4> TAKE i \in 1..c
      <4>1. Clip(s, i) = 1 /\ Clip(t, i) = i
        BY <1>2, <1>3 DEF Clip
      <4> QED
        BY <1>3, <4>1 DEF r
    <3>2. \A i \in DOMAIN proof : s[Clip(s, i)].comm_r = t[Clip(t, i)].comm_r
      BY <1>13, <3>1
    <3> QED
      BY <3>2, Zenon DEF CircuitOf
  <2>4. PostSynthesize(CircuitOf(t, proof), cpus) = RightProofOf(pp, t, 0)
    <3>1. 0 \in Nat
      OBVIOUS
    <3> QED
      BY <1>3, <3>1, RightCircuit DEF proof
  <2>5. CircuitProofs(pp, s, proofs, cpus) = [k \in 1..1 |-> made(k)]
    BY <1>17 DEF CircuitProofs
  <2>6. \A k \in 1..1 : made(k) = RightProofOf(pp, t, 0)
    <3> TAKE k \in 1..1
    <3>1. k = 1 /\ k - 1 = 0
      OBVIOUS
    <3> QED
      BY <1>17, <2>2, <2>3, <2>4, <3>1
  <2> HIDE DEF made
  <2> QED
    BY <1>3, <2>5, <2>6
<1> DEFINE ok == \A i \in DOMAIN v : v[i].ok
           made == [all EXCEPT !.ok = @ /\ ok]
<1>22. GenerateWinningPostWithVanilla(cfg, s, cpus)
         = [ok |-> made.ok, groth |-> IF made.ok THEN CircuitProofs(pp, s, made.proofs, cpus) ELSE <<>>]
  BY <1>8 DEF GenerateWinningPostWithVanilla, WithVanilla, CompoundProveWithVanilla, all, pp
<1> HIDE DEF ok
<1>23. (made.ok <=> ok) /\ made.proofs = proofs
  BY <1>18, <1>19
<1> HIDE DEF made
<1>24. Proved(pp, t, GenerateWinningPostWithVanilla(cfg, s, cpus))
  BY <1>20, <1>21, <1>22, <1>23 DEF Proved, ok
<1> QED
  BY <1>24 DEF pp, t

----------------------------------------------------------------------------
(* What a proof asks for, and who accepts it                                *)

InSome(g, m, c, x) == \E i \in 1..m : \E j \in 1..c : x = g[i][j]

\* The elements of joined sequences.
LEMMA JoinRange ==
  ASSUME NEW S, NEW flat, NEW g, NEW m \in Nat \ {0}, NEW c \in Nat \ {0}, JoinOf(S, flat, g, m, c), NEW x
  PROVE  x \in Range(flat) <=> InSome(g, m, c, x)
<1>1. /\ flat \in Seq(S) /\ Len(flat) = m * c
      /\ \A i \in 1..m : \A j \in 1..c : (i - 1) * c + j \in 1..(m * c) /\ flat[(i - 1) * c + j] = g[i][j]
  BY DEF JoinOf
<1>2. DOMAIN flat = 1..(m * c)
  BY <1>1, LenProperties
<1>3. ASSUME x \in Range(flat) PROVE \E i \in 1..m : \E j \in 1..c : x = g[i][j]
  <2>1. PICK p \in 1..(m * c) : x = flat[p]
    BY <1>2, <1>3 DEF Range
  <2>2. p \in Nat \ {0}
    OBVIOUS
  <2>3. PICK i \in Nat \ {0}, j \in 1..c : p = (i - 1) * c + j
    BY <2>2, Blocks
  <2>4. i <= m
    <3>1. m * c = (m - 1) * c + c
      BY Multiples
    <3>2. (i - 1) * c + j <= (m - 1) * c + c /\ c \in 1..c
      BY <2>3, <3>1
    <3> QED
      BY <3>2, SameBlock
  <2>5. i \in 1..m
    BY <2>4
  <2> QED
    BY <1>1, <2>1, <2>3, <2>5
<1>4. ASSUME NEW i \in 1..m, NEW j \in 1..c, x = g[i][j] PROVE x \in Range(flat)
  BY <1>1, <1>2, <1>4 DEF Range
<1> QED
  BY <1>3, <1>4 DEF InSome

\* The places of the partitions are places of the list, and every one of those is there.
LEMMA PiecesOfList ==
  ASSUME NEW pp, NEW s, Listed(pp, s)
  PROVE  /\ \A k \in 1..PartsOf(pp, s) : \A i \in 1..pp.sectors : \E p \in 1..Len(s) :
              Pieces(pp, Chunk(pp, s, k), k - 1)[i] = SectorInputs(pp, s[p], p - 1)
         /\ \A p \in 1..Len(s) : \E k \in 1..PartsOf(pp, s) : \E i \in 1..pp.sectors :
              Pieces(pp, Chunk(pp, s, k), k - 1)[i] = SectorInputs(pp, s[p], p - 1)
<1> DEFINE n == pp.sectors
           m == PartsOf(pp, s)
           chunks == SectorChunks(s, n)
<1>1. n \in Nat \ {0} /\ s \in Seq(Replica) /\ Counts(pp)
  BY DEF Listed, Counts
<1>2. /\ CutInto(Replica, s, n, chunks, m) /\ m \in Nat \ {0}
      /\ \A k \in 1..m : Partition(pp, Chunk(pp, s, k)) /\ k - 1 \in Nat
  BY ChunkIs
<1>3. \A k \in 1..m : Chunk(pp, s, k) = chunks[k]
  BY DEF Chunk
<1> HIDE DEF n, m, chunks
<1>4. ASSUME NEW k \in 1..m, NEW i \in 1..n
      PROVE  LET j == Clip(chunks[k], i)
             IN /\ j \in 1..Len(chunks[k]) /\ (k - 1) * n + j \in 1..Len(s)
                /\ Pieces(pp, chunks[k], k - 1)[i] = SectorInputs(pp, s[(k - 1) * n + j], (k - 1) * n + j - 1)
  <2> DEFINE chunk == chunks[k]
             j == Clip(chunk, i)
  <2>1. chunk \in Seq(Replica) /\ chunk # <<>> /\ k - 1 \in Nat
    BY <1>2, <1>3 DEF Partition
  <2>2. \A e \in 1..Len(chunk) : (k - 1) * n + e \in 1..Len(s) /\ chunk[e] = s[(k - 1) * n + e]
    BY <1>2 DEF CutInto
  <2> HIDE DEF chunk
  <2>3. j \in 1..Len(chunk) /\ Pieces(pp, chunk, k - 1)[i] = SectorInputs(pp, chunk[j], (k - 1) * n + j - 1)
    BY <1>1, <2>1, ChunkInputsJoin DEF n
  <2> HIDE DEF j
  <2>4. (k - 1) * n + j \in 1..Len(s) /\ chunk[j] = s[(k - 1) * n + j]
    BY <2>2, <2>3
  <2> QED
    BY <2>3, <2>4 DEF chunk, j
<1>5. ASSUME NEW k \in 1..m, NEW j PROVE j \in Int => (k - 1) * n + j - 1 = ((k - 1) * n + j) - 1
  <2>1. k \in Int /\ n \in Int
    BY <1>1
  <2>2. (k - 1) * n \in Int
    BY <2>1
  <2> QED
    BY <2>2
<1>6. ASSUME NEW k \in 1..m, NEW i \in 1..n
      PROVE  \E p \in 1..Len(s) : Pieces(pp, chunks[k], k - 1)[i] = SectorInputs(pp, s[p], p - 1)
  <2> DEFINE j == Clip(chunks[k], i)
             p == (k - 1) * n + j
  <2>1. j \in Int
    BY <1>4
  <2>2. p \in 1..Len(s) /\ Pieces(pp, chunks[k], k - 1)[i] = SectorInputs(pp, s[p], (k - 1) * n + j - 1)
    BY <1>4
  <2>3. (k - 1) * n + j - 1 = p - 1
    BY <1>5, <2>1
  <2> HIDE DEF p, j
  <2>4. Pieces(pp, chunks[k], k - 1)[i] = SectorInputs(pp, s[p], p - 1)
    BY <2>2, <2>3
  <2> QED
    BY <2>2, <2>4
<1>7. ASSUME NEW p \in 1..Len(s)
      PROVE  \E k \in 1..m : \E i \in 1..n : Pieces(pp, chunks[k], k - 1)[i] = SectorInputs(pp, s[p], p - 1)
  <2>1. HasPlace(s, n, chunks, m, p)
    BY <1>1, <1>2, PlaceIn
  <2>2. PICK k \in 1..m : \E i \in 1..Len(chunks[k]) : p = (k - 1) * n + i /\ i \in 1..n
    BY <2>1 DEF HasPlace
  <2>3. PICK i \in 1..Len(chunks[k]) : p = (k - 1) * n + i /\ i \in 1..n
    BY <2>2
  <2>4. Clip(chunks[k], i) = i
    BY <2>3 DEF Clip
  <2>5. Pieces(pp, chunks[k], k - 1)[i] = SectorInputs(pp, s[p], (k - 1) * n + i - 1)
    BY <1>4, <2>3, <2>4
  <2>6. (k - 1) * n + i - 1 = p - 1
    <3>1. i \in Int
      BY <2>3
    <3> QED
      BY <1>5, <2>3, <3>1
  <2>7. Pieces(pp, chunks[k], k - 1)[i] = SectorInputs(pp, s[p], p - 1)
    BY <2>5, <2>6
  <2> QED
    BY <2>3, <2>7
<1> QED
  BY <1>3, <1>6, <1>7 DEF m, n

\* What is asked of the sectors of a list: their commitments and their leaves.
AsksOf(pp, s, p, x) == x = s[p].comm_r \/ \E n \in 1..pp.challenges : x = LeavesOf(pp, s[p].id, p - 1)[n]
Asks(pp, s, x) == \E p \in 1..Len(s) : AsksOf(pp, s, p, x)
InInputs(pp, s, p, x) == \E j \in 1..PieceLen(pp) : x = SectorInputs(pp, s[p], p - 1)[j]

\* The inputs of one sector.
LEMMA SectorAsks ==
  ASSUME NEW pp, NEW s, Listed(pp, s), NEW p \in 1..Len(s), NEW x
  PROVE  InInputs(pp, s, p, x) <=> AsksOf(pp, s, p, x)
<1> DEFINE f == SectorInputs(pp, s[p], p - 1)
           c == pp.challenges
           leaf(n) == LeavesOf(pp, s[p].id, p - 1)[n]
<1>1. c \in Nat \ {0} /\ s \in Seq(Replica) /\ Counts(pp) /\ PieceLen(pp) = c + 1
  BY DEF Listed, Counts, PieceLen
<1>2. s[p] \in Replica /\ p - 1 \in Nat
  BY <1>1, ElementOfSeq
<1>3. f[1] = s[p].comm_r /\ \A n \in 1..c : f[n + 1] = leaf(n)
  BY <1>1, <1>2, SectorInputsType
<1> HIDE DEF f, c, leaf
<1>4. \A j \in 1..(c + 1) : j = 1 \/ \E n \in 1..c : j = n + 1
  <2> TAKE j \in 1..(c + 1)
  <2>1. CASE j # 1
    <3>1. j - 1 \in 1..c /\ j = (j - 1) + 1
      BY <1>1, <2>1
    <3> QED
      BY <3>1
  <2> QED
    BY <2>1
<1>5. 1 \in 1..(c + 1) /\ \A n \in 1..c : n + 1 \in 1..(c + 1)
  BY <1>1
<1>6. (\E j \in 1..(c + 1) : x = f[j]) <=> (x = s[p].comm_r \/ \E n \in 1..c : x = leaf(n))
  BY <1>3, <1>4, <1>5
<1> QED
  BY <1>1, <1>6 DEF f, leaf, c, InInputs, AsksOf

\* The proofs of a list ask for that and nothing else.
LEMMA AskedAre ==
  ASSUME NEW pp, NEW s, Listed(pp, s), NEW x
  PROVE  (\E k \in DOMAIN RightGroth(pp, s) : x \in Range(RightGroth(pp, s)[k].inputs)) <=> Asks(pp, s, x)
<1> DEFINE n == pp.sectors
           m == PartsOf(pp, s)
           c == PieceLen(pp)
           g == RightGroth(pp, s)
           flat(k) == ChunkInputs(pp, Chunk(pp, s, k), k - 1)
           piece(k) == Pieces(pp, Chunk(pp, s, k), k - 1)
           inputs(p) == SectorInputs(pp, s[p], p - 1)
<1>1. n \in Nat \ {0} /\ c \in Nat \ {0} /\ Counts(pp)
  BY DEF Listed, Counts, PieceLen
<1>2. DOMAIN g = 1..m /\ \A k \in 1..m : g[k].inputs = flat(k)
  <2>1. DOMAIN g = 1..m /\ \A k \in 1..m : g[k] = RightProofOf(pp, Chunk(pp, s, k), k - 1)
    BY RightGrothType
  <2>2. \A k \in 1..m : RightProofOf(pp, Chunk(pp, s, k), k - 1) = [sat |-> TRUE, inputs |-> flat(k)]
    BY DEF RightProofOf
  <2> HIDE DEF flat, m, g
  <2>3. \A k \in 1..m : g[k] = [sat |-> TRUE, inputs |-> flat(k)]
    BY <2>1, <2>2, Zenon
  <2> QED
    BY <2>1, <2>3
<1>3. \A k \in 1..m : JoinOf(Leaf, flat(k), piece(k), n, c)
  <2> TAKE k \in 1..m
  <2>1. Partition(pp, Chunk(pp, s, k)) /\ k - 1 \in Nat
    BY ChunkIs
  <2>2. Chunk(pp, s, k) \in Seq(Replica) /\ Chunk(pp, s, k) # <<>>
    BY <2>1 DEF Partition
  <2> QED
    BY <1>1, <2>1, <2>2, ChunkInputsJoin
<1>4. /\ \A k \in 1..m : \A i \in 1..n : \E p \in 1..Len(s) : piece(k)[i] = inputs(p)
      /\ \A p \in 1..Len(s) : \E k \in 1..m : \E i \in 1..n : piece(k)[i] = inputs(p)
  BY PiecesOfList
<1> HIDE DEF n, c, m, g, flat, piece, inputs
<1>5. \A k \in 1..m : x \in Range(g[k].inputs) <=> \E i \in 1..n : \E j \in 1..c : x = piece(k)[i][j]
  <2> TAKE k \in 1..m
  <2>1. x \in Range(flat(k)) <=> \E i \in 1..n : \E j \in 1..c : x = piece(k)[i][j]
    <3> DEFINE a == flat(k)
               b == piece(k)
    <3>1. JoinOf(Leaf, a, b, n, c)
      BY <1>3
    <3> HIDE DEF a, b
    <3>2. x \in Range(a) <=> InSome(b, n, c, x)
      BY <1>1, <3>1, JoinRange
    <3> QED
      BY <3>2 DEF InSome, a, b
  <2> QED
    BY <1>2, <2>1
<1>6. (\E k \in DOMAIN g : x \in Range(g[k].inputs)) <=> \E p \in 1..Len(s) : \E j \in 1..c : x = inputs(p)[j]
  <2>1. ASSUME NEW k \in 1..m, x \in Range(g[k].inputs) PROVE \E p \in 1..Len(s) : \E j \in 1..c : x = inputs(p)[j]
    <3>1. PICK i \in 1..n : \E j \in 1..c : x = piece(k)[i][j]
      BY <1>5, <2>1
    <3>2. PICK p \in 1..Len(s) : piece(k)[i] = inputs(p)
      BY <1>4
    <3> QED
      BY <3>1, <3>2
  <2>2. ASSUME NEW p \in 1..Len(s), \E j \in 1..c : x = inputs(p)[j] PROVE \E k \in 1..m : x \in Range(g[k].inputs)
    <3>1. PICK k \in 1..m : \E i \in 1..n : piece(k)[i] = inputs(p)
      BY <1>4
    <3>2. PICK i \in 1..n : piece(k)[i] = inputs(p)
      BY <3>1
    <3> QED
      BY <1>5, <2>2, <3>2
  <2> QED
    BY <1>2, <2>1, <2>2
<1>7. \A p \in 1..Len(s) : (\E j \in 1..c : x = inputs(p)[j]) <=> AsksOf(pp, s, p, x)
  <2> TAKE p \in 1..Len(s)
  <2>1. InInputs(pp, s, p, x) <=> AsksOf(pp, s, p, x)
    BY SectorAsks
  <2> QED
    BY <2>1 DEF inputs, c, InInputs
<1> QED
  BY <1>6, <1>7 DEF Asks, g

\* The commitment of each sector is among the inputs.
LEMMA FirstInput ==
  ASSUME NEW pp, NEW chunk, Partition(pp, chunk), NEW k \in Nat, NEW i \in 1..Len(chunk)
  PROVE  ChunkInputs(pp, chunk, k)[(i - 1) * PieceLen(pp) + 1] = chunk[i].comm_r
<1> DEFINE n == pp.sectors
           c == PieceLen(pp)
           place == k * n + Clip(chunk, i) - 1
<1>1. n \in Nat \ {0} /\ chunk \in Seq(Replica) /\ chunk # <<>> /\ Len(chunk) <= n /\ Counts(pp) /\ c \in Nat \ {0}
  BY DEF Partition, Counts, PieceLen
<1>2. i \in 1..n /\ 1 \in 1..c
  BY <1>1
<1>3. JoinOf(Leaf, ChunkInputs(pp, chunk, k), Pieces(pp, chunk, k), n, c)
  BY <1>1, ChunkInputsJoin
<1>4. /\ chunk[Clip(chunk, i)] \in Replica /\ place \in Nat
      /\ Pieces(pp, chunk, k)[i] = SectorInputs(pp, chunk[Clip(chunk, i)], place)
  BY <1>1, <1>2, ChunkInputsJoin
<1>5. Clip(chunk, i) = i
  BY DEF Clip
<1> HIDE DEF n, c, place
<1>6. ChunkInputs(pp, chunk, k)[(i - 1) * c + 1] = Pieces(pp, chunk, k)[i][1]
  BY <1>2, <1>3 DEF JoinOf
<1>7. chunk[i] \in Replica /\ Pieces(pp, chunk, k)[i] = SectorInputs(pp, chunk[i], place)
  BY <1>4, <1>5
<1>8. SectorInputs(pp, chunk[i], place)[1] = chunk[i].comm_r
  <2> DEFINE r == chunk[i]
  <2>1. r \in Replica /\ place \in Nat /\ Counts(pp)
    BY <1>1, <1>4, <1>7
  <2> HIDE DEF r
  <2>2. SectorInputs(pp, r, place)[1] = r.comm_r
    BY <2>1, SectorInputsType
  <2> QED
    BY <2>2 DEF r
<1> QED
  BY <1>6, <1>7, <1>8 DEF c

Accepts(pp, groth, t) == \A k \in DOMAIN groth : groth[k].sat /\ groth[k].inputs = PostPublicInputs(pp, t, k - 1)
SameIds(s, t) == Len(s) = Len(t) /\ \A p \in 1..Len(s) : s[p].id = t[p].id
SameComms(s, t) == \A p \in 1..Len(s) : s[p].comm_r = t[p].comm_r

\* The pieces of two lists that differ in commitments at most.
LEMMA TwoLists ==
  ASSUME NEW pp, NEW s, Listed(pp, s), NEW t, Listed(pp, t), SameIds(s, t), NEW k \in 1..PartsOf(pp, s)
  PROVE  /\ PartsOf(pp, t) = PartsOf(pp, s) /\ Len(Chunk(pp, s, k)) = Len(Chunk(pp, t, k))
         /\ \A i \in 1..Len(Chunk(pp, s, k)) :
              /\ (k - 1) * pp.sectors + i \in 1..Len(s)
              /\ Chunk(pp, s, k)[i] = s[(k - 1) * pp.sectors + i] /\ Chunk(pp, t, k)[i] = t[(k - 1) * pp.sectors + i]
<1> DEFINE n == pp.sectors
           m == PartsOf(pp, s)
<1>1. Len(s) = Len(t)
  BY DEF SameIds
<1>2. PartsOf(pp, t) = m
  BY <1>1 DEF PartsOf
<1>3. CutInto(Replica, s, n, SectorChunks(s, n), m)
  BY ChunkIs
<1>4. CutInto(Replica, t, n, SectorChunks(t, n), m)
  BY <1>2, ChunkIs
<1> HIDE DEF n, m
<1>5. /\ Len(SectorChunks(s, n)[k]) = IF k < m THEN n ELSE Len(s) - (m - 1) * n
      /\ \A i \in 1..Len(SectorChunks(s, n)[k]) : (k - 1) * n + i \in 1..Len(s) /\ SectorChunks(s, n)[k][i] = s[(k - 1) * n + i]
  BY <1>3 DEF CutInto, m
<1>6. /\ Len(SectorChunks(t, n)[k]) = IF k < m THEN n ELSE Len(s) - (m - 1) * n
      /\ \A i \in 1..Len(SectorChunks(t, n)[k]) : SectorChunks(t, n)[k][i] = t[(k - 1) * n + i]
  BY <1>1, <1>4 DEF CutInto, m
<1>7. Len(SectorChunks(s, n)[k]) = Len(SectorChunks(t, n)[k])
  BY <1>5, <1>6
<1> QED
  BY <1>2, <1>5, <1>6, <1>7 DEF Chunk, n, m

\* The proofs of a list are accepted for exactly the commitments they were made for.
LEMMA GrothAccepted ==
  ASSUME NEW pp, NEW s, Listed(pp, s), NEW t, Listed(pp, t), SameIds(s, t)
  PROVE  Accepts(pp, RightGroth(pp, s), t) <=> SameComms(s, t)
<1> DEFINE n == pp.sectors
           m == PartsOf(pp, s)
           g == RightGroth(pp, s)
           inS(k) == ChunkInputs(pp, Chunk(pp, s, k), k - 1)
           inT(k) == ChunkInputs(pp, Chunk(pp, t, k), k - 1)
<1>1. n \in Nat \ {0} /\ s \in Seq(Replica) /\ Len(s) = Len(t)
  BY DEF Listed, Counts, SameIds
<1>2. /\ m \in Nat \ {0} /\ CutInto(Replica, s, n, SectorChunks(s, n), m)
      /\ \A k \in 1..m : Partition(pp, Chunk(pp, s, k)) /\ k - 1 \in Nat
  BY ChunkIs
<1>3. PartsOf(pp, t) = m /\ \A k \in 1..m : Partition(pp, Chunk(pp, t, k))
  <2>1. PartsOf(pp, t) = m
    BY <1>1 DEF PartsOf
  <2>2. \A k \in 1..PartsOf(pp, t) : Partition(pp, Chunk(pp, t, k))
    BY ChunkIs
  <2> QED
    BY <2>1, <2>2
<1>4. DOMAIN g = 1..m /\ \A k \in 1..m : g[k] = RightProofOf(pp, Chunk(pp, s, k), k - 1)
  BY RightGrothType
<1>5. \A k \in 1..m : RightProofOf(pp, Chunk(pp, s, k), k - 1) = [sat |-> TRUE, inputs |-> inS(k)]
  BY DEF RightProofOf
<1>6. \A k \in 1..m : PostPublicInputs(pp, t, k - 1) = inT(k)
  BY <1>3, ExpectedInputs
<1>7. \A k \in 1..m : Len(Chunk(pp, s, k)) = Len(Chunk(pp, t, k))
  BY TwoLists
<1>8. \A k \in 1..m : \A i \in 1..Len(Chunk(pp, s, k)) :
        /\ (k - 1) * n + i \in 1..Len(s)
        /\ Chunk(pp, s, k)[i] = s[(k - 1) * n + i] /\ Chunk(pp, t, k)[i] = t[(k - 1) * n + i]
  BY TwoLists
<1> HIDE DEF n, m, g, inS, inT
<1>9. \A k \in 1..m : g[k].sat /\ g[k].inputs = inS(k)
  <2>1. \A k \in 1..m : g[k] = [sat |-> TRUE, inputs |-> inS(k)]
    BY <1>4, <1>5, Zenon
  <2> TAKE k \in 1..m
  <2>2. g[k] = [sat |-> TRUE, inputs |-> inS(k)]
    BY <2>1
  <2>3. g[k].sat = TRUE /\ g[k].inputs = inS(k)
    BY <2>2
  <2> QED
    BY <2>3
<1>10. Accepts(pp, g, t) <=> \A k \in 1..m : inS(k) = inT(k)
  BY <1>4, <1>6, <1>9 DEF Accepts
<1>11. ASSUME \A k \in 1..m : inS(k) = inT(k), NEW p \in 1..Len(s) PROVE s[p].comm_r = t[p].comm_r
  <2>1. HasPlace(s, n, SectorChunks(s, n), m, p)
    BY <1>1, <1>2, PlaceIn
  <2>2. PICK k \in 1..m : \E i \in 1..Len(Chunk(pp, s, k)) : p = (k - 1) * n + i
    BY <2>1 DEF HasPlace, Chunk, n
  <2>3. PICK i \in 1..Len(Chunk(pp, s, k)) : p = (k - 1) * n + i
    BY <2>2
  <2>4. Chunk(pp, s, k)[i] = s[p] /\ Chunk(pp, t, k)[i] = t[p]
    BY <1>8, <2>3
  <2>5. i \in 1..Len(Chunk(pp, t, k)) /\ k - 1 \in Nat
    BY <1>2, <1>7
  <2> DEFINE x == (i - 1) * PieceLen(pp) + 1
  <2>6. ChunkInputs(pp, Chunk(pp, s, k), k - 1)[x] = s[p].comm_r
    BY <1>2, <2>4, <2>5, FirstInput
  <2>7. ChunkInputs(pp, Chunk(pp, t, k), k - 1)[x] = t[p].comm_r
    BY <1>3, <2>4, <2>5, FirstInput
  <2>8. ChunkInputs(pp, Chunk(pp, s, k), k - 1) = ChunkInputs(pp, Chunk(pp, t, k), k - 1)
    BY <1>11 DEF inS, inT
  <2> QED
    BY <2>6, <2>7, <2>8
<1>12. ASSUME SameComms(s, t), NEW k \in 1..m PROVE inS(k) = inT(k)
  <2> DEFINE a == Chunk(pp, s, k)
             b == Chunk(pp, t, k)
  <2>1. Len(a) = Len(b)
    BY <1>7
  <2>2. \A i \in 1..Len(a) : a[i].comm_r = b[i].comm_r /\ a[i].id = b[i].id
    BY <1>8, <1>12 DEF SameComms, SameIds
  <2>3. a \in Seq(Replica) /\ a # <<>>
    BY <1>2 DEF Partition
  <2> HIDE DEF a, b
  <2>4. \A i \in 1..n : SectorInputs(pp, a[Clip(a, i)], (k - 1) * n + Clip(a, i) - 1) = SectorInputs(pp, b[Clip(b, i)], (k - 1) * n + Clip(b, i) - 1)
    <3> TAKE i \in 1..n
    <3> DEFINE j == Clip(a, i)
    <3>1. i \in Nat \ {0}
      BY <1>1
    <3>2. j \in 1..Len(a)
      BY <2>3, <3>1, Clipped
    <3>3. Clip(b, i) = j
      BY <2>1 DEF Clip
    <3> HIDE DEF j
    <3>4. a[j].comm_r = b[j].comm_r /\ a[j].id = b[j].id
      BY <2>2, <3>2
    <3>5. SectorInputs(pp, a[j], (k - 1) * n + j - 1) = SectorInputs(pp, b[j], (k - 1) * n + j - 1)
      BY <3>4 DEF SectorInputs
    <3> QED
      BY <3>3, <3>5 DEF j
  <2>5. Pieces(pp, a, k - 1) = Pieces(pp, b, k - 1)
    BY <2>4, Zenon DEF Pieces, n
  <2> QED
    BY <2>5 DEF ChunkInputs, inS, inT, a, b
<1>13. Accepts(pp, g, t) <=> SameComms(s, t)
  BY <1>10, <1>11, <1>12 DEF SameComms
<1> QED
  BY <1>13 DEF g

\* The verdict on a proof.
LEMMA Verdict ==
  ASSUME NEW pp, NEW s, Listed(pp, s), NEW t, Listed(pp, t), SameIds(s, t), NEW made, Proved(pp, s, made),
         NEW minimum, SatisfiesRequirements(pp, minimum, PartsOf(pp, s))
  PROVE  VerifyProofs(pp, PartsOf(pp, s), minimum, t, made.groth) <=> Faulty(pp, s) = {} /\ SameComms(s, t)
<1>1. PartsOf(pp, s) \in Nat \ {0}
  BY ChunkIs
<1>2. CASE Faulty(pp, s) = {}
  <2>1. made.groth = RightGroth(pp, s) /\ Len(RightGroth(pp, s)) = PartsOf(pp, s)
    BY <1>2, RightGrothType DEF Proved
  <2>2. Accepts(pp, RightGroth(pp, s), t) <=> SameComms(s, t)
    BY GrothAccepted
  <2>3. VerifyProofs(pp, PartsOf(pp, s), minimum, t, made.groth) <=> Accepts(pp, made.groth, t)
    BY <2>1 DEF VerifyProofs, Accepts
  <2> QED
    BY <1>2, <2>1, <2>2, <2>3
<1>3. CASE Faulty(pp, s) # {}
  <2>1. made.groth = <<>>
    BY <1>3 DEF Proved
  <2>2. Len(made.groth) # PartsOf(pp, s)
    BY <1>1, <2>1
  <2> QED
    BY <1>3, <2>2 DEF VerifyProofs
<1> QED
  BY <1>2, <1>3

----------------------------------------------------------------------------
(* The calls                                                                *)

\* A list of sectors that may be proved: named once each, a winner alone.
Posted(cfg, s) ==
  /\ cfg \in PostConfigs /\ ~(cfg.typ = "winning" /\ cfg.api = "V1_2")
  /\ s \in Seq(Replica) /\ s # <<>> /\ Distinct(s) /\ \A i \in 1..Len(s) : s[i].comm_r = CommR(s[i].id)
  /\ cfg.typ = "winning" => Len(s) = 1

\* What the configurations say.
LEMMA PostedIs ==
  ASSUME NEW cfg, NEW s, Posted(cfg, s)
  PROVE  /\ Counts(cfg) /\ Listed(cfg, s) /\ cfg.typ \in {"window", "winning"} /\ Distinct(s)
         /\ cfg.typ = "winning" => Winning(cfg, s)
         /\ s \in Seq(Replica) /\ DOMAIN s = 1..Len(s) /\ Len(s) \in Nat \ {0}
         /\ \A i \in 1..Len(s) : s[i] \in Replica /\ s[i].id \in Nat /\ s[i].comm_r = CommR(s[i].id)
<1>1. cfg \in [typ : {"window", "winning"}, sectors : Nat \ {0}, challenges : Nat \ {0}, api : {"V1_0", "V1_1", "V1_2"}]
  BY PostAssumption DEF Posted, PostAssumption
<1>2. cfg.typ = "winning" => cfg.sectors = 1
  BY PostAssumption DEF Posted, PostAssumption
<1>3. Counts(cfg) /\ cfg.typ \in {"window", "winning"}
  BY <1>1 DEF Counts
<1>4. /\ s \in Seq(Replica) /\ s # <<>> /\ Distinct(s) /\ \A i \in 1..Len(s) : s[i].comm_r = CommR(s[i].id)
      /\ ~(cfg.typ = "winning" /\ cfg.api = "V1_2") /\ (cfg.typ = "winning" => Len(s) = 1)
  BY DEF Posted
<1>5. DOMAIN s = 1..Len(s) /\ Len(s) \in Nat \ {0}
  BY <1>4
<1>6. \A i \in 1..Len(s) : s[i] \in Replica /\ s[i].id \in Nat
  <2> TAKE i \in 1..Len(s)
  <2>1. s[i] \in Replica
    BY <1>4, ElementOfSeq
  <2> QED
    BY <2>1, ReplicaType
<1> QED
  BY <1>2, <1>3, <1>4, <1>5, <1>6 DEF Listed, Winning

\* The leaves a sector is challenged for, as a set and as a list.
LEMMA LeafSet ==
  ASSUME NEW cfg, Counts(cfg), NEW id \in Nat, NEW i \in Nat \ {0}, NEW x
  PROVE  x \in ChallengedLeaves(cfg, id, i) <=> \E n \in 1..cfg.challenges : x = LeavesOf(cfg, id, i - 1)[n]
<1> DEFINE c == cfg.challenges
           leaf(n) == <<id, GetChallengeIndex(cfg.api, i - 1, c, n)>>
<1>1. c \in Nat \ {0} /\ i - 1 \in Nat
  BY DEF Counts
<1>2. \A n \in 1..c : LeavesOf(cfg, id, i - 1)[n] = leaf(n - 1)
  BY <1>1, LeavesType
<1>3. ChallengedLeaves(cfg, id, i) = {leaf(n) : n \in 0..(c - 1)}
  BY DEF ChallengedLeaves
<1> HIDE DEF c, leaf
<1>4. \A n \in 1..c : n - 1 \in 0..(c - 1)
  BY <1>1
<1>5. \A n \in 0..(c - 1) : n + 1 \in 1..c /\ (n + 1) - 1 = n
  BY <1>1
<1>6. ASSUME NEW n \in 0..(c - 1), x = leaf(n) PROVE \E e \in 1..c : x = LeavesOf(cfg, id, i - 1)[e]
  <2>1. LeavesOf(cfg, id, i - 1)[n + 1] = leaf(n) /\ n + 1 \in 1..c
    BY <1>2, <1>5
  <2> QED
    BY <1>6, <2>1
<1>7. ASSUME NEW n \in 1..c, x = LeavesOf(cfg, id, i - 1)[n] PROVE x \in {leaf(e) : e \in 0..(c - 1)}
  BY <1>2, <1>4, <1>7
<1> QED
  BY <1>3, <1>6, <1>7 DEF c

\* A sector is proved when none of the leaves it is challenged for is bad.
LEMMA ProvesLeaves ==
  ASSUME NEW cfg, Counts(cfg), NEW r, r.id \in Nat, NEW i \in Nat \ {0}
  PROVE  CanProve(r, LeavesOf(cfg, r.id, i - 1)) <=> r.bad \cap ChallengedLeaves(cfg, r.id, i) = {}
<1> DEFINE f == LeavesOf(cfg, r.id, i - 1)
<1>1. i - 1 \in Nat
  OBVIOUS
<1>2. DOMAIN f = 1..cfg.challenges
  BY <1>1, LeavesType
<1>3. \A x : x \in ChallengedLeaves(cfg, r.id, i) <=> \E n \in 1..cfg.challenges : x = f[n]
  BY LeafSet
<1> HIDE DEF f
<1>4. CanProve(r, f) <=> \A n \in 1..cfg.challenges : f[n] \notin r.bad
  BY <1>2 DEF CanProve
<1>5. r.bad \cap ChallengedLeaves(cfg, r.id, i) = {} <=> \A x \in r.bad : x \notin ChallengedLeaves(cfg, r.id, i)
  OBVIOUS
<1> QED
  BY <1>3, <1>4, <1>5 DEF f

\* What the property says of one route.
AskedOfAll(cfg, s) == UNION {ChallengedLeaves(cfg, s[i].id, i) \cup {CommR(s[i].id)} : i \in DOMAIN s}
AskedBy(groth) == UNION {Range(groth[k].inputs) : k \in DOMAIN groth}
RouteRight(cfg, s, other, made) ==
  /\ made.ok <=> FaultyReplicas(cfg, s) = {}
  /\ VerifyPost(cfg, PublicOf(s, other), made.groth) <=> FaultyReplicas(cfg, s) = {} /\ other = 0
  /\ made.ok => AskedBy(made.groth) = AskedOfAll(cfg, s)

\* The list as the verifier knows it.
LEMMA PublicIs ==
  ASSUME NEW cfg, NEW s, Posted(cfg, s), NEW other \in 0..Len(s)
  PROVE  LET t == PublicOf(s, other)
         IN /\ t \in Seq(Replica) /\ Len(t) = Len(s) /\ SameIds(s, t) /\ Listed(cfg, t)
            /\ SameComms(s, t) <=> other = 0
<1> DEFINE t == PublicOf(s, other)
           at(i) == [s[i] EXCEPT !.comm_r = IF i = other THEN CommR(-1) ELSE @]
<1>1. /\ Counts(cfg) /\ s \in Seq(Replica) /\ DOMAIN s = 1..Len(s) /\ Len(s) \in Nat \ {0}
      /\ \A i \in 1..Len(s) : s[i] \in Replica /\ s[i].id \in Nat /\ s[i].comm_r = CommR(s[i].id)
  BY PostedIs
<1>2. t = [i \in 1..Len(s) |-> at(i)]
  BY <1>1 DEF PublicOf
<1>3. \A i \in 1..Len(s) : /\ at(i) \in Replica /\ at(i).id = s[i].id
                           /\ at(i).comm_r = IF i = other THEN CommR(-1) ELSE s[i].comm_r
  <2> TAKE i \in 1..Len(s)
  <2>1. CommR(-1) \in Leaf
    BY DEF CommR, Leaf
  <2>2. s[i] \in [id : Nat, comm_r : Leaf, bad : SUBSET Leaf]
    BY <1>1 DEF Replica
  <2> DEFINE r == s[i]
             x == CommR(-1)
  <2> HIDE DEF r, x
  <2>3. at(i) = [r EXCEPT !.comm_r = IF i = other THEN x ELSE r.comm_r]
    BY DEF r, x
  <2> HIDE DEF at
  <2> QED
    BY <2>1, <2>2, <2>3 DEF Replica, r, x
<1> HIDE DEF t, at
<1>4. t \in Seq(Replica)
  BY <1>1, <1>2, <1>3, IsASeq
<1>5. Len(t) = Len(s) /\ \A i \in 1..Len(s) : t[i] = at(i)
  BY <1>1, <1>2, <1>4, LenProperties
<1>6. SameIds(s, t)
  BY <1>3, <1>5 DEF SameIds
<1>7. Listed(cfg, t)
  <2>1. t # <<>>
    BY <1>1, <1>5
  <2> QED
    BY <1>1, <1>4, <2>1 DEF Listed
<1>8. ASSUME other = 0 PROVE SameComms(s, t)
  <2>1. \A i \in 1..Len(s) : i # other
    BY <1>8
  <2> QED
    BY <1>3, <1>5, <1>8, <2>1 DEF SameComms
<1>9. ASSUME other # 0 PROVE ~SameComms(s, t)
  <2>1. other \in 1..Len(s)
    BY <1>1, <1>9
  <2>2. t[other].comm_r = CommR(-1)
    BY <1>3, <1>5, <2>1
  <2>3. s[other].comm_r = CommR(s[other].id) /\ s[other].id \in Nat
    BY <1>1, <2>1
  <2>4. CommR(-1) # CommR(s[other].id)
    BY <2>3 DEF CommR
  <2> QED
    BY <2>1, <2>2, <2>3, <2>4 DEF SameComms
<1> QED
  BY <1>4, <1>5, <1>6, <1>7, <1>8, <1>9 DEF t

\* A route to a Window proof.
LEMMA WindowRoute ==
  ASSUME NEW cfg, NEW s, Posted(cfg, s), cfg.typ = "window", NEW other \in 0..Len(s),
         NEW made, Proved(WindowPostSetupParams(cfg), s, made)
  PROVE  /\ RouteRight(cfg, s, other, made)
         /\ Faulty(WindowPostSetupParams(cfg), s) = FaultyReplicas(cfg, s)
<1> DEFINE pp == WindowPostSetupParams(cfg)
           t == PublicOf(s, other)
           m == PartsOf(pp, s)
           c == cfg.challenges
           n == cfg.sectors
<1>1. /\ Counts(cfg) /\ Listed(cfg, s) /\ DOMAIN s = 1..Len(s) /\ Len(s) \in Nat \ {0}
      /\ \A i \in 1..Len(s) : s[i] \in Replica /\ s[i].id \in Nat /\ s[i].comm_r = CommR(s[i].id)
  BY PostedIs
<1>2. /\ pp.sectors = n /\ pp.challenges = c /\ Listed(pp, s)
      /\ \A id, p : LeavesOf(pp, id, p) = LeavesOf(cfg, id, p)
  BY <1>1, WindowParams
<1>3. /\ t \in Seq(Replica) /\ Len(t) = Len(s) /\ SameIds(s, t) /\ Listed(cfg, t)
      /\ SameComms(s, t) <=> other = 0
  BY PublicIs
<1>4. Listed(pp, t)
  BY <1>3, WindowParams
<1>5. c \in Nat \ {0} /\ n \in Nat \ {0}
  BY <1>1 DEF Counts
<1>6. GetPartitionsForWindowPost(Len(t), cfg) = m /\ m \in Nat \ {0}
  <2>1. GetPartitionsForWindowPost(Len(s), cfg) = PartsOf(cfg, s) /\ PartsOf(cfg, s) \in Nat \ {0}
    BY <1>1, WindowPartitions
  <2>2. PartsOf(cfg, s) = m
    BY <1>2 DEF PartsOf
  <2> QED
    BY <1>3, <2>1, <2>2
<1> HIDE DEF pp, t, m, c, n
<1>7. Faulty(pp, s) = FaultyReplicas(cfg, s)
  <2>1. \A i \in 1..Len(s) : CanProve(s[i], LeavesOf(pp, s[i].id, i - 1)) <=> s[i].bad \cap ChallengedLeaves(cfg, s[i].id, i) = {}
    <3> TAKE i \in 1..Len(s)
    <3> DEFINE r == s[i]
    <3>1. r.id \in Nat /\ i \in Nat \ {0}
      BY <1>1
    <3> HIDE DEF r
    <3>2. CanProve(r, LeavesOf(cfg, r.id, i - 1)) <=> r.bad \cap ChallengedLeaves(cfg, r.id, i) = {}
      BY <1>1, <3>1, ProvesLeaves
    <3> QED
      BY <1>2, <3>2 DEF r
  <2> QED
    BY <1>1, <2>1 DEF Faulty, FaultyReplicas
<1>8. SatisfiesRequirements(pp, c * n, m)
  <2> DEFINE a == n * c
             x == (m - 1) * a
  <2>1. a \in Nat /\ 1 \in Nat \ {0} /\ m \in Nat \ {0} /\ 1 <= m
    BY <1>5, <1>6
  <2>2. m * n * c = m * a /\ c * n = a
    BY <1>5, <1>6
  <2> HIDE DEF a
  <2>3. x \in Nat /\ m * a = x + a
    BY <2>1, Multiples
  <2> HIDE DEF x
  <2>4. m * a >= a
    BY <2>1, <2>3
  <2> QED
    BY <1>2, <2>2, <2>4 DEF SatisfiesRequirements
<1>9. VerifyPost(cfg, t, made.groth) <=> Faulty(pp, s) = {} /\ SameComms(s, t)
  <2>1. VerifyPost(cfg, t, made.groth) <=> VerifyProofs(pp, m, c * n, t, made.groth)
    BY <1>6 DEF VerifyPost, VerifyWindowPost, pp, c, n
  <2>2. VerifyProofs(pp, m, c * n, t, made.groth) <=> Faulty(pp, s) = {} /\ SameComms(s, t)
    BY <1>2, <1>3, <1>4, <1>8, Verdict DEF pp, m
  <2> QED
    BY <2>1, <2>2
<1>10. (made.ok <=> Faulty(pp, s) = {}) /\ (made.ok => made.groth = RightGroth(pp, s))
  BY DEF Proved, pp
<1>11. \A x : Asks(pp, s, x) <=> x \in AskedOfAll(cfg, s)
  <2> TAKE x
  <2>1. \A i \in 1..Len(s) : AsksOf(pp, s, i, x) <=> x \in ChallengedLeaves(cfg, s[i].id, i) \cup {CommR(s[i].id)}
    <3> TAKE i \in 1..Len(s)
    <3> DEFINE id == s[i].id
    <3>1. id \in Nat /\ i \in Nat \ {0} /\ s[i].comm_r = CommR(id)
      BY <1>1
    <3>2. AsksOf(pp, s, i, x) <=> x = s[i].comm_r \/ \E e \in 1..c : x = LeavesOf(cfg, id, i - 1)[e]
      BY <1>2 DEF AsksOf
    <3> HIDE DEF id
    <3>3. x \in ChallengedLeaves(cfg, id, i) <=> \E e \in 1..c : x = LeavesOf(cfg, id, i - 1)[e]
      BY <1>1, <3>1, LeafSet DEF c
    <3>4. AsksOf(pp, s, i, x) <=> x \in ChallengedLeaves(cfg, id, i) \cup {CommR(id)}
      BY <3>1, <3>2, <3>3
    <3> QED
      BY <3>4 DEF id
  <2> QED
    BY <1>1, <2>1 DEF Asks, AskedOfAll
<1>12. AskedBy(RightGroth(pp, s)) = AskedOfAll(cfg, s)
  <2> DEFINE g == RightGroth(pp, s)
  <2>1. \A x : (\E k \in DOMAIN g : x \in Range(g[k].inputs)) <=> Asks(pp, s, x)
    BY <1>2, AskedAre
  <2> HIDE DEF g
  <2>2. \A x : x \in AskedBy(g) <=> \E k \in DOMAIN g : x \in Range(g[k].inputs)
    BY DEF AskedBy
  <2>3. \A x : x \in AskedBy(g) <=> x \in AskedOfAll(cfg, s)
    BY <1>11, <2>1, <2>2
  <2>4. AskedBy(g) = AskedOfAll(cfg, s)
    BY <2>3
  <2> QED
    BY <2>4 DEF g
<1>13. RouteRight(cfg, s, other, made)
  BY <1>3, <1>7, <1>9, <1>10, <1>12 DEF RouteRight, t
<1> QED
  BY <1>7, <1>13 DEF pp

\* The identifiers of the sectors a direct route reports.
FaultIds(pp, s) == {s[p].id : p \in Faulty(pp, s)}

\* A route to a Winning proof.
LEMMA WinningRoute ==
  ASSUME NEW cfg, NEW s, Posted(cfg, s), cfg.typ = "winning", NEW other \in 0..Len(s),
         NEW made, Proved(WinningPostSetupParams(cfg), Repeated(cfg, s), made)
  PROVE  /\ RouteRight(cfg, s, other, made)
         /\ FaultIds(WinningPostSetupParams(cfg), Repeated(cfg, s)) = {s[i].id : i \in FaultyReplicas(cfg, s)}
<1> DEFINE pp == WinningPostSetupParams(cfg)
           t == Repeated(cfg, s)
           public == PublicOf(s, other)
           u == Repeated(cfg, public)
           c == cfg.challenges
           r == s[1]
           bad == {i \in 1..c : <<r.id, i - 1>> \in r.bad}
<1>1. /\ Counts(cfg) /\ Winning(cfg, s) /\ cfg.sectors = 1 /\ cfg.typ = "winning" /\ cfg.api # "V1_2" /\ Len(s) = 1 /\ DOMAIN s = 1..1
      /\ r.id \in Nat /\ r.comm_r = CommR(r.id)
  <2>1. /\ Counts(cfg) /\ Winning(cfg, s) /\ DOMAIN s = 1..Len(s) /\ Len(s) \in Nat \ {0}
        /\ \A i \in 1..Len(s) : s[i].id \in Nat /\ s[i].comm_r = CommR(s[i].id)
    BY PostedIs
  <2>2. Len(s) = 1 /\ cfg.sectors = 1 /\ cfg.typ = "winning" /\ cfg.api # "V1_2"
    BY <2>1 DEF Winning
  <2>3. 1 \in 1..Len(s)
    BY <2>1
  <2> QED
    BY <2>1, <2>2, <2>3
<1>2. pp.sectors = c /\ pp.challenges = 1 /\ pp.api = cfg.api /\ c \in Nat \ {0}
  BY <1>1, WinningParams DEF Counts
<1>3. /\ Len(t) = c /\ Listed(pp, t) /\ PartsOf(pp, t) = 1 /\ t \in Seq(Replica)
      /\ \A i \in 1..c : t[i] = r
  BY <1>1, RepeatedIs
<1>4. /\ public \in Seq(Replica) /\ Len(public) = 1 /\ SameIds(s, public)
      /\ SameComms(s, public) <=> other = 0
  BY <1>1, PublicIs
<1>5. Winning(cfg, public)
  BY <1>1, <1>4 DEF Winning
<1>6. Len(u) = c /\ Listed(pp, u) /\ \A i \in 1..c : u[i] = public[1]
  BY <1>5, RepeatedIs
<1> HIDE DEF pp, t, public, u, c, r
<1>7. SameIds(t, u) /\ (SameComms(t, u) <=> other = 0)
  <2>1. 1 \in 1..1 /\ 1 \in 1..c
    BY <1>2
  <2>2. public[1].id = r.id /\ (SameComms(s, public) <=> r.comm_r = public[1].comm_r)
    BY <1>1, <1>4, <2>1 DEF SameIds, SameComms, r
  <2>3. SameIds(t, u)
    BY <1>3, <1>6, <2>2 DEF SameIds
  <2>4. SameComms(t, u) <=> r.comm_r = public[1].comm_r
    BY <1>3, <1>6, <2>1 DEF SameComms
  <2> QED
    BY <1>4, <2>2, <2>3, <2>4
<1>8. \A i \in 1..c : LeavesOf(pp, r.id, i - 1) = <<<<r.id, i - 1>>>> /\ LeavesOf(cfg, r.id, 0)[i] = <<r.id, i - 1>>
  BY <1>1, WinningLeaves DEF pp, c
<1>9. \A x : x \in ChallengedLeaves(cfg, r.id, 1) <=> \E i \in 1..c : x = <<r.id, i - 1>>
  <2> TAKE x
  <2>1. 1 \in Nat \ {0} /\ 1 - 1 = 0
    OBVIOUS
  <2>2. x \in ChallengedLeaves(cfg, r.id, 1) <=> \E i \in 1..c : x = LeavesOf(cfg, r.id, 1 - 1)[i]
    BY <1>1, <2>1, LeafSet DEF c
  <2> QED
    BY <1>8, <2>1, <2>2
<1>10. DOMAIN t = 1..c
  BY <1>2, <1>3
<1>11. Faulty(pp, t) = bad
  <2>1. \A i \in 1..c : CanProve(t[i], LeavesOf(pp, t[i].id, i - 1)) <=> <<r.id, i - 1>> \notin r.bad
    <3> TAKE i \in 1..c
    <3> DEFINE x == <<r.id, i - 1>>
    <3>1. t[i] = r /\ LeavesOf(pp, r.id, i - 1) = <<x>>
      BY <1>3, <1>8
    <3> HIDE DEF x
    <3>2. CanProve(r, <<x>>) <=> x \notin r.bad
      BY DEF CanProve
    <3> QED
      BY <3>1, <3>2 DEF x
  <2> QED
    BY <1>10, <2>1 DEF Faulty
<1>12. FaultyReplicas(cfg, s) = IF bad = {} THEN {} ELSE {1}
  <2>1. FaultyReplicas(cfg, s) = {i \in 1..1 : s[i].bad \cap ChallengedLeaves(cfg, s[i].id, i) # {}}
    BY <1>1 DEF FaultyReplicas
  <2>2. \A i \in 1..1 : i = 1
    OBVIOUS
  <2>3. r.bad \cap ChallengedLeaves(cfg, r.id, 1) # {} <=> bad # {}
    BY <1>9
  <2>4. 1 \in FaultyReplicas(cfg, s) <=> bad # {}
    BY <2>1, <2>3 DEF r
  <2>5. FaultyReplicas(cfg, s) \subseteq {1}
    BY <2>1, <2>2
  <2> HIDE DEF bad
  <2> QED
    BY <2>4, <2>5
<1>13. {t[p].id : p \in Faulty(pp, t)} = {s[i].id : i \in FaultyReplicas(cfg, s)}
  <2>1. \A p \in bad : t[p].id = r.id
    BY <1>3
  <2> HIDE DEF bad
  <2>2. CASE bad = {}
    BY <1>11, <1>12, <2>2
  <2>3. CASE bad # {}
    <3>1. FaultyReplicas(cfg, s) = {1}
      BY <1>12, <2>3
    <3>2. {s[i].id : i \in {1}} = {r.id}
      BY DEF r
    <3>3. {t[p].id : p \in bad} = {r.id}
      BY <2>1, <2>3
    <3> QED
      BY <1>11, <3>1, <3>2, <3>3
  <2> QED
    BY <2>2, <2>3
<1>14. Faulty(pp, t) = {} <=> FaultyReplicas(cfg, s) = {}
  <2> HIDE DEF bad
  <2> QED
    BY <1>11, <1>12
<1> HIDE DEF bad
<1>15. SatisfiesRequirements(pp, cfg.challenges * cfg.sectors, PartsOf(pp, t))
  <2>1. cfg.challenges * cfg.sectors = c /\ 1 * c * 1 = c
    BY <1>1, <1>2 DEF c
  <2> QED
    BY <1>2, <1>3, <2>1 DEF SatisfiesRequirements
<1>16. VerifyPost(cfg, public, made.groth) <=> Faulty(pp, t) = {} /\ SameComms(t, u)
  <2>1. cfg.typ # "window" /\ Len(public) = cfg.sectors
    BY <1>1, <1>4
  <2>2. VerifyPost(cfg, public, made.groth)
          <=> VerifyProofs(pp, PartsOf(pp, t), cfg.challenges * cfg.sectors, u, made.groth)
    BY <1>3, <2>1 DEF VerifyPost, VerifyWinningPost, pp, u
  <2>3. Proved(pp, t, made)
    BY DEF pp, t
  <2>4. VerifyProofs(pp, PartsOf(pp, t), cfg.challenges * cfg.sectors, u, made.groth) <=> Faulty(pp, t) = {} /\ SameComms(t, u)
    BY <1>3, <1>6, <1>7, <1>15, <2>3, Verdict
  <2> QED
    BY <2>2, <2>4
<1>17. (made.ok <=> Faulty(pp, t) = {}) /\ (made.ok => made.groth = RightGroth(pp, t))
  BY DEF Proved, pp, t
<1>18. \A x : Asks(pp, t, x) <=> x \in AskedOfAll(cfg, s)
  <2> TAKE x
  <2>1. \A i \in 1..c : AsksOf(pp, t, i, x) <=> x = CommR(r.id) \/ x = <<r.id, i - 1>>
    <3> TAKE i \in 1..c
    <3> DEFINE y == <<r.id, i - 1>>
    <3>1. t[i] = r /\ LeavesOf(pp, r.id, i - 1) = <<y>>
      BY <1>3, <1>8
    <3> HIDE DEF y
    <3>2. (\E e \in 1..1 : x = <<y>>[e]) <=> x = y
      OBVIOUS
    <3>3. AsksOf(pp, t, i, x) <=> x = r.comm_r \/ \E e \in 1..1 : x = <<y>>[e]
      BY <1>2, <3>1 DEF AsksOf
    <3> QED
      BY <1>1, <3>2, <3>3 DEF y
  <2>2. Asks(pp, t, x) <=> x = CommR(r.id) \/ \E i \in 1..c : x = <<r.id, i - 1>>
    <3>1. 1 \in 1..c
      BY <1>2
    <3> QED
      BY <1>3, <2>1, <3>1 DEF Asks
  <2>3. AskedOfAll(cfg, s) = ChallengedLeaves(cfg, r.id, 1) \cup {CommR(r.id)}
    <3>1. \A i \in DOMAIN s : i = 1
      BY <1>1
    <3>2. 1 \in DOMAIN s
      BY <1>1
    <3> QED
      BY <3>1, <3>2 DEF AskedOfAll, r
  <2> QED
    BY <1>9, <2>2, <2>3
<1>19. AskedBy(RightGroth(pp, t)) = AskedOfAll(cfg, s)
  <2> DEFINE g == RightGroth(pp, t)
  <2>1. \A x : (\E k \in DOMAIN g : x \in Range(g[k].inputs)) <=> Asks(pp, t, x)
    BY <1>3, AskedAre
  <2> HIDE DEF g
  <2>2. \A x : x \in AskedBy(g) <=> \E k \in DOMAIN g : x \in Range(g[k].inputs)
    BY DEF AskedBy
  <2>3. \A x : x \in AskedBy(g) <=> x \in AskedOfAll(cfg, s)
    BY <1>18, <2>1, <2>2
  <2>4. AskedBy(g) = AskedOfAll(cfg, s)
    BY <2>3
  <2> QED
    BY <2>4 DEF g
<1>20. RouteRight(cfg, s, other, made)
  BY <1>7, <1>14, <1>16, <1>17, <1>19 DEF RouteRight, public
<1> QED
  BY <1>13, <1>20, Zenon DEF pp, t, FaultIds

FaultsNamed(cfg, s, made) == made.faults = Ascending({s[i].id : i \in FaultyReplicas(cfg, s)})

\* Every route is right, and the direct one names the faulty sectors.
LEMMA RoutesRight ==
  ASSUME NEW cfg, NEW s, Posted(cfg, s), NEW cpus \in Nat \ {0}, NEW other \in 0..Len(s),
         NEW r \in DOMAIN RoutesOf(cfg, s, cpus)
  PROVE  /\ RouteRight(cfg, s, other, RoutesOf(cfg, s, cpus)[r])
         /\ r = "direct" => FaultsNamed(cfg, s, RoutesOf(cfg, s, cpus)[r])
<1>1. Listed(cfg, s) /\ Distinct(s) /\ cfg.typ \in {"window", "winning"} /\ (cfg.typ = "winning" => Winning(cfg, s))
  BY PostedIs
<1>2. CASE cfg.typ = "window"
  <2> DEFINE pp == WindowPostSetupParams(cfg)
             a == GenerateWindowPost(cfg, s, cpus)
             b == GenerateWindowPostWithVanilla(cfg, s, cpus)
             c == GenerateSingleWindowPosts(cfg, s, cpus)
  <2>1. RoutesOf(cfg, s, cpus) = [direct |-> a, vanilla |-> b, single |-> c]
    BY <1>2 DEF RoutesOf
  <2>2. Proved(pp, s, a) /\ a.faults = Ascending({s[p].id : p \in Faulty(pp, s)})
    BY <1>1, WindowDirect
  <2>3. Proved(pp, s, b)
    BY <1>1, <1>2, WindowVanilla
  <2>4. Proved(pp, s, c)
    BY <1>1, <1>2, WindowSingle
  <2> HIDE DEF a, b, c
  <2>5. RouteRight(cfg, s, other, a) /\ RouteRight(cfg, s, other, b) /\ RouteRight(cfg, s, other, c)
    BY <1>2, <2>2, <2>3, <2>4, WindowRoute
  <2>6. Faulty(pp, s) = FaultyReplicas(cfg, s)
    BY <1>2, <2>2, WindowRoute
  <2>7. FaultsNamed(cfg, s, a)
    BY <2>2, <2>6 DEF FaultsNamed
  <2> DEFINE routes == [direct |-> a, vanilla |-> b, single |-> c]
  <2>8. r \in {"direct", "vanilla", "single"} /\ routes["direct"] = a /\ routes["vanilla"] = b /\ routes["single"] = c
    BY <2>1
  <2> HIDE DEF routes
  <2> QED
    BY <2>1, <2>5, <2>7, <2>8 DEF routes
<1>3. CASE cfg.typ = "winning"
  <2> DEFINE pp == WinningPostSetupParams(cfg)
             t == Repeated(cfg, s)
             a == GenerateWinningPost(cfg, s, cpus)
             b == GenerateWinningPostWithVanilla(cfg, s, cpus)
  <2>1. RoutesOf(cfg, s, cpus) = [direct |-> a, vanilla |-> b]
    BY <1>3 DEF RoutesOf
  <2>2. Proved(pp, t, a) /\ a.faults = Ascending({t[p].id : p \in Faulty(pp, t)})
    BY <1>1, <1>3, WinningDirect
  <2>3. Proved(pp, t, b)
    BY <1>1, <1>3, WinningVanilla
  <2> HIDE DEF a, b
  <2>4. RouteRight(cfg, s, other, a) /\ RouteRight(cfg, s, other, b)
    BY <1>3, <2>2, <2>3, WinningRoute
  <2>5. FaultIds(pp, t) = {s[i].id : i \in FaultyReplicas(cfg, s)}
    BY <1>3, <2>2, WinningRoute
  <2>6. FaultsNamed(cfg, s, a)
    BY <2>2, <2>5 DEF FaultsNamed, FaultIds
  <2> DEFINE routes == [direct |-> a, vanilla |-> b]
  <2>7. r \in {"direct", "vanilla"} /\ routes["direct"] = a /\ routes["vanilla"] = b
    BY <2>1
  <2> HIDE DEF routes
  <2> QED
    BY <2>1, <2>4, <2>6, <2>7 DEF routes
<1> QED
  BY <1>1, <1>2, <1>3

\* Winning proofs of API version 1.2.
LeftOut(cfg) == cfg.typ = "winning" /\ cfg.api = "V1_2"

\* The sectors a call is made for may be proved.
LEMMA ReplicasPosted ==
  ASSUME NEW cfg \in PostConfigs, ~LeftOut(cfg), NEW n \in 1..MaxReplicas, cfg.typ = "winning" => n = cfg.sectors,
         NEW damaged, NEW index \in LeafIndexes
  PROVE  Posted(cfg, ReplicasOf(cfg, n, damaged, index))
<1> DEFINE s == ReplicasOf(cfg, n, damaged, index)
           ids == IF cfg.typ = "window" THEN [i \in 1..n |-> i] ELSE GenerateWinningPostSectorChallenge(cfg, MaxReplicas, <<index>>)
           at(i) == [id |-> ids[i], comm_r |-> CommR(ids[i]), bad |-> IF i = damaged THEN {<<ids[i], index>>} ELSE {}]
<1>1. cfg.typ \in {"window", "winning"} /\ n \in Nat \ {0} /\ index \in Nat /\ MaxReplicas \in Nat \ {0}
  BY PostAssumption DEF PostAssumption
<1>2. cfg.typ = "winning" => cfg.sectors = 1 /\ n = 1
  BY PostAssumption DEF PostAssumption
<1>3. \A i \in 1..n : ids[i] \in Nat /\ (cfg.typ = "window" => ids[i] = i)
  <2> TAKE i \in 1..n
  <2>1. CASE cfg.typ = "window"
    BY <1>1, <2>1
  <2>2. CASE cfg.typ = "winning"
    <3>1. i = 1 /\ cfg.sectors = 1 /\ <<index>>[1] = index
      BY <1>2, <2>2
    <3>2. ids[i] = index % MaxReplicas
      BY <2>2, <3>1 DEF GenerateWinningPostSectorChallenge
    <3>3. index % MaxReplicas \in Nat
      BY <1>1
    <3> QED
      BY <2>2, <3>2, <3>3
  <2> QED
    BY <1>1, <2>1, <2>2
<1>4. s = [i \in 1..n |-> at(i)]
  BY DEF ReplicasOf
<1> HIDE DEF ids, s
<1>5. \A i \in 1..n : at(i) \in Replica /\ at(i).id = ids[i] /\ at(i).comm_r = CommR(ids[i])
  <2> TAKE i \in 1..n
  <2>1. CommR(ids[i]) \in Leaf /\ <<ids[i], index>> \in Leaf
    BY <1>1, <1>3 DEF CommR, Leaf
  <2> QED
    BY <1>3, <2>1 DEF Replica
<1> HIDE DEF at
<1>6. s \in Seq(Replica)
  BY <1>1, <1>4, <1>5, IsASeq
<1>7. Len(s) = n /\ \A i \in 1..n : s[i] = at(i)
  BY <1>1, <1>4, <1>6, LenProperties
<1>8. s # <<>>
  BY <1>1, <1>7
<1>9. Distinct(s)
  <2> SUFFICES ASSUME NEW p \in 1..n, NEW q \in 1..n, ids[p] = ids[q] PROVE p = q
    BY <1>5, <1>7 DEF Distinct
  <2>1. CASE cfg.typ = "window"
    BY <1>3, <2>1
  <2>2. CASE cfg.typ = "winning"
    BY <1>2, <2>2
  <2> QED
    BY <1>1, <2>1, <2>2
<1>10. \A i \in 1..Len(s) : s[i].comm_r = CommR(s[i].id)
  BY <1>5, <1>7
<1> QED
  BY <1>2, <1>6, <1>7, <1>8, <1>9, <1>10 DEF Posted, LeftOut, s

\* What PostRight says of a record with these fields.
PostRightOf(cfg, s, routes, other, accepted) ==
  \A r \in DOMAIN routes :
    /\ routes[r].ok <=> FaultyReplicas(cfg, s) = {}
    /\ r = "direct" => routes[r].faults = SetToSortSeq({s[i].id : i \in FaultyReplicas(cfg, s)}, <)
    /\ r \in accepted <=> FaultyReplicas(cfg, s) = {} /\ other = 0
    /\ routes[r].ok => UNION {Range(routes[r].groth[k].inputs) : k \in DOMAIN routes[r].groth}
                         = UNION {ChallengedLeaves(cfg, s[i].id, i) \cup {CommR(s[i].id)} : i \in DOMAIN s}

\* What the proving calls have returned.
PostReturned(c) ==
  \E cfg \in PostConfigs, cpus \in PostCpus : \E s :
    /\ ~LeftOut(cfg) => Posted(cfg, s)
    /\ c = [fn |-> "posts", cfg |-> cfg, replicas |-> s, routes |-> RoutesOf(cfg, s, cpus)]

\* The inductive invariant.
PostingInv == (call.fn = "posts" => PostReturned(call)) /\ PostVerifies

\* The verdicts on the proofs are right.
LEMMA VerifyPostsRight ==
  ASSUME PostingInv, VerifyPosts
  PROVE  PostingInv'
<1>1. call.fn = "posts" /\ PostReturned(call)
  BY DEF PostingInv, VerifyPosts
<1>2. PICK cfg \in PostConfigs, cpus \in PostCpus : \E s :
        /\ ~LeftOut(cfg) => Posted(cfg, s)
        /\ call = [fn |-> "posts", cfg |-> cfg, replicas |-> s, routes |-> RoutesOf(cfg, s, cpus)]
  BY <1>1 DEF PostReturned
<1>3. PICK s :
        /\ ~LeftOut(cfg) => Posted(cfg, s)
        /\ call = [fn |-> "posts", cfg |-> cfg, replicas |-> s, routes |-> RoutesOf(cfg, s, cpus)]
  BY <1>2
<1> DEFINE routes == RoutesOf(cfg, s, cpus)
<1>4. call.cfg = cfg /\ call.replicas = s /\ call.routes = routes
  BY <1>3
<1> HIDE DEF routes
<1>5. PICK other \in 0..Len(s) :
        call' = [fn |-> "post", cfg |-> cfg, replicas |-> s, routes |-> routes, other |-> other,
                 accepted |-> {r \in DOMAIN routes : VerifyPost(cfg, PublicOf(s, other), routes[r].groth)}]
  BY <1>4, Zenon DEF VerifyPosts
<1> DEFINE accepted == {r \in DOMAIN routes : VerifyPost(cfg, PublicOf(s, other), routes[r].groth)}
<1>6. \A r \in DOMAIN routes : r \in accepted <=> VerifyPost(cfg, PublicOf(s, other), routes[r].groth)
  OBVIOUS
<1> HIDE DEF accepted
<1>7. /\ call'.fn = "post" /\ call'.cfg = cfg /\ call'.replicas = s /\ call'.routes = routes
      /\ call'.other = other /\ call'.accepted = accepted
  <2>1. call' = [fn |-> "post", cfg |-> cfg, replicas |-> s, routes |-> routes, other |-> other, accepted |-> accepted]
    BY <1>5 DEF accepted
  <2> QED
    BY <2>1
<1>8. ASSUME ~LeftOut(cfg) PROVE PostRight(call')
  <2> DEFINE faulty == FaultyReplicas(cfg, s)
             all == UNION {ChallengedLeaves(cfg, s[i].id, i) \cup {CommR(s[i].id)} : i \in DOMAIN s}
  <2>1. Posted(cfg, s) /\ cpus \in Nat \ {0}
    BY <1>3, <1>8, PostAssumption DEF PostAssumption
  <2>2. ASSUME NEW r \in DOMAIN routes
        PROVE  /\ routes[r].ok <=> faulty = {}
               /\ r = "direct" => routes[r].faults = SetToSortSeq({s[i].id : i \in faulty}, <)
               /\ r \in accepted <=> faulty = {} /\ other = 0
               /\ routes[r].ok => UNION {Range(routes[r].groth[k].inputs) : k \in DOMAIN routes[r].groth} = all
    <3>1. RouteRight(cfg, s, other, routes[r]) /\ (r = "direct" => FaultsNamed(cfg, s, routes[r]))
      BY <2>1, RoutesRight DEF routes
    <3>2. routes[r].ok <=> faulty = {}
      BY <3>1 DEF RouteRight
    <3>3. r \in accepted <=> faulty = {} /\ other = 0
      BY <1>6, <3>1 DEF RouteRight
    <3>4. routes[r].ok => UNION {Range(routes[r].groth[k].inputs) : k \in DOMAIN routes[r].groth} = all
      BY <3>1 DEF RouteRight, AskedBy, AskedOfAll
    <3>5. r = "direct" => routes[r].faults = SetToSortSeq({s[i].id : i \in faulty}, <)
      BY <3>1, Zenon DEF FaultsNamed, Ascending
    <3> QED
      BY <3>2, <3>3, <3>4, <3>5, Zenon
  <2>3. PostRightOf(cfg, s, routes, other, accepted)
    BY <2>2, Zenon DEF PostRightOf
  <2>4. PostRightOf(call'.cfg, call'.replicas, call'.routes, call'.other, call'.accepted)
    BY <1>7, <2>3
  <2> QED
    BY <2>4, Zenon DEF PostRight, PostRightOf
<1>9. PostVerifies'
  <2>1. ASSUME ~(cfg.typ = "winning" /\ cfg.api = "V1_2") PROVE PostRight(call')
    BY <1>8, <2>1 DEF LeftOut
  <2> QED
    BY <1>7, <2>1, Zenon DEF PostVerifies
<1> QED
  BY <1>7, <1>9 DEF PostingInv

(* Whatever route makes it, a proof of spacetime is made exactly when every   *)
(* challenged leaf can be proved, names the faulty sectors otherwise, is      *)
(* accepted for the sectors it was made for and for no others, and asks of    *)
(* every sector for the leaves of its place in the list: for any number of    *)
(* sectors, of sectors to a partition, of challenges and of processors.       *)
THEOREM PostsVerify == PostSpec => []PostVerifies
<1>1. call = Idle => PostingInv
  BY DEF Idle, PostingInv, PostVerifies
<1>2. ASSUME PostingInv, [PostNext]_call PROVE PostingInv'
  <2>1. CASE ProvePosts
    <3>1. PICK cfg \in PostConfigs, n \in 1..MaxReplicas, cpus \in PostCpus, damaged \in 0..MaxReplicas, index \in LeafIndexes :
            /\ cfg.typ = "winning" => n = cfg.sectors
            /\ call' = [fn |-> "posts", cfg |-> cfg, replicas |-> ReplicasOf(cfg, n, damaged, index),
                        routes |-> RoutesOf(cfg, ReplicasOf(cfg, n, damaged, index), cpus)]
      BY <2>1, Zenon DEF ProvePosts
    <3> DEFINE s == ReplicasOf(cfg, n, damaged, index)
    <3>2. ~LeftOut(cfg) => Posted(cfg, s)
      BY <3>1, ReplicasPosted
    <3>4. call' = [fn |-> "posts", cfg |-> cfg, replicas |-> s, routes |-> RoutesOf(cfg, s, cpus)]
      BY <3>1
    <3> HIDE DEF s
    <3>5. PostReturned(call')
      BY <3>2, <3>4, Zenon DEF PostReturned
    <3>6. call'.fn = "posts"
      BY <3>4
    <3> QED
      BY <3>5, <3>6 DEF PostingInv, PostVerifies
  <2>2. CASE VerifyPosts
    BY <1>2, <2>2, VerifyPostsRight
  <2>3. CASE Return({"post"})
    BY <2>3 DEF Return, Idle, PostingInv, PostVerifies
  <2>4. CASE UNCHANGED call
    BY <1>2, <2>4 DEF PostingInv, PostVerifies
  <2> QED
    BY <1>2, <2>1, <2>2, <2>3, <2>4 DEF PostNext
<1>3. PostingInv => PostVerifies
  BY DEF PostingInv
<1> QED
  BY <1>1, <1>2, <1>3, PTL DEF PostSpec
=============================================================================
