------------------------- MODULE RecursionTheorems --------------------------
(***************************************************************************)
(* What recursive definitions compute: functions on the natural numbers    *)
(* that are given by their first value and a step, and the sum of a        *)
(* function over a finite set (SumFunction of the community module         *)
(* Functions), which is defined by recursion over the subsets of the set   *)
(* and takes its elements in an order that is not known.                   *)
(*                                                                         *)
(* The induction theorems of the library take the formula to be proved as  *)
(* an operator.  Here it is a set, of numbers or of subsets; that it holds *)
(* them all follows from the library's theorem that a well-founded         *)
(* relation has minimal elements.                                          *)
(***************************************************************************)
EXTENDS Integers, Sequences, Functions, FiniteSetTheorems, TLAPS

-----------------------------------------------------------------------------
(* Induction over the natural numbers.                                     *)

\* A set of natural numbers has a least element.
LEMMA LeastNumber ==
  ASSUME NEW T \in SUBSET Nat, T # {}
  PROVE  \E n \in T : \A m \in T : n <= m
<1> DEFINE R == {ss \in Nat \X Nat : ss[1] < ss[2]}
<1>1. IsWellFoundedOn(R, Nat)
  BY NatLessThanWellFounded DEF OpToRel
<1>2. PICK n \in T : \A m \in T : <<m, n>> \notin R
  <2> HIDE DEF R
  <2> QED
    BY <1>1, WFMin
<1>3. ASSUME NEW m \in T PROVE n <= m
  <2>1. <<m, n>> \notin {ss \in Nat \X Nat : ss[1] < ss[2]}
    BY <1>2
  <2> QED
    BY <2>1
<1> QED
  BY <1>3

\* Induction over the natural numbers.
LEMMA NumberInduction ==
  ASSUME NEW G, 0 \in G, \A n \in Nat : n \in G => n + 1 \in G
  PROVE  \A n \in Nat : n \in G
<1> SUFFICES ASSUME NEW b \in Nat, b \notin G PROVE FALSE
  OBVIOUS
<1> DEFINE Bad == {n \in Nat : n \notin G}
<1>1. PICK n \in Bad : \A m \in Bad : n <= m
  BY LeastNumber
<1>2. n # 0
  BY <1>1
<1>3. n - 1 \in Nat /\ n - 1 < n /\ (n - 1) + 1 = n
  BY <1>1, <1>2
<1>4. n - 1 \in G
  BY <1>1, <1>3
<1> QED
  BY <1>1, <1>3, <1>4

-----------------------------------------------------------------------------
(* Functions on the natural numbers.                                       *)

\* The first values of such a function, up to n.
IsStart(h, n, D, a, step) ==
    /\ h \in [0 .. n -> D]
    /\ h[0] = a
    /\ \A k \in 0 .. n - 1 : h[k + 1] = step[h[k]]

\* Each start is a part of every longer one.
LEMMA StartsAgree ==
  ASSUME NEW D, NEW a \in D, NEW step \in [D -> D], NEW m \in Nat, NEW n \in Nat, m <= n,
         NEW h, NEW k, IsStart(h, m, D, a, step), IsStart(k, n, D, a, step)
  PROVE  \A i \in 0 .. m : h[i] = k[i]
<1> DEFINE G == {i \in Nat : i \in 0 .. m => h[i] = k[i]}
<1>1. 0 \in G
  BY DEF IsStart
<1>2. ASSUME NEW i \in Nat, i \in G PROVE i + 1 \in G
  <2> SUFFICES ASSUME i + 1 \in 0 .. m PROVE h[i + 1] = k[i + 1]
    OBVIOUS
  <2>1. i \in 0 .. m /\ i \in 0 .. m - 1 /\ i \in 0 .. n - 1
    OBVIOUS
  <2>2. h[i] = k[i]
    BY <1>2, <2>1
  <2> QED
    BY <2>1, <2>2 DEF IsStart
<1> HIDE DEF G
<1>3. \A i \in Nat : i \in G
  BY <1>1, <1>2, NumberInduction
<1> QED
  BY <1>3 DEF G

\* A start of any length exists.
LEMMA StartExists ==
  ASSUME NEW D, NEW a \in D, NEW step \in [D -> D]
  PROVE  \A n \in Nat : \E h : IsStart(h, n, D, a, step)
<1> DEFINE G == {n \in Nat : \E h : IsStart(h, n, D, a, step)}
<1>1. 0 \in G
  <2>1. IsStart([i \in 0 .. 0 |-> a], 0, D, a, step)
    BY DEF IsStart
  <2> QED
    BY <2>1
<1>2. ASSUME NEW n \in Nat, n \in G PROVE n + 1 \in G
  <2>1. PICK h : IsStart(h, n, D, a, step)
    BY <1>2
  <2> DEFINE k == [i \in 0 .. n + 1 |-> IF i = n + 1 THEN step[h[n]] ELSE h[i]]
  <2>2. h[n] \in D /\ step[h[n]] \in D
    BY <2>1 DEF IsStart
  <2>3. k \in [0 .. n + 1 -> D]
    BY <2>1, <2>2 DEF IsStart
  <2>4. k[0] = a
    BY <2>1 DEF IsStart
  <2>5. ASSUME NEW i \in 0 .. (n + 1) - 1 PROVE k[i + 1] = step[k[i]]
    <3>1. i \in 0 .. n + 1 /\ i + 1 \in 0 .. n + 1 /\ i # n + 1
      OBVIOUS
    <3>2. k[i] = h[i]
      BY <3>1
    <3>3. CASE i = n
      BY <3>1, <3>2, <3>3
    <3>4. CASE i # n
      <4>1. i \in 0 .. n - 1 /\ i + 1 # n + 1
        BY <3>4
      <4>2. k[i + 1] = h[i + 1]
        BY <3>1, <4>1
      <4> QED
        BY <2>1, <3>2, <4>1, <4>2 DEF IsStart
    <3> QED
      BY <3>3, <3>4
  <2>6. IsStart(k, n + 1, D, a, step)
    <3> HIDE DEF k
    <3> QED
      BY <2>3, <2>4, <2>5 DEF IsStart
  <2> QED
    BY <2>6
<1> HIDE DEF G
<1>3. \A n \in Nat : n \in G
  BY <1>1, <1>2, NumberInduction
<1> QED
  BY <1>3 DEF G

IsRecursive(f, D, a, step) ==
    /\ f \in [Nat -> D]
    /\ f[0] = a
    /\ \A n \in Nat : f[n + 1] = step[f[n]]

\* The function exists.
LEMMA RecursiveFunctionExists ==
  ASSUME NEW D, NEW a \in D, NEW step \in [D -> D]
  PROVE  \E f : IsRecursive(f, D, a, step)
<1> DEFINE start(n) == CHOOSE h : IsStart(h, n, D, a, step)
<1> DEFINE f == [n \in Nat |-> start(n)[n]]
<1>1. ASSUME NEW n \in Nat PROVE IsStart(start(n), n, D, a, step)
  BY StartExists
<1> HIDE DEF start
<1>2. f \in [Nat -> D]
  BY <1>1 DEF IsStart
<1>3. f[0] = a
  BY <1>1 DEF IsStart
<1>4. ASSUME NEW n \in Nat PROVE f[n + 1] = step[f[n]]
  <2>1. n + 1 \in Nat /\ n <= n + 1 /\ n \in 0 .. n /\ n \in 0 .. (n + 1) - 1
    OBVIOUS
  <2>2. IsStart(start(n), n, D, a, step) /\ IsStart(start(n + 1), n + 1, D, a, step)
    BY <1>1, <2>1
  <2>3. start(n)[n] = start(n + 1)[n]
    BY <2>1, <2>2, StartsAgree
  <2>4. start(n + 1)[n + 1] = step[start(n + 1)[n]]
    BY <2>1, <2>2 DEF IsStart
  <2> QED
    BY <2>1, <2>3, <2>4
<1> HIDE DEF f
<1> QED
  BY <1>2, <1>3, <1>4 DEF IsRecursive

\* Halving again and again, rounding down: what a right shift computes.
LEMMA Halving ==
  ASSUME NEW x \in Nat
  PROVE  LET f == CHOOSE g : g = [n \in Nat |-> IF n = 0 THEN x ELSE g[n - 1] \div 2]
         IN  /\ f \in [Nat -> Nat]
             /\ f[0] = x
             /\ \A n \in Nat : f[n + 1] = f[n] \div 2
             /\ \A m, n \in Nat : m <= n => f[n] <= f[m]
<1> DEFINE IsHalving(g) == g = [n \in Nat |-> IF n = 0 THEN x ELSE g[n - 1] \div 2]
<1> DEFINE half == [y \in Nat |-> y \div 2]
<1> DEFINE f == CHOOSE g : IsHalving(g)
<1>1. half \in [Nat -> Nat]
  OBVIOUS
<1>2. PICK g : IsRecursive(g, Nat, x, half)
  <2> HIDE DEF half
  <2> QED
    BY <1>1, RecursiveFunctionExists
<1>3. ASSUME NEW n \in Nat PROVE g[n] = IF n = 0 THEN x ELSE g[n - 1] \div 2
  <2>1. CASE n = 0
    BY <1>2, <2>1 DEF IsRecursive
  <2>2. CASE n # 0
    <3>1. n - 1 \in Nat /\ (n - 1) + 1 = n
      BY <2>2
    <3>2. g[n] = half[g[n - 1]] /\ g[n - 1] \in Nat
      BY <1>2, <3>1 DEF IsRecursive
    <3> QED
      BY <2>2, <3>1, <3>2
  <2> QED
    BY <2>1, <2>2
<1>4. IsHalving(g)
  BY <1>2, <1>3 DEF IsRecursive
<1>5. IsHalving(f)
  BY <1>4
<1>6. /\ f[0] = x
      /\ \A n \in Nat : f[n + 1] = f[n] \div 2
      /\ f = [n \in Nat |-> f[n]]
  <2> HIDE DEF f
  <2>1. \A n \in Nat : f[n] = IF n = 0 THEN x ELSE f[n - 1] \div 2
    BY <1>5
  <2>2. ASSUME NEW n \in Nat PROVE f[n + 1] = f[n] \div 2
    <3>1. n + 1 \in Nat /\ n + 1 # 0 /\ (n + 1) - 1 = n
      OBVIOUS
    <3>2. f[n + 1] = IF n + 1 = 0 THEN x ELSE f[(n + 1) - 1] \div 2
      BY <2>1, <3>1
    <3> QED
      BY <3>1, <3>2
  <2>3. f = [n \in Nat |-> f[n]]
    <3>1. f = [n \in Nat |-> IF n = 0 THEN x ELSE f[n - 1] \div 2]
      BY <1>5
    <3> QED
      BY <2>1, <3>1
  <2> QED
    BY <2>1, <2>2, <2>3
<1> HIDE DEF f
<1> DEFINE G == {n \in Nat : f[n] \in Nat}
<1>7. \A n \in Nat : n \in G
  <2>1. 0 \in G
    BY <1>6
  <2>2. ASSUME NEW n \in Nat, n \in G PROVE n + 1 \in G
    <3>1. f[n] \in Nat /\ n + 1 \in Nat
      BY <2>2
    <3>2. f[n + 1] = f[n] \div 2
      BY <1>6
    <3>3. f[n] \div 2 \in Nat
      BY <3>1
    <3> QED
      BY <3>1, <3>2, <3>3
  <2> HIDE DEF G
  <2> QED
    BY <2>1, <2>2, NumberInduction
<1>8. f \in [Nat -> Nat]
  BY <1>6, <1>7
<1>9. ASSUME NEW m \in Nat, NEW n \in Nat, m <= n PROVE f[n] <= f[m]
  <2> DEFINE F == {d \in Nat : f[m + d] <= f[m]}
  <2>1. 0 \in F
    BY <1>8
  <2>2. ASSUME NEW d \in Nat, d \in F PROVE d + 1 \in F
    <3>1. m + d \in Nat /\ m + (d + 1) = (m + d) + 1
      OBVIOUS
    <3>2. f[m + d] \in Nat /\ f[m] \in Nat /\ f[m + d] <= f[m]
      BY <1>8, <2>2, <3>1
    <3>3. f[m + (d + 1)] = f[m + d] \div 2
      BY <1>6, <3>1
    <3> QED
      BY <3>2, <3>3
  <2> HIDE DEF F
  <2>3. n - m \in F
    BY <1>9, <2>1, <2>2, NumberInduction
  <2>4. m + (n - m) = n
    OBVIOUS
  <2> QED
    BY <2>3, <2>4 DEF F
<1> QED
  BY <1>6, <1>8, <1>9 DEF f

\* The elements of a sequence that are in a set, in their order.
IsFiltering(g, R, list) ==
    g = [i \in Nat |-> IF i = 0 THEN <<>>
                       ELSE IF i \in DOMAIN list /\ list[i] \in R
                            THEN Append(g[i - 1], list[i]) ELSE g[i - 1]]

\* The function exists.
LEMMA FilteringExists ==
  ASSUME NEW R, NEW list
  PROVE  \E g : IsFiltering(g, R, list)
<1> DEFINE next(i, s) == IF i \in DOMAIN list /\ list[i] \in R THEN Append(s, list[i]) ELSE s
           D == Nat \X Seq(R)
           step == [s \in D |-> <<s[1] + 1, next(s[1] + 1, s[2])>>]
<1>1. ASSUME NEW i \in Nat, NEW s \in Seq(R) PROVE next(i, s) \in Seq(R)
  OBVIOUS
<1>2. step \in [D -> D] /\ <<0, <<>>>> \in D
  <2> HIDE DEF next
  <2>1. ASSUME NEW s \in D PROVE <<s[1] + 1, next(s[1] + 1, s[2])>> \in D
    <3>1. s[1] + 1 \in Nat /\ s[2] \in Seq(R)
      OBVIOUS
    <3> QED
      BY <1>1, <3>1
  <2>2. step \in [D -> D]
    <3> HIDE DEF D
    <3> QED
      BY <2>1
  <2>3. <<>> \in Seq(R)
    OBVIOUS
  <2> QED
    BY <2>2, <2>3
<1>3. PICK h : IsRecursive(h, D, <<0, <<>>>>, step)
  <2> HIDE DEF step, D
  <2> QED
    BY <1>2, RecursiveFunctionExists
<1> HIDE DEF next
<1>4. ASSUME NEW n \in Nat PROVE h[n] \in D /\ h[n + 1] = <<h[n][1] + 1, next(h[n][1] + 1, h[n][2])>>
  <2>1. h[n] \in D /\ h[n + 1] = step[h[n]]
    <3> HIDE DEF D, step
    <3> QED
      BY <1>3 DEF IsRecursive
  <2> QED
    BY <2>1
<1>5. h[0] = <<0, <<>>>>
  BY <1>3 DEF IsRecursive
<1>6. \A n \in Nat : h[n][1] = n
  <2> DEFINE G == {n \in Nat : h[n][1] = n}
  <2>1. 0 \in G
    BY <1>5
  <2>2. ASSUME NEW n \in Nat, n \in G PROVE n + 1 \in G
    <3>1. h[n][1] = n
      BY <2>2
    <3>2. h[n + 1] = <<h[n][1] + 1, next(h[n][1] + 1, h[n][2])>>
      BY <1>4
    <3>3. h[n + 1][1] = h[n][1] + 1
      BY <3>2
    <3> QED
      BY <3>1, <3>3
  <2> HIDE DEF G
  <2>3. \A n \in Nat : n \in G
    BY <2>1, <2>2, NumberInduction
  <2> QED
    BY <2>3 DEF G
<1> DEFINE k == [n \in Nat |-> h[n][2]]
<1>7. ASSUME NEW n \in Nat PROVE k[n] = IF n = 0 THEN <<>> ELSE next(n, k[n - 1])
  <2>1. CASE n = 0
    BY <1>5, <2>1
  <2>2. CASE n # 0
    <3>1. n - 1 \in Nat /\ (n - 1) + 1 = n
      BY <2>2
    <3>2. h[(n - 1) + 1] = <<h[n - 1][1] + 1, next(h[n - 1][1] + 1, h[n - 1][2])>>
      BY <1>4, <3>1
    <3>3. h[n - 1][1] = n - 1
      BY <1>6, <3>1
    <3>4. h[n][2] = next(n, h[n - 1][2])
      BY <3>1, <3>2, <3>3
    <3> QED
      BY <2>2, <3>1, <3>4
  <2> QED
    BY <2>1, <2>2
<1>8. IsFiltering(k, R, list)
  <2>1. k = [n \in Nat |-> k[n]]
    OBVIOUS
  <2> HIDE DEF k
  <2> QED
    BY <1>7, <2>1 DEF IsFiltering, next
<1> QED
  BY <1>8

\* The elements come from the sequence, each from a place of its own.
LEMMA Filtering ==
  ASSUME NEW R, NEW list, NEW f, IsFiltering(f, R, list)
  PROVE  \A n \in Nat :
            /\ f[n] \in Seq(R)
            /\ \A i \in DOMAIN f[n] : \E j \in DOMAIN list : j \in 1 .. n /\ f[n][i] = list[j]
            /\ (\A i, j \in DOMAIN list : i # j => list[i] # list[j])
                   => \A i, j \in DOMAIN f[n] : i # j => f[n][i] # f[n][j]
<1> DEFINE next(i, s) == IF i \in DOMAIN list /\ list[i] \in R THEN Append(s, list[i]) ELSE s
<1>1. \A n \in Nat : f[n] = IF n = 0 THEN <<>> ELSE next(n, f[n - 1])
  BY DEF IsFiltering
<1> HIDE DEF next
<1> DEFINE Good(n, s) ==
      /\ s \in Seq(R)
      /\ \A i \in DOMAIN s : \E j \in DOMAIN list : j \in 1 .. n /\ s[i] = list[j]
      /\ (\A i, j \in DOMAIN list : i # j => list[i] # list[j])
             => \A i, j \in DOMAIN s : i # j => s[i] # s[j]
<1>2. ASSUME NEW n \in Nat, NEW s, Good(n, s) PROVE Good(n + 1, next(n + 1, s))
  <2>1. CASE n + 1 \in DOMAIN list /\ list[n + 1] \in R
    <3> DEFINE t == Append(s, list[n + 1])
    <3>1. next(n + 1, s) = t
      BY <2>1 DEF next
    <3>2. s \in Seq(R) /\ Len(s) \in Nat /\ DOMAIN s = 1 .. Len(s)
      BY <1>2
    <3>3. /\ t \in Seq(R) /\ Len(t) = Len(s) + 1
          /\ t[Len(s) + 1] = list[n + 1]
          /\ \A i \in 1 .. Len(s) : t[i] = s[i]
      BY <2>1, <3>2
    <3>4. DOMAIN t = DOMAIN s \cup {Len(s) + 1}
      BY <3>2, <3>3
    <3> HIDE DEF t
    <3>5. ASSUME NEW i \in DOMAIN t PROVE \E j \in DOMAIN list : j \in 1 .. n + 1 /\ t[i] = list[j]
      <4>1. CASE i = Len(s) + 1
        BY <2>1, <3>3, <4>1
      <4>2. CASE i \in DOMAIN s
        <5>1. PICK j \in DOMAIN list : j \in 1 .. n /\ s[i] = list[j]
          BY <1>2, <4>2
        <5> QED
          BY <3>2, <3>3, <4>2, <5>1
      <4> QED
        BY <3>4, <4>1, <4>2
    <3>6. ASSUME \A i, j \in DOMAIN list : i # j => list[i] # list[j],
                 NEW i \in DOMAIN t, NEW j \in DOMAIN t, i # j
          PROVE  t[i] # t[j]
      <4>1. ASSUME NEW m \in DOMAIN s PROVE t[m] # t[Len(s) + 1]
        <5>1. PICK l \in DOMAIN list : l \in 1 .. n /\ s[m] = list[l]
          BY <1>2
        <5>2. l # n + 1
          BY <5>1
        <5> QED
          BY <2>1, <3>2, <3>3, <3>6, <5>1, <5>2
      <4>2. CASE i \in DOMAIN s /\ j \in DOMAIN s
        BY <1>2, <3>2, <3>3, <3>6, <4>2
      <4> QED
        BY <3>4, <3>6, <4>1, <4>2
    <3> QED
      BY <3>1, <3>3, <3>5, <3>6
  <2>2. CASE ~(n + 1 \in DOMAIN list /\ list[n + 1] \in R)
    <3>1. next(n + 1, s) = s
      BY <2>2 DEF next
    <3>2. 1 .. n \subseteq 1 .. n + 1
      OBVIOUS
    <3> QED
      BY <1>2, <3>1, <3>2
  <2> QED
    BY <2>1, <2>2
<1>3. \A n \in Nat : Good(n, f[n])
  <2> DEFINE G == {n \in Nat : Good(n, f[n])}
  <2>1. Good(0, <<>>)
    OBVIOUS
  <2> HIDE DEF Good
  <2>2. 0 \in G
    BY <1>1, <2>1
  <2>3. ASSUME NEW n \in Nat, n \in G PROVE n + 1 \in G
    <3>1. f[n + 1] = IF n + 1 = 0 THEN <<>> ELSE next(n + 1, f[(n + 1) - 1])
      BY <1>1
    <3>2. n + 1 # 0 /\ (n + 1) - 1 = n /\ n + 1 \in Nat
      OBVIOUS
    <3>3. f[n + 1] = next(n + 1, f[n])
      BY <3>1, <3>2
    <3> QED
      BY <1>2, <2>3, <3>2, <3>3
  <2> HIDE DEF G
  <2>4. \A n \in Nat : n \in G
    BY <2>2, <2>3, NumberInduction
  <2> QED
    BY <2>4 DEF G
<1> QED
  <2> HIDE DEF next
  <2>1. \A n \in Nat : Good(n, f[n])
    BY <1>3
  <2> QED
    BY <2>1 DEF next

-----------------------------------------------------------------------------
(* Induction over the subsets of a finite set.                             *)

\* What holds of a subset whenever it holds of all that lie within it, holds of
\* every subset.
LEMMA StrongSubsetInduction ==
  ASSUME NEW S, IsFiniteSet(S), NEW G,
         \A s \in SUBSET S : (\A t \in SUBSET s : t # s => t \in G) => s \in G
  PROVE  \A s \in SUBSET S : s \in G
<1> SUFFICES ASSUME NEW b \in SUBSET S, b \notin G PROVE FALSE
  OBVIOUS
<1> DEFINE Bad == {s \in SUBSET S : s \notin G}
<1> DEFINE Sizes == {n \in Nat : \E s \in Bad : Cardinality(s) = n}
<1>1. ASSUME NEW s \in SUBSET S PROVE IsFiniteSet(s) /\ Cardinality(s) \in Nat
  BY <1>1, FS_Subset, FS_CardinalityType
<1>2. Sizes \in SUBSET Nat /\ Sizes # {}
  BY <1>1
<1>3. PICK n \in Sizes : \A m \in Sizes : n <= m
  <2> HIDE DEF Sizes
  <2> QED
    BY <1>2, LeastNumber
<1>4. PICK s \in Bad : Cardinality(s) = n
  BY <1>3
<1>5. ASSUME NEW t \in SUBSET s, t # s PROVE t \in G
  <2>1. Cardinality(t) <= Cardinality(s) /\ Cardinality(t) # Cardinality(s)
    BY <1>1, <1>5, FS_Subset
  <2>2. Cardinality(t) \in Nat /\ n \in Nat
    BY <1>1
  <2>3. Cardinality(t) \notin Sizes
    BY <1>3, <1>4, <2>1, <2>2
  <2> QED
    BY <2>2, <2>3
<1> QED
  BY <1>4, <1>5

\* The usual form: the empty set, and one element more.
LEMMA SubsetInduction ==
  ASSUME NEW S, IsFiniteSet(S), NEW G,
         {} \in G,
         \A s \in SUBSET S : \A x \in S \ s : s \in G => s \cup {x} \in G
  PROVE  S \in G
<1>1. ASSUME NEW s \in SUBSET S, \A t \in SUBSET s : t # s => t \in G
      PROVE  s \in G
  <2>1. CASE s = {}
    BY <2>1
  <2>2. CASE s # {}
    <3>1. PICK x \in s : TRUE
      BY <2>2
    <3>2. s \ {x} \in G
      BY <1>1
    <3>3. (s \ {x}) \cup {x} = s
      OBVIOUS
    <3> QED
      BY <3>2, <3>3
  <2> QED
    BY <2>1, <2>2
<1>2. \A s \in SUBSET S : (\A t \in SUBSET s : t # s => t \in G) => s \in G
  BY <1>1
<1>3. \A s \in SUBSET S : s \in G
  BY <1>2, StrongSubsetInduction
<1> QED
  BY <1>3

-----------------------------------------------------------------------------
(* The recursion behind SumFunctionOnSet has a solution, and only one.     *)

\* g gives for every subset of S the sum of f over it.
IsSum(g, f, S) ==
  g = [s \in SUBSET S |-> IF s = {} THEN 0
                          ELSE LET x == CHOOSE y \in s : TRUE IN f[x] + g[s \ {x}]]

\* The sum is a value of the function the recursion chooses.
LEMMA SumIsChosen ==
  ASSUME NEW f, NEW S
  PROVE  SumFunctionOnSet(f, S) = (CHOOSE g : IsSum(g, f, S))[S]
BY DEF SumFunctionOnSet, FoldFunctionOnSet, MapThenFoldSet, IsSum

\* Two functions that satisfy the recursion agree on every subset.
LEMMA SumUnique ==
  ASSUME NEW S, IsFiniteSet(S), NEW T \in SUBSET S, NEW f, NEW g, NEW h,
         IsSum(g, f, S), IsSum(h, f, T)
  PROVE  \A t \in SUBSET T : g[t] = h[t]
<1> DEFINE G == {t \in SUBSET T : g[t] = h[t]}
<1>1. IsFiniteSet(T)
  BY FS_Subset
<1>2. ASSUME NEW t \in SUBSET T, \A u \in SUBSET t : u # t => u \in G
      PROVE  t \in G
  <2> DEFINE x == CHOOSE y \in t : TRUE
  <2>1. g[t] = IF t = {} THEN 0 ELSE f[x] + g[t \ {x}]
    BY DEF IsSum
  <2>2. h[t] = IF t = {} THEN 0 ELSE f[x] + h[t \ {x}]
    BY DEF IsSum
  <2>3. t # {} => x \in t
    OBVIOUS
  <2> HIDE DEF x
  <2>4. t # {} => g[t \ {x}] = h[t \ {x}]
    BY <1>2, <2>3
  <2> QED
    BY <2>1, <2>2, <2>4
<1> HIDE DEF G
<1>3. \A t \in SUBSET T : t \in G
  BY <1>1, <1>2, StrongSubsetInduction
<1> QED
  BY <1>3 DEF G

\* One does, on the subsets of a finite set.
LEMMA SumExists ==
  ASSUME NEW S, IsFiniteSet(S), NEW f
  PROVE  \E g : IsSum(g, f, S)
<1> DEFINE G == {T \in SUBSET S : \E g : IsSum(g, f, T)}
<1>1. ASSUME NEW T \in SUBSET S, \A t \in SUBSET T : t # T => t \in G
      PROVE  T \in G
  <2> DEFINE Sum(t) == (CHOOSE g : IsSum(g, f, t))[t]
  <2> DEFINE first(t) == CHOOSE y \in t : TRUE
  <2> DEFINE h == [t \in SUBSET T |-> IF t = {} THEN 0
                                      ELSE f[first(t)] + Sum(t \ {first(t)})]
  <2>1. ASSUME NEW t \in SUBSET T, t # T PROVE Sum(t) = h[t]
    <3> DEFINE g == CHOOSE k : IsSum(k, f, t)
    <3>1. IsSum(g, f, t)
      BY <1>1, <2>1
    <3>2. g[t] = IF t = {} THEN 0 ELSE f[first(t)] + g[t \ {first(t)}]
      BY <3>1 DEF IsSum
    <3>3. CASE t # {}
      <4> DEFINE u == t \ {first(t)}
      <4> DEFINE k == CHOOSE i : IsSum(i, f, u)
      <4>1. first(t) \in t
        BY <3>3
      <4>2. u \in SUBSET T /\ u # T /\ u \in SUBSET t
        BY <4>1
      <4>3. IsSum(k, f, u)
        BY <1>1, <4>2
      <4>4. IsFiniteSet(t)
        BY FS_Subset
      <4> HIDE DEF g, k, u
      <4>5. g[u] = k[u]
        BY <3>1, <4>2, <4>3, <4>4, SumUnique
      <4> QED
        BY <3>2, <3>3, <4>5 DEF g, k, u
    <3> QED
      BY <3>2, <3>3
  <2>2. ASSUME NEW t \in SUBSET T, t # {} PROVE h[t \ {first(t)}] = Sum(t \ {first(t)})
    <3>1. t \ {first(t)} \in SUBSET T /\ t \ {first(t)} # T
      BY <2>2
    <3> HIDE DEF h, Sum, first
    <3> QED
      BY <2>1, <3>1
  <2>3. ASSUME NEW t \in SUBSET T
        PROVE  h[t] = IF t = {} THEN 0 ELSE f[first(t)] + h[t \ {first(t)}]
    <3>1. h[t] = IF t = {} THEN 0 ELSE f[first(t)] + Sum(t \ {first(t)})
      BY <2>3
    <3>2. t # {} => h[t \ {first(t)}] = Sum(t \ {first(t)})
      BY <2>2, <2>3
    <3> HIDE DEF h, Sum, first
    <3> QED
      BY <3>1, <3>2
  <2>4. h = [t \in SUBSET T |-> IF t = {} THEN 0
                                ELSE f[first(t)] + h[t \ {first(t)}]]
    <3> HIDE DEF Sum
    <3> QED
      BY <2>3
  <2>5. IsSum(h, f, T)
    <3> HIDE DEF h
    <3> QED
      BY <2>4 DEF IsSum
  <2> QED
    BY <2>5
<1> HIDE DEF G
<1>2. \A T \in SUBSET S : T \in G
  BY <1>1, StrongSubsetInduction
<1> QED
  BY <1>2 DEF G

\* The recursion in terms of the sum alone.
LEMMA SumRecursion ==
  ASSUME NEW S, IsFiniteSet(S), NEW f
  PROVE  /\ SumFunctionOnSet(f, {}) = 0
         /\ S # {} => LET x == CHOOSE y \in S : TRUE
                      IN  SumFunctionOnSet(f, S) = f[x] + SumFunctionOnSet(f, S \ {x})
<1> DEFINE Sum(T) == CHOOSE g : IsSum(g, f, T)
<1>1. ASSUME NEW T, IsFiniteSet(T)
      PROVE  IsSum(Sum(T), f, T) /\ SumFunctionOnSet(f, T) = Sum(T)[T]
  BY <1>1, SumExists, SumIsChosen
<1> HIDE DEF Sum
<1>2. SumFunctionOnSet(f, {}) = 0
  BY <1>1, FS_EmptySet DEF IsSum
<1>3. ASSUME S # {}
      PROVE  LET x == CHOOSE y \in S : TRUE
             IN  SumFunctionOnSet(f, S) = f[x] + SumFunctionOnSet(f, S \ {x})
  <2> DEFINE x == CHOOSE y \in S : TRUE
  <2>1. Sum(S)[S] = f[x] + Sum(S)[S \ {x}]
    BY <1>1, <1>3 DEF IsSum
  <2>2. S \ {x} \in SUBSET S /\ IsFiniteSet(S \ {x})
    BY FS_Subset
  <2>3. Sum(S)[S \ {x}] = Sum(S \ {x})[S \ {x}]
    BY <1>1, <2>2, SumUnique
  <2> QED
    BY <1>1, <2>1, <2>2, <2>3
<1> QED
  BY <1>2, <1>3

-----------------------------------------------------------------------------
(* Sums of integers over subsets: any element may be the one taken out.    *)

\* Integers have an integer sum.
LEMMA SumOnSetType ==
  ASSUME NEW S, IsFiniteSet(S), NEW f \in [S -> Int]
  PROVE  \A T \in SUBSET S : SumFunctionOnSet(f, T) \in Int
<1> DEFINE G == {T \in SUBSET S : SumFunctionOnSet(f, T) \in Int}
<1>1. ASSUME NEW T \in SUBSET S, \A t \in SUBSET T : t # T => t \in G
      PROVE  T \in G
  <2> DEFINE x == CHOOSE y \in T : TRUE
  <2>1. IsFiniteSet(T)
    BY FS_Subset
  <2>2. /\ SumFunctionOnSet(f, {}) = 0
        /\ T # {} => SumFunctionOnSet(f, T) = f[x] + SumFunctionOnSet(f, T \ {x})
    BY <2>1, SumRecursion
  <2>3. T # {} => x \in T
    OBVIOUS
  <2> HIDE DEF x
  <2>4. T # {} => SumFunctionOnSet(f, T \ {x}) \in Int
    BY <1>1, <2>3
  <2>5. CASE T = {}
    BY <2>2, <2>5
  <2>6. CASE T # {}
    <3>1. f[x] \in Int
      BY <2>3, <2>6
    <3> QED
      BY <2>2, <2>4, <2>6, <3>1
  <2> QED
    BY <2>5, <2>6
<1> HIDE DEF G
<1>2. \A T \in SUBSET S : T \in G
  BY <1>1, StrongSubsetInduction
<1> QED
  BY <1>2 DEF G

\* Any element of the subset may be taken out first, not only the chosen one.
LEMMA SumOnSetPick ==
  ASSUME NEW S, IsFiniteSet(S), NEW f \in [S -> Int]
  PROVE  \A T \in SUBSET S : \A x \in T :
            SumFunctionOnSet(f, T) = f[x] + SumFunctionOnSet(f, T \ {x})
<1> DEFINE Sum(T) == SumFunctionOnSet(f, T)
<1> DEFINE G == {T \in SUBSET S : \A x \in T : Sum(T) = f[x] + Sum(T \ {x})}
<1>0. \A T \in SUBSET S : Sum(T) \in Int
  BY SumOnSetType
<1>1. ASSUME NEW T \in SUBSET S, \A t \in SUBSET T : t # T => t \in G
      PROVE  T \in G
  <2> DEFINE c == CHOOSE y \in T : TRUE
  <2> SUFFICES ASSUME NEW x \in T PROVE Sum(T) = f[x] + Sum(T \ {x})
    OBVIOUS
  <2>1. IsFiniteSet(T) /\ T # {}
    BY FS_Subset
  <2>2. Sum(T) = f[c] + Sum(T \ {c})
    BY <2>1, SumRecursion
  <2>3. c \in T
    BY <2>1
  <2> HIDE DEF c, Sum
  <2>4. CASE x # c
    <3>1. T \ {c} \in G /\ T \ {x} \in G
      BY <1>1, <2>3
    <3>2. Sum(T \ {c}) = f[x] + Sum((T \ {c}) \ {x})
      BY <2>4, <3>1
    <3>3. Sum(T \ {x}) = f[c] + Sum((T \ {x}) \ {c})
      BY <2>3, <2>4, <3>1
    <3>4. (T \ {c}) \ {x} = (T \ {x}) \ {c}
      OBVIOUS
    <3> DEFINE rest == Sum((T \ {x}) \ {c})
    <3>5. rest \in Int
      BY <1>0
    <3>6. f[x] \in Int /\ f[c] \in Int
      BY <2>3
    <3>7. Sum(T) = f[c] + (f[x] + rest) /\ Sum(T \ {x}) = f[c] + rest
      BY <2>2, <3>2, <3>3, <3>4
    <3> HIDE DEF rest
    <3> QED
      BY <3>5, <3>6, <3>7
  <2> QED
    BY <2>2, <2>4
<1> HIDE DEF G
<1>2. \A T \in SUBSET S : T \in G
  BY <1>1, StrongSubsetInduction
<1> QED
  BY <1>2 DEF G

\* The sum depends on the values over the subset alone.
LEMMA SumOnSetExtensional ==
  ASSUME NEW S, IsFiniteSet(S), NEW f, NEW g, \A x \in S : f[x] = g[x]
  PROVE  SumFunctionOnSet(f, S) = SumFunctionOnSet(g, S)
<1> DEFINE G == {T \in SUBSET S : SumFunctionOnSet(f, T) = SumFunctionOnSet(g, T)}
<1>1. ASSUME NEW T \in SUBSET S, \A t \in SUBSET T : t # T => t \in G
      PROVE  T \in G
  <2> DEFINE x == CHOOSE y \in T : TRUE
  <2>1. IsFiniteSet(T)
    BY FS_Subset
  <2>2. /\ SumFunctionOnSet(f, {}) = 0 /\ SumFunctionOnSet(g, {}) = 0
        /\ T # {} => SumFunctionOnSet(f, T) = f[x] + SumFunctionOnSet(f, T \ {x})
        /\ T # {} => SumFunctionOnSet(g, T) = g[x] + SumFunctionOnSet(g, T \ {x})
    BY <2>1, SumRecursion
  <2>3. T # {} => x \in T /\ f[x] = g[x]
    OBVIOUS
  <2> HIDE DEF x
  <2>4. T # {} => SumFunctionOnSet(f, T \ {x}) = SumFunctionOnSet(g, T \ {x})
    BY <1>1, <2>3
  <2> QED
    BY <2>2, <2>3, <2>4
<1> HIDE DEF G
<1>2. \A T \in SUBSET S : T \in G
  BY <1>1, StrongSubsetInduction
<1> QED
  BY <1>2 DEF G

-----------------------------------------------------------------------------
(* The sum of a function over its domain.                                  *)

\* The sum of nothing.
LEMMA SumEmpty ==
  ASSUME NEW f, DOMAIN f = {}
  PROVE  SumFunction(f) = 0
BY SumRecursion, FS_EmptySet DEF SumFunction

\* Integers have an integer sum.
LEMMA SumType ==
  ASSUME NEW S, IsFiniteSet(S), NEW f \in [S -> Int]
  PROVE  SumFunction(f) \in Int
BY SumOnSetType DEF SumFunction

\* One element and the rest.
LEMMA SumSplit ==
  ASSUME NEW S, IsFiniteSet(S), NEW f \in [S -> Int], NEW x \in S
  PROVE  SumFunction(f) = f[x] + SumFunction([y \in S \ {x} |-> f[y]])
<1> DEFINE rest == [y \in S \ {x} |-> f[y]]
<1>1. SumFunctionOnSet(f, S) = f[x] + SumFunctionOnSet(f, S \ {x})
  BY SumOnSetPick
<1>2. SumFunctionOnSet(f, S \ {x}) = SumFunctionOnSet(rest, S \ {x})
  BY SumOnSetExtensional, FS_Subset
<1> QED
  BY <1>1, <1>2 DEF SumFunction

\* One element more.
LEMMA SumInsert ==
  ASSUME NEW S, IsFiniteSet(S), NEW x, x \notin S, NEW f \in [S -> Int],
         NEW g \in [S \cup {x} -> Int], \A y \in S : g[y] = f[y]
  PROVE  SumFunction(g) = SumFunction(f) + g[x]
<1>1. IsFiniteSet(S \cup {x})
  BY FS_AddElement
<1>2. SumFunction(g) = g[x] + SumFunction([y \in (S \cup {x}) \ {x} |-> g[y]])
  BY <1>1, SumSplit
<1>3. [y \in (S \cup {x}) \ {x} |-> g[y]] = f
  OBVIOUS
<1>4. SumFunction(f) \in Int
  BY SumType
<1> QED
  BY <1>2, <1>3, <1>4

\* One value changed.
LEMMA SumUpdate ==
  ASSUME NEW S, IsFiniteSet(S), NEW x \in S,
         NEW f \in [S -> Int], NEW g \in [S -> Int],
         \A y \in S \ {x} : g[y] = f[y]
  PROVE  SumFunction(g) = SumFunction(f) + g[x] - f[x]
<1> DEFINE rest == [y \in S \ {x} |-> f[y]]
<1>1. rest \in [S \ {x} -> Int] /\ IsFiniteSet(S \ {x})
  BY FS_Subset
<1>2. [y \in S \ {x} |-> g[y]] = rest
  OBVIOUS
<1>3. SumFunction(rest) \in Int
  <2> HIDE DEF rest
  <2> QED
    BY <1>1, SumType
<1>4. \A h \in [S -> Int] : SumFunction(h) = h[x] + SumFunction([y \in S \ {x} |-> h[y]])
  BY SumSplit
<1>5. SumFunction(f) = f[x] + SumFunction(rest)
  BY <1>4
<1>6. SumFunction(g) = g[x] + SumFunction(rest)
  <2> HIDE DEF rest
  <2> QED
    BY <1>2, <1>4
<1> HIDE DEF rest
<1> QED
  BY <1>3, <1>5, <1>6

\* No value smaller, no smaller sum.
LEMMA SumMonotone ==
  ASSUME NEW S, IsFiniteSet(S), NEW f \in [S -> Int], NEW g \in [S -> Int],
         \A x \in S : f[x] <= g[x]
  PROVE  SumFunction(f) <= SumFunction(g)
<1> DEFINE Sum(h, T) == SumFunctionOnSet(h, T)
<1> DEFINE G == {T \in SUBSET S : Sum(f, T) <= Sum(g, T)}
<1>0. \A T \in SUBSET S : Sum(f, T) \in Int /\ Sum(g, T) \in Int
  BY SumOnSetType
<1>1. {} \in G
  BY SumRecursion
<1>2. ASSUME NEW T \in SUBSET S, NEW x \in S \ T, T \in G
      PROVE  T \cup {x} \in G
  <2>1. (T \cup {x}) \ {x} = T
    OBVIOUS
  <2>2. Sum(f, T \cup {x}) = f[x] + Sum(f, T)
    BY <2>1, SumOnSetPick
  <2>3. Sum(g, T \cup {x}) = g[x] + Sum(g, T)
    BY <2>1, SumOnSetPick
  <2>4. Sum(f, T) <= Sum(g, T)
    BY <1>2
  <2> HIDE DEF Sum
  <2>5. f[x] + Sum(f, T) <= g[x] + Sum(g, T)
    BY <1>0, <2>4
  <2> QED
    BY <2>2, <2>3, <2>5
<1> HIDE DEF G
<1>3. S \in G
  BY <1>1, <1>2, SubsetInduction
<1> QED
  BY <1>3 DEF G, SumFunction

\* Natural numbers have a natural sum.
LEMMA SumNat ==
  ASSUME NEW S, IsFiniteSet(S), NEW f \in [S -> Nat]
  PROVE  SumFunction(f) \in Nat
<1> DEFINE G == {T \in SUBSET S : SumFunctionOnSet(f, T) \in Nat}
<1>0. f \in [S -> Int]
  OBVIOUS
<1>1. {} \in G
  <2>1. SumFunctionOnSet(f, {}) = 0
    BY SumRecursion
  <2> QED
    BY <2>1
<1>2. ASSUME NEW T \in SUBSET S, NEW x \in S \ T, T \in G
      PROVE  T \cup {x} \in G
  <2>1. (T \cup {x}) \ {x} = T
    OBVIOUS
  <2>2. SumFunctionOnSet(f, T \cup {x}) = f[x] + SumFunctionOnSet(f, T)
    BY <1>0, <2>1, SumOnSetPick
  <2> QED
    BY <1>2, <2>2
<1> HIDE DEF G
<1>3. S \in G
  BY <1>1, <1>2, SubsetInduction
<1> QED
  BY <1>3 DEF G, SumFunction

\* The sum of sums.
LEMMA SumAdd ==
  ASSUME NEW S, IsFiniteSet(S), NEW f \in [S -> Int], NEW g \in [S -> Int],
         NEW h \in [S -> Int], \A x \in S : h[x] = f[x] + g[x]
  PROVE  SumFunction(h) = SumFunction(f) + SumFunction(g)
<1> DEFINE Sum(k, T) == SumFunctionOnSet(k, T)
<1> DEFINE G == {T \in SUBSET S : Sum(h, T) = Sum(f, T) + Sum(g, T)}
<1>0. \A T \in SUBSET S : Sum(f, T) \in Int /\ Sum(g, T) \in Int /\ Sum(h, T) \in Int
  BY SumOnSetType
<1>1. {} \in G
  BY SumRecursion
<1>2. ASSUME NEW T \in SUBSET S, NEW x \in S \ T, T \in G
      PROVE  T \cup {x} \in G
  <2>1. (T \cup {x}) \ {x} = T
    OBVIOUS
  <2>2. /\ Sum(f, T \cup {x}) = f[x] + Sum(f, T)
        /\ Sum(g, T \cup {x}) = g[x] + Sum(g, T)
        /\ Sum(h, T \cup {x}) = h[x] + Sum(h, T)
    BY <2>1, SumOnSetPick
  <2>3. Sum(h, T) = Sum(f, T) + Sum(g, T)
    BY <1>2
  <2> HIDE DEF Sum
  <2> QED
    BY <1>0, <2>2, <2>3
<1> HIDE DEF G
<1>3. S \in G
  BY <1>1, <1>2, SubsetInduction
<1> QED
  BY <1>3 DEF G, SumFunction

\* A constant over some of the elements and nothing over the others.
LEMMA SumConstantOnSubset ==
  ASSUME NEW S, IsFiniteSet(S), NEW T \in SUBSET S, NEW c \in Int,
         NEW f \in [S -> Int], \A x \in S : f[x] = IF x \in T THEN c ELSE 0
  PROVE  SumFunction(f) = c * Cardinality(T)
<1> DEFINE G == {U \in SUBSET S : SumFunctionOnSet(f, U) = c * Cardinality(U \cap T)}
<1>1. {} \in G
  <2>1. {} \cap T = {}
    OBVIOUS
  <2>2. SumFunctionOnSet(f, {}) = 0 /\ Cardinality({} \cap T) = 0
    BY <2>1, SumRecursion, FS_EmptySet
  <2> QED
    BY <2>2
<1>2. ASSUME NEW U \in SUBSET S, NEW x \in S \ U, U \in G
      PROVE  U \cup {x} \in G
  <2>1. (U \cup {x}) \ {x} = U
    OBVIOUS
  <2>2. SumFunctionOnSet(f, U \cup {x}) = f[x] + SumFunctionOnSet(f, U)
    BY <2>1, SumOnSetPick
  <2> DEFINE n == Cardinality(U \cap T)
  <2>3. IsFiniteSet(U \cap T) /\ n \in Nat
    BY FS_Subset, FS_CardinalityType
  <2>4. CASE x \in T
    <3>1. (U \cup {x}) \cap T = (U \cap T) \cup {x} /\ x \notin U \cap T
      BY <2>4
    <3>2. Cardinality((U \cup {x}) \cap T) = n + 1
      BY <2>3, <3>1, FS_AddElement
    <3>3. SumFunctionOnSet(f, U) = c * n
      BY <1>2
    <3>4. c * (n + 1) = c + c * n
      <4> HIDE DEF n
      <4> QED
        BY <2>3
    <3> QED
      BY <2>2, <2>4, <3>2, <3>3, <3>4
  <2>5. CASE x \notin T
    <3>1. (U \cup {x}) \cap T = U \cap T
      BY <2>5
    <3>2. SumFunctionOnSet(f, U) = c * n
      BY <1>2
    <3>3. c * n \in Int
      <4> HIDE DEF n
      <4> QED
        BY <2>3
    <3>4. f[x] = 0
      BY <2>5
    <3>5. SumFunctionOnSet(f, U \cup {x}) = c * n
      <4> HIDE DEF n
      <4> QED
        BY <2>2, <3>2, <3>3, <3>4
    <3> QED
      BY <3>1, <3>5
  <2> QED
    BY <2>4, <2>5
<1> HIDE DEF G
<1>3. S \in G
  BY <1>1, <1>2, SubsetInduction
<1>4. S \cap T = T
  OBVIOUS
<1> QED
  BY <1>3, <1>4 DEF G, SumFunction

\* An element is at most the sum where nothing is negative.
LEMMA SumBound ==
  ASSUME NEW S, IsFiniteSet(S), NEW f \in [S -> Nat], NEW x \in S
  PROVE  f[x] <= SumFunction(f)
<1> DEFINE rest == [y \in S \ {x} |-> f[y]]
<1>1. f \in [S -> Int] /\ rest \in [S \ {x} -> Nat] /\ IsFiniteSet(S \ {x})
  BY FS_Subset
<1>2. SumFunction(f) = f[x] + SumFunction(rest)
  BY <1>1, SumSplit
<1> HIDE DEF rest
<1>3. SumFunction(rest) \in Nat
  BY <1>1, SumNat
<1> QED
  BY <1>2, <1>3

\* The sum of zeros.
LEMMA SumZero ==
  ASSUME NEW S, IsFiniteSet(S), NEW f \in [S -> Int], \A x \in S : f[x] = 0
  PROVE  SumFunction(f) = 0
<1>1. SumFunction(f) = 0 * Cardinality({})
  BY SumConstantOnSubset
<1> QED
  BY <1>1, FS_EmptySet

\* One index more, the summands being those of one function.
LEMMA SumOneMore ==
  ASSUME NEW S, IsFiniteSet(S), NEW x, x \notin S, NEW v, \A y \in S \cup {x} : v[y] \in Int
  PROVE  SumFunction([y \in S \cup {x} |-> v[y]]) = SumFunction([y \in S |-> v[y]]) + v[x]
<1> DEFINE f == [y \in S |-> v[y]]
<1> DEFINE g == [y \in S \cup {x} |-> v[y]]
<1>1. f \in [S -> Int] /\ g \in [S \cup {x} -> Int] /\ (\A y \in S : g[y] = f[y]) /\ g[x] = v[x]
  OBVIOUS
<1>2. IsFiniteSet(S) /\ x \notin S
  OBVIOUS
<1> HIDE DEF f, g
<1>3. SumFunction(g) = SumFunction(f) + g[x]
  BY ONLY <1>1, <1>2, SumInsert
<1> QED
  BY <1>1, <1>3 DEF f, g

\* A sum in parts: by the value of a key.
LEMMA SumPartition ==
  ASSUME NEW S, IsFiniteSet(S), NEW R, IsFiniteSet(R), NEW key \in [S -> R],
         NEW f \in [S -> Int]
  PROVE  SumFunction([r \in R |-> SumFunction([x \in {y \in S : key[y] = r} |-> f[x]])])
            = SumFunction(f)
<1> DEFINE Of(T, r) == {y \in T : key[y] = r}
<1> DEFINE Part(T, r) == SumFunction([x \in Of(T, r) |-> f[x]])
<1> DEFINE parts(T) == [r \in R |-> Part(T, r)]
<1> DEFINE whole(T) == [x \in T |-> f[x]]
<1> DEFINE G == {T \in SUBSET S : SumFunction(parts(T)) = SumFunction(whole(T))}
<1>0. ASSUME NEW T \in SUBSET S
      PROVE  /\ IsFiniteSet(T) /\ whole(T) \in [T -> Int]
             /\ \A r \in R : IsFiniteSet(Of(T, r)) /\ Part(T, r) \in Int
             /\ parts(T) \in [R -> Int]
  <2>1. IsFiniteSet(T)
    BY FS_Subset
  <2>2. ASSUME NEW r \in R PROVE IsFiniteSet(Of(T, r)) /\ Part(T, r) \in Int
    <3> DEFINE B == Of(T, r)
    <3>1. B \subseteq T /\ IsFiniteSet(B) /\ B \subseteq S
      BY <2>1, FS_Subset
    <3> HIDE DEF B
    <3>2. [x \in B |-> f[x]] \in [B -> Int]
      BY <3>1
    <3>3. SumFunction([x \in B |-> f[x]]) \in Int
      BY <3>1, <3>2, SumType
    <3> QED
      BY <3>1, <3>3 DEF B
  <2> QED
    BY <2>1, <2>2
<1>1. {} \in G
  <2>1. whole({}) = [x \in {} |-> f[x]] /\ SumFunction(whole({})) = 0
    BY SumEmpty
  <2>2. ASSUME NEW r \in R PROVE Part({}, r) = 0
    <3>1. DOMAIN [x \in Of({}, r) |-> f[x]] = {}
      OBVIOUS
    <3> QED
      BY <3>1, SumEmpty
  <2>3. parts({}) \in [R -> Int] /\ \A r \in R : parts({})[r] = 0
    BY <2>2
  <2> HIDE DEF parts
  <2>4. SumFunction(parts({})) = 0
    BY <2>3, SumZero
  <2> QED
    BY <2>1, <2>4
<1>2. ASSUME NEW T, T \subseteq S, NEW z, z \in S, z \notin T, T \in G
      PROVE  T \cup {z} \in G
  <2> DEFINE U == T \cup {z}
  <2> DEFINE k == key[z]
  <2>0. U \in SUBSET S /\ k \in R /\ f[z] \in Int
    BY <1>2
  <2> HIDE DEF U
  <2>1. /\ IsFiniteSet(T) /\ whole(T) \in [T -> Int] /\ whole(U) \in [U -> Int]
        /\ IsFiniteSet(Of(T, k)) /\ Part(T, k) \in Int
        /\ parts(T) \in [R -> Int] /\ parts(U) \in [R -> Int]
    BY <1>0, <1>2, <2>0
  <2>2. SumFunction(whole(U)) = SumFunction(whole(T)) + f[z]
    <3>1. IsFiniteSet(T) /\ z \notin T /\ \A y \in T \cup {z} : f[y] \in Int
      BY <1>2, <2>1
    <3>2. SumFunction([y \in T \cup {z} |-> f[y]]) = SumFunction([y \in T |-> f[y]]) + f[z]
      BY <3>1, SumOneMore
    <3> QED
      BY <3>2 DEF U
  <2>3. \A r \in R \ {k} : parts(U)[r] = parts(T)[r]
    <3> SUFFICES ASSUME NEW r \in R \ {k} PROVE Part(U, r) = Part(T, r)
      OBVIOUS
    <3>1. Of(U, r) = Of(T, r)
      BY DEF U
    <3> QED
      BY <3>1
  <2>4. Part(U, k) = Part(T, k) + f[z]
    <3> DEFINE B == Of(T, k)
    <3>1. Of(U, k) = B \cup {z} /\ z \notin B /\ B \subseteq S /\ IsFiniteSet(B)
      BY <1>2, <2>1 DEF U
    <3> HIDE DEF B
    <3>2. \A y \in B \cup {z} : f[y] \in Int
      BY <1>2, <3>1
    <3>3. SumFunction([y \in B \cup {z} |-> f[y]]) = SumFunction([y \in B |-> f[y]]) + f[z]
      BY <3>1, <3>2, SumOneMore
    <3> QED
      BY <3>1, <3>3 DEF B
  <2>5. parts(U)[k] = Part(U, k) /\ parts(T)[k] = Part(T, k)
    BY <2>0
  <2>6. SumFunction(parts(T)) \in Int /\ SumFunction(whole(T)) = SumFunction(parts(T))
    <3>1. SumFunction(whole(T)) = SumFunction(parts(T))
      BY <1>2
    <3> DEFINE p == parts(T)
    <3>2. p \in [R -> Int]
      BY <2>1
    <3> HIDE DEF p
    <3>3. SumFunction(p) \in Int
      BY <3>2, SumType
    <3> QED
      BY <3>1, <3>3 DEF p
  <2> DEFINE p == parts(T)
  <2> DEFINE q == parts(U)
  <2>7. p \in [R -> Int] /\ q \in [R -> Int] /\ (\A r \in R \ {k} : q[r] = p[r])
        /\ q[k] = p[k] + f[z] /\ p[k] \in Int
    BY <2>0, <2>1, <2>3, <2>4, <2>5
  <2> HIDE DEF parts, whole, Part, p, q, k
  <2>8. SumFunction(q) = SumFunction(p) + q[k] - p[k]
    <3>1. IsFiniteSet(R) /\ k \in R
      BY <2>0 DEF k
    <3> QED
      BY ONLY <2>7, <3>1, SumUpdate
  <2>9. SumFunction(q) = SumFunction(whole(U))
    BY <2>0, <2>2, <2>6, <2>7, <2>8 DEF p
  <2> QED
    BY <2>0, <2>9 DEF q, U
<1>3. S \in G
  <2> HIDE DEF G
  <2> QED
    BY <1>1, <1>2, SubsetInduction
<1>4. whole(S) = f
  OBVIOUS
<1> QED
  BY <1>3, <1>4
=============================================================================
