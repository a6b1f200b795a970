-------------------------- MODULE AlgorithmProofs ---------------------------
(***************************************************************************)
(* What the pure algorithms of the models compute, whatever the protocol   *)
(* that runs them: the sorting network, and the arithmetic of polynomials. *)
(*                                                                         *)
(* The bitonic network sorts, for every length it accepts.  A block is     *)
(* bitonic if its keys do not go up, down and up again, or down, up and    *)
(* down.  A level at distance j turns the bitonic blocks of 2j keys into   *)
(* bitonic blocks of j keys and puts each of the two on its side of the    *)
(* other; blocks of one key that lie on their sides are in order.          *)
(*                                                                         *)
(* Two numbers stand for the same element of the field when they differ by *)
(* a multiple of the prime.  A polynomial is known by its value, a sum of  *)
(* terms, and the operations on coefficients by what they do to it.        *)
(***************************************************************************)
EXTENDS SortingNetwork, Polynomial, FiniteSetTheorems, WellFoundedInduction, TLAPS

Keys(n) == [0 .. n-1 -> Int]

\* Two high keys with two low ones between or beside them, by turns.
Zigzag(a, b, c, d) ==
    \/ a > b /\ a > d /\ c > b /\ c > d
    \/ a < b /\ a < d /\ c < b /\ c < d

\* No block of w keys goes up and down more than once.
Bitonic(a, n, w) ==
    \A p, q, r, s \in 0 .. n-1 :
        p < q /\ q < r /\ r < s /\ p \div w = s \div w => ~ Zigzag(a[p], a[q], a[r], a[s])

\* In a block of k, the blocks of w lie in the direction of the block.
Separated(a, n, k, w) ==
    \A p, q \in 0 .. n-1 :
        p < q /\ p \div k = q \div k /\ p \div w # q \div w =>
            IF Ascending(p, k) THEN a[p] <= a[q] ELSE a[p] >= a[q]

\* The array is made of whole blocks of w.
Whole(n, w) == \E b \in Nat : n = w * b

-----------------------------------------------------------------------------
(* Numbers and powers of two.                                              *)

LEMMA LeastNatural ==
    ASSUME NEW S \in SUBSET Nat, S # {}
    PROVE  \E m \in S : \A n \in S : m <= n
<1>1. PICK x \in S : \A y \in S : ~ (<<y, x>> \in OpToRel(<, Nat))
  BY NatLessThanWellFounded, WFMin
<1>2. \A y \in S : ~ (y < x)
  BY <1>1 DEF OpToRel
<1> QED BY <1>2

\* There are twice as many subsets with one element more.
LEMMA TwoTimesPower ==
    ASSUME NEW m \in Nat
    PROVE  2 ^ (m + 1) = 2 * 2 ^ m /\ 2 ^ m \in Nat
<1> DEFINE S == 1 .. m
           x == m + 1
           A == SUBSET S
           B == {T \cup {x} : T \in A}
           f == [T \in A |-> T \cup {x}]
<1>1. IsFiniteSet(S) /\ Cardinality(S) = m /\ IsFiniteSet(1 .. m + 1) /\ Cardinality(1 .. m + 1) = m + 1
  BY FS_Interval
<1>2. 1 .. m + 1 = S \cup {x} /\ x \notin S
  OBVIOUS
<1>3. IsFiniteSet(A) /\ Cardinality(A) = 2 ^ m /\ 2 ^ m \in Nat
  <2> HIDE DEF S
  <2>1. IsFiniteSet(A) /\ Cardinality(A) = 2 ^ m
    BY <1>1, FS_SUBSET
  <2>2. Cardinality(A) \in Nat
    BY <2>1, FS_CardinalityType
  <2> QED BY <2>1, <2>2
<1>4. Cardinality(SUBSET (S \cup {x})) = 2 ^ (m + 1)
  <2>1. IsFiniteSet(S \cup {x}) /\ Cardinality(S \cup {x}) = m + 1
    BY <1>1, <1>2
  <2> HIDE DEF S, x
  <2> QED BY <2>1, FS_SUBSET
<1> HIDE DEF S, x
<1>5. SUBSET (S \cup {x}) = A \cup B
  <2> SUFFICES ASSUME NEW T \in SUBSET (S \cup {x}) PROVE T \in A \cup B
    OBVIOUS
  <2>1. CASE x \in T
    <3>1. T = (T \ {x}) \cup {x} /\ T \ {x} \in A
      BY <2>1
    <3> QED BY <3>1
  <2>2. CASE x \notin T
    BY <2>2
  <2> QED BY <2>1, <2>2
<1>6. A \cap B = {}
  BY <1>2
<1>7. f \in Bijection(A, B)
  <2>1. f \in [A -> B]
    OBVIOUS
  <2>2. \A T, U \in A : f[T] = f[U] => T = U
    <3>1. \A T \in A : f[T] \ {x} = T
      BY <1>2
    <3> HIDE DEF f
    <3> QED BY <3>1
  <2>3. \A U \in B : \E T \in A : f[T] = U
    OBVIOUS
  <2> QED BY <2>1, <2>2, <2>3 DEF Bijection, Injection, Surjection, IsInjective
<1>8. IsFiniteSet(B) /\ Cardinality(B) = 2 ^ m
  <2> HIDE DEF A, B, f
  <2> QED BY <1>3, <1>7, FS_Bijection DEF ExistsBijection
<1>9. Cardinality(A \cup B) = 2 ^ m + 2 ^ m - Cardinality(A \cap B)
  <2> HIDE DEF A, B
  <2> QED BY <1>3, <1>8, FS_Union
<1>10. Cardinality(A \cap B) = 0
  BY <1>6, FS_EmptySet
<1> DEFINE e == 2 ^ m
           d == 2 ^ (m + 1)
           c == Cardinality(A \cup B)
<1>11. e \in Nat /\ d = c /\ c = e + e - Cardinality(A \cap B)
  BY <1>3, <1>4, <1>5, <1>9
<1> HIDE DEF e, d, c, A, B
<1>12. d = 2 * e
  BY <1>10, <1>11
<1> QED BY <1>11, <1>12 DEF d, e

-----------------------------------------------------------------------------
(* Blocks of w records: p \div w is the block of p.                        *)

LEMMA DivMod ==
    ASSUME NEW i \in Nat, NEW w \in Nat \ {0}
    PROVE  /\ i \div w \in Nat /\ i % w \in 0 .. w - 1
           /\ i = w * (i \div w) + (i % w)
OBVIOUS

LEMMA DivIs ==
    ASSUME NEW b \in Nat, NEW w \in Nat \ {0}, NEW x \in Nat, x < w
    PROVE  (w * b + x) \div w = b
OBVIOUS

LEMMA DivOrder ==
    ASSUME NEW p \in Nat, NEW q \in Nat, NEW w \in Nat \ {0}
    PROVE  /\ p <= q => p \div w <= q \div w
           /\ p \div w < q \div w => p < q
OBVIOUS

LEMMA DivDiv ==
    ASSUME NEW p \in Nat, NEW w \in Nat \ {0}, NEW q \in Nat \ {0}
    PROVE  p \div (q * w) = (p \div w) \div q
OBVIOUS

LEMMA DivNext ==
    ASSUME NEW p \in Nat, NEW w \in Nat \ {0}
    PROVE  (p + w) \div w = (p \div w) + 1
OBVIOUS

\* What is below the number of a block is in a block before it.
LEMMA DivBound ==
    ASSUME NEW n \in Nat, NEW w \in Nat \ {0}, Whole(n, w), NEW i \in Nat
    PROVE  i < n <=> i \div w < n \div w
<1>1. PICK b \in Nat : n = w * b
  BY DEF Whole
<1>2. n \div w = b
  <2>1. (w * b + 0) \div w = b
    BY DivIs
  <2> QED BY <1>1, <2>1
<1>3. i = w * (i \div w) + (i % w) /\ i % w \in 0 .. w - 1 /\ i \div w \in Nat
  BY DivMod
<1>4. CASE i \div w < b
  <2>1. i < n
    BY <1>1, <1>2, <1>4, DivOrder
  <2> QED BY <1>2, <1>4, <2>1
<1>5. CASE ~ (i \div w < b)
  <2>1. ~ (i < n)
    <3>1. w * (i \div w) >= w * b
      BY <1>3, <1>5
    <3> QED BY <1>1, <1>3, <3>1
  <2> QED BY <1>2, <1>5, <2>1
<1> QED BY <1>4, <1>5

-----------------------------------------------------------------------------
(* The pairs of a level.                                                   *)

LEMMA PartnerIs ==
    ASSUME NEW n \in Nat, NEW j \in Nat \ {0}, Whole(n, 2 * j), NEW i \in 0 .. n-1
    PROVE  /\ Partner(i, j) \in 0 .. n-1
           /\ (i \div j) % 2 = 0 => Partner(i, j) = i + j /\ Partner(i, j) \div j = (i \div j) + 1
           /\ (i \div j) % 2 # 0 => Partner(i, j) = i - j /\ Partner(i, j) \div j = (i \div j) - 1
           /\ Partner(i, j) \div (2 * j) = i \div (2 * j)
           /\ Partner(Partner(i, j), j) = i
<1> DEFINE b == i \div j
           r == i % j
           o == Partner(i, j)
<1>1. i \in Nat
  OBVIOUS
<1>2. b \in Nat /\ r \in 0 .. j - 1 /\ i = j * b + r
  BY <1>1, DivMod, Zenon
<1>3. /\ b % 2 = 0 => o = i + j
      /\ b % 2 # 0 => o = i - j
  BY DEF Partner
<1>4. (i + j) \div j = b + 1
  BY <1>1, DivNext, Zenon
<1>5. b # 0 => i - j \in Nat /\ (i - j) \div j = b - 1
  <2> SUFFICES ASSUME b # 0 PROVE i - j \in Nat /\ (i - j) \div j = b - 1
    OBVIOUS
  <2> HIDE DEF b, r
  <2>1. b - 1 \in Nat /\ r \in Nat /\ r < j
    BY <1>2
  <2>2. (j * (b - 1) + r) \div j = b - 1
    BY <2>1, DivIs, Zenon
  <2>3. i - j = j * (b - 1) + r
    BY <1>2
  <2>4. j * (b - 1) \in Nat
    BY <2>1
  <2> QED BY <2>1, <2>2, <2>3, <2>4
<1> HIDE DEF o, b, r
<1>6. /\ o \in Nat
      /\ b % 2 = 0 => o \div j = b + 1
      /\ b % 2 # 0 => o \div j = b - 1
  BY <1>1, <1>2, <1>3, <1>4, <1>5
<1>7. o \div (2 * j) = (o \div j) \div 2 /\ i \div (2 * j) = b \div 2
  <2>1. 2 \in Nat \ {0}
    OBVIOUS
  <2> QED BY <1>1, <1>6, <2>1, DivDiv, Zenon DEF b
<1>8. o \div (2 * j) = i \div (2 * j)
  BY <1>2, <1>6, <1>7
<1>9. o < n
  <2>1. 2 * j \in Nat \ {0} /\ i < n
    OBVIOUS
  <2>2. i \div (2 * j) < n \div (2 * j)
    BY <1>1, <2>1, DivBound, Zenon
  <2> QED BY <1>6, <1>8, <2>1, <2>2, DivBound, Zenon
<1>10. Partner(o, j) = i
  BY <1>1, <1>2, <1>3, <1>6 DEF Partner
<1> QED BY <1>3, <1>6, <1>8, <1>9, <1>10 DEF o, b

\* Both indices of a pair see the same comparison.
LEMMA PairIs ==
    ASSUME NEW n \in Nat, NEW j \in Nat \ {0}, Whole(n, 2 * j), NEW i \in 0 .. n-1
    PROVE  /\ Lower(Partner(i, j), j) = Lower(i, j)
           /\ Upper(Partner(i, j), j) = Upper(i, j)
           /\ Partner(i, j) # i
           /\ (i \div j) % 2 = 0 => Lower(i, j) = i /\ Upper(i, j) = i + j
           /\ (i \div j) % 2 # 0 => Lower(i, j) = i - j /\ Upper(i, j) = i
<1>1. /\ i \in Nat /\ Partner(i, j) \in Nat
      /\ (i \div j) % 2 = 0 => Partner(i, j) = i + j
      /\ (i \div j) % 2 # 0 => Partner(i, j) = i - j
      /\ Partner(Partner(i, j), j) = i
  <2>1. Partner(i, j) \in 0 .. n-1 /\ Partner(Partner(i, j), j) = i
    BY PartnerIs, ZenonT(40)
  <2>2. /\ (i \div j) % 2 = 0 => Partner(i, j) = i + j
        /\ (i \div j) % 2 # 0 => Partner(i, j) = i - j
    BY PartnerIs, Zenon
  <2> QED BY <2>1, <2>2
<1> QED BY <1>1 DEF Lower, Upper

\* A level compares each key with that of its partner, and puts the pair in
\* the direction of the block of k that it lies in.
LEMMA LevelKeys ==
    ASSUME NEW n \in Nat, NEW j \in Nat \ {0}, Whole(n, 2 * j), NEW q \in Nat \ {0},
           NEW a \in Keys(n), NEW i \in 0 .. n-1
    PROVE  LET c == Exchange(a, a, q * (2 * j), j)
               o == Partner(i, j)
               up == Ascending(i, q * (2 * j))
               low == (i \div j) % 2 = 0
           IN  /\ c \in Keys(n)
               /\ c[i] = a[i] \/ c[i] = a[o]
               /\ (low <=> up) => c[i] <= a[i] /\ c[i] <= a[o]
               /\ ~ (low <=> up) => c[i] >= a[i] /\ c[i] >= a[o]
<1> DEFINE k == q * (2 * j)
           o == Partner(i, j)
           c == Exchange(a, a, k, j)
<1>1. k \in Nat \ {0} /\ 2 * j \in Nat \ {0} /\ i \in Nat
  OBVIOUS
<1>2. \A h \in 0 .. n-1 : Partner(h, j) \in 0 .. n-1
  BY PartnerIs
<1>3. DOMAIN a = 0 .. n-1 /\ \A h \in 0 .. n-1 : a[h] \in Int
  BY DEF Keys
<1>4. c \in Keys(n)
  BY <1>2, <1>3 DEF Exchange, Keys
<1>5. c[i] = IF Swaps(a, k, j, i) THEN a[o] ELSE a[i]
  BY <1>3 DEF Exchange
<1>6. o \in 0 .. n-1 /\ o \div (2 * j) = i \div (2 * j)
  BY PartnerIs
<1>7. Ascending(Lower(i, j), k) <=> Ascending(i, k)
  <2>1. \A h \in Nat : h \div k = (h \div (2 * j)) \div q
    BY <1>1, DivDiv, ZenonT(40)
  <2>2. Lower(i, j) = i \/ Lower(i, j) = o
    BY DEF Lower
  <2>3. o \div k = i \div k
    <3>1. o \in Nat
      BY <1>6
    <3> QED BY <1>1, <1>6, <2>1, <3>1, Zenon
  <2> QED BY <2>2, <2>3, Zenon DEF Ascending
<1>8. /\ (i \div j) % 2 = 0 => Lower(i, j) = i /\ Upper(i, j) = o
      /\ (i \div j) % 2 # 0 => Lower(i, j) = o /\ Upper(i, j) = i
  <2>1. /\ (i \div j) % 2 = 0 => Lower(i, j) = i /\ Upper(i, j) = i + j
        /\ (i \div j) % 2 # 0 => Lower(i, j) = i - j /\ Upper(i, j) = i
    BY PairIs, ZenonT(40)
  <2>2. /\ (i \div j) % 2 = 0 => o = i + j
        /\ (i \div j) % 2 # 0 => o = i - j
    BY DEF Partner
  <2> QED BY <2>1, <2>2
<1>9. a[i] \in Int /\ a[o] \in Int
  BY <1>3, <1>6
<1>10. Swaps(a, k, j, i) <=>
         IF Ascending(i, k) THEN ~ (a[Lower(i, j)] < a[Upper(i, j)])
         ELSE a[Lower(i, j)] < a[Upper(i, j)]
  BY <1>7 DEF Swaps
<1> DEFINE b == i \div j
           e == i \div k
<1>11. /\ b % 2 = 0 => Lower(i, j) = i /\ Upper(i, j) = o
       /\ b % 2 # 0 => Lower(i, j) = o /\ Upper(i, j) = i
       /\ Ascending(i, k) <=> e % 2 = 0
  BY <1>8 DEF Ascending
<1> HIDE DEF c, o, k, b, e
<1>12. /\ c[i] = a[i] \/ c[i] = a[o]
       /\ (b % 2 = 0 <=> e % 2 = 0) => c[i] <= a[i] /\ c[i] <= a[o]
       /\ ~ (b % 2 = 0 <=> e % 2 = 0) => c[i] >= a[i] /\ c[i] >= a[o]
  <2>1. CASE b % 2 = 0
    BY <1>5, <1>9, <1>10, <1>11, <2>1
  <2>2. CASE b % 2 # 0
    BY <1>5, <1>9, <1>10, <1>11, <2>2
  <2> QED BY <2>1, <2>2
<1>13. e % 2 = 0 <=> Ascending(i, k)
  BY DEF e, Ascending
<1> QED BY <1>4, <1>12, <1>13 DEF c, o, k, b


-----------------------------------------------------------------------------
(* What a level does to the blocks.                                        *)

\* The lower ones of four pairs go up and down once, if the eight keys do;
\* so do the higher ones.
LEMMA HalfZigzag ==
    ASSUME NEW u1 \in Int, NEW u2 \in Int, NEW u3 \in Int, NEW u4 \in Int,
           NEW v1 \in Int, NEW v2 \in Int, NEW v3 \in Int, NEW v4 \in Int,
           NEW h1 \in {u1, v1}, NEW h2 \in {u2, v2}, NEW h3 \in {u3, v3}, NEW h4 \in {u4, v4},
           ~ Zigzag(u1, u2, u3, u4), ~ Zigzag(v1, v2, v3, v4),
           ~ Zigzag(u1, u2, u3, v4), ~ Zigzag(u3, u4, v1, v2),
           ~ Zigzag(u1, u2, v3, v4), ~ Zigzag(u2, u3, u4, v1),
           \/ h1 <= u1 /\ h1 <= v1 /\ h2 <= u2 /\ h2 <= v2 /\ h3 <= u3 /\ h3 <= v3 /\ h4 <= u4 /\ h4 <= v4
           \/ h1 >= u1 /\ h1 >= v1 /\ h2 >= u2 /\ h2 >= v2 /\ h3 >= u3 /\ h3 >= v3 /\ h4 >= u4 /\ h4 >= v4
    PROVE  ~ Zigzag(h1, h2, h3, h4)
BY DEF Zigzag

LEMMA LevelBitonic ==
    ASSUME NEW n \in Nat, NEW j \in Nat \ {0}, Whole(n, 2 * j), NEW q \in Nat \ {0},
           NEW a \in Keys(n), Bitonic(a, n, 2 * j)
    PROVE  Bitonic(Exchange(a, a, q * (2 * j), j), n, j)
<1> DEFINE k == q * (2 * j)
           c == Exchange(a, a, k, j)
           P(i) == Partner(i, j)
<1> SUFFICES ASSUME NEW i1 \in 0 .. n-1, NEW i2 \in 0 .. n-1, NEW i3 \in 0 .. n-1, NEW i4 \in 0 .. n-1,
                    i1 < i2, i2 < i3, i3 < i4, i1 \div j = i4 \div j
             PROVE  ~ Zigzag(c[i1], c[i2], c[i3], c[i4])
  BY DEF Bitonic
<1>1. /\ i1 \in Nat /\ i2 \in Nat /\ i3 \in Nat /\ i4 \in Nat
      /\ i1 \div j \in Nat /\ i2 \div j \in Nat /\ i3 \div j \in Nat
  <2>1. i1 \in Nat /\ i2 \in Nat /\ i3 \in Nat /\ i4 \in Nat
    OBVIOUS
  <2> QED BY <2>1, DivMod, Zenon
<1>2. i2 \div j = i1 \div j /\ i3 \div j = i1 \div j
  <2>1. i1 <= i2 /\ i2 <= i4 /\ i1 <= i3 /\ i3 <= i4
    BY <1>1
  <2>2. i1 \div j <= i2 \div j /\ i2 \div j <= i4 \div j /\ i1 \div j <= i3 \div j /\ i3 \div j <= i4 \div j
    BY <1>1, <2>1, DivOrder, Zenon
  <2> QED BY <1>1, <2>2
<1>3. i4 < i1 + j
  <2>1. i1 = j * (i1 \div j) + (i1 % j) /\ i4 = j * (i4 \div j) + (i4 % j)
    BY <1>1, DivMod, Zenon
  <2>2. i1 % j \in 0 .. j - 1 /\ i4 % j \in 0 .. j - 1
    BY <1>1, DivMod, Zenon
  <2> QED BY <1>1, <2>1, <2>2
<1> DEFINE b == i1 \div j
           e == i1 \div (2 * j)
<1>4. \A i \in {i1, i2, i3, i4} :
        /\ P(i) \in 0 .. n-1
        /\ b % 2 = 0 => P(i) = i + j
        /\ b % 2 # 0 => P(i) = i - j
        /\ P(i) \div (2 * j) = i \div (2 * j)
  <2>1. \A i \in 0 .. n-1 :
          /\ Partner(i, j) \in 0 .. n-1
          /\ (i \div j) % 2 = 0 => Partner(i, j) = i + j
          /\ (i \div j) % 2 # 0 => Partner(i, j) = i - j
          /\ Partner(i, j) \div (2 * j) = i \div (2 * j)
    BY PartnerIs, ZenonT(40)
  <2>2. \A i \in {i1, i2, i3, i4} : i \in 0 .. n-1 /\ i \div j = b
    BY <1>2
  <2> HIDE DEF b
  <2> QED BY <2>1, <2>2
<1>5. \A i \in {i1, i2, i3, i4} : i \div (2 * j) = e
  <2>1. 2 \in Nat \ {0}
    OBVIOUS
  <2>2. \A i \in Nat : i \div (2 * j) = (i \div j) \div 2
    BY <2>1, DivDiv, Zenon
  <2> QED BY <1>1, <1>2, <2>2
<1>6. \A i \in {i1, i2, i3, i4} : i \div k = e \div q
  <2>1. \A i \in {i1, i2, i3, i4} : i \in Nat
    BY <1>1
  <2>2. 2 * j \in Nat \ {0}
    OBVIOUS
  <2>3. \A i \in Nat : i \div k = (i \div (2 * j)) \div q
    BY <2>2, DivDiv, Zenon
  <2> HIDE DEF k, e
  <2> QED BY <1>5, <2>1, <2>3, Zenon
<1>7. \A i \in {i1, i2, i3, i4} :
        /\ c[i] = a[i] \/ c[i] = a[P(i)]
        /\ (b % 2 = 0 <=> (e \div q) % 2 = 0) => c[i] <= a[i] /\ c[i] <= a[P(i)]
        /\ ~ (b % 2 = 0 <=> (e \div q) % 2 = 0) => c[i] >= a[i] /\ c[i] >= a[P(i)]
  <2>1. \A i \in 0 .. n-1 :
          /\ c[i] = a[i] \/ c[i] = a[P(i)]
          /\ ((i \div j) % 2 = 0 <=> (i \div k) % 2 = 0) => c[i] <= a[i] /\ c[i] <= a[P(i)]
          /\ ~ ((i \div j) % 2 = 0 <=> (i \div k) % 2 = 0) => c[i] >= a[i] /\ c[i] >= a[P(i)]
    BY LevelKeys DEF Ascending
  <2>2. \A i \in {i1, i2, i3, i4} : i \in 0 .. n-1 /\ i \div j = b
    BY <1>2
  <2> HIDE DEF b, k, e, P, c
  <2> QED BY <1>6, <2>1, <2>2, Zenon
<1>8. \A x \in 0 .. n-1 : a[x] \in Int
  BY DEF Keys
<1> HIDE DEF c, k, b
<1>9. \A p1, p2, p3, p4 \in {i1, i2, i3, i4} \cup {P(i1), P(i2), P(i3), P(i4)} :
        p1 < p2 /\ p2 < p3 /\ p3 < p4 => ~ Zigzag(a[p1], a[p2], a[p3], a[p4])
  <2>1. \A x \in {i1, i2, i3, i4} \cup {P(i1), P(i2), P(i3), P(i4)} : x \in 0 .. n-1 /\ x \div (2 * j) = e
    BY <1>4, <1>5
  <2> HIDE DEF P, e
  <2> QED BY <2>1 DEF Bitonic
<1> DEFINE w1 == a[P(i1)]
           w2 == a[P(i2)]
           w3 == a[P(i3)]
           w4 == a[P(i4)]
<1>10. /\ c[i1] \in {a[i1], w1} /\ c[i2] \in {a[i2], w2} /\ c[i3] \in {a[i3], w3} /\ c[i4] \in {a[i4], w4}
       /\ \/ /\ c[i1] <= a[i1] /\ c[i1] <= w1 /\ c[i2] <= a[i2] /\ c[i2] <= w2
             /\ c[i3] <= a[i3] /\ c[i3] <= w3 /\ c[i4] <= a[i4] /\ c[i4] <= w4
          \/ /\ c[i1] >= a[i1] /\ c[i1] >= w1 /\ c[i2] >= a[i2] /\ c[i2] >= w2
             /\ c[i3] >= a[i3] /\ c[i3] >= w3 /\ c[i4] >= a[i4] /\ c[i4] >= w4
  BY <1>7
<1>11. /\ a[i1] \in Int /\ a[i2] \in Int /\ a[i3] \in Int /\ a[i4] \in Int
       /\ w1 \in Int /\ w2 \in Int /\ w3 \in Int /\ w4 \in Int
  BY <1>4, <1>8
<1>12. CASE b % 2 = 0
  <2>1. /\ P(i1) = i1 + j /\ P(i2) = i2 + j /\ P(i3) = i3 + j /\ P(i4) = i4 + j
    BY <1>4, <1>12
  <2>2. i4 < P(i1) /\ P(i1) < P(i2) /\ P(i2) < P(i3) /\ P(i3) < P(i4)
        /\ i3 < P(i1) /\ i3 < P(i4) /\ i2 < P(i3)
    BY <1>1, <1>3, <2>1
  <2> HIDE DEF P
  <2>3. /\ ~ Zigzag(a[i1], a[i2], a[i3], a[i4]) /\ ~ Zigzag(w1, w2, w3, w4)
        /\ ~ Zigzag(a[i1], a[i2], a[i3], w4) /\ ~ Zigzag(a[i3], a[i4], w1, w2)
        /\ ~ Zigzag(a[i1], a[i2], w3, w4) /\ ~ Zigzag(a[i2], a[i3], a[i4], w1)
    BY <1>9, <2>2
  <2> HIDE DEF w1, w2, w3, w4
  <2> QED BY <1>10, <1>11, <2>3, HalfZigzag
<1>13. CASE b % 2 # 0
  <2>1. /\ P(i1) = i1 - j /\ P(i2) = i2 - j /\ P(i3) = i3 - j /\ P(i4) = i4 - j
    BY <1>4, <1>13
  <2>2. P(i4) < i1 /\ P(i1) < P(i2) /\ P(i2) < P(i3) /\ P(i3) < P(i4)
        /\ P(i3) < i1 /\ P(i3) < i4 /\ P(i2) < i3
    BY <1>1, <1>3, <2>1
  <2> HIDE DEF P
  <2>3. /\ ~ Zigzag(a[i1], a[i2], a[i3], a[i4]) /\ ~ Zigzag(w1, w2, w3, w4)
        /\ ~ Zigzag(w1, w2, w3, a[i4]) /\ ~ Zigzag(w3, w4, a[i1], a[i2])
        /\ ~ Zigzag(w1, w2, a[i3], a[i4]) /\ ~ Zigzag(w2, w3, w4, a[i1])
    BY <1>9, <2>2
  <2>4. c[i1] \in {w1, a[i1]} /\ c[i2] \in {w2, a[i2]} /\ c[i3] \in {w3, a[i3]} /\ c[i4] \in {w4, a[i4]}
    BY <1>10
  <2> HIDE DEF w1, w2, w3, w4
  <2> QED BY <1>10, <1>11, <2>3, <2>4, HalfZigzag
<1> QED BY <1>12, <1>13


\* What a level leaves at i comes from the pair of i, which lies in one block.
LEMMA LevelStays ==
    ASSUME NEW n \in Nat, NEW j \in Nat \ {0}, Whole(n, 2 * j), NEW q \in Nat \ {0},
           NEW a \in Keys(n)
    PROVE  \A i \in 0 .. n-1 : \E u \in 0 .. n-1 :
              /\ Exchange(a, a, q * (2 * j), j)[i] = a[u]
              /\ u \div (2 * j) = i \div (2 * j)
              /\ u \div (q * (2 * j)) = i \div (q * (2 * j))
<1> DEFINE k == q * (2 * j)
           c == Exchange(a, a, k, j)
<1> SUFFICES ASSUME NEW i \in 0 .. n-1
             PROVE  \E u \in 0 .. n-1 : /\ c[i] = a[u]
                                        /\ u \div (2 * j) = i \div (2 * j)
                                        /\ u \div k = i \div k
  OBVIOUS
<1> DEFINE o == Partner(i, j)
<1>1. o \in 0 .. n-1 /\ o \div (2 * j) = i \div (2 * j)
  BY PartnerIs, Zenon
<1>2. \A h \in Nat : h \div k = (h \div (2 * j)) \div q
  <2>1. 2 * j \in Nat \ {0}
    OBVIOUS
  <2> QED BY <2>1, DivDiv, ZenonT(40)
<1>3. o \div k = i \div k
  <2>1. o \in Nat /\ i \in Nat
    BY <1>1
  <2> HIDE DEF k, o
  <2> QED BY <1>1, <1>2, <2>1, Zenon
<1>4. c[i] = a[i] \/ c[i] = a[o]
  BY LevelKeys
<1> HIDE DEF c, o, k
<1>5. \E u \in 0 .. n-1 : c[i] = a[u] /\ u \div (2 * j) = i \div (2 * j) /\ u \div k = i \div k
  BY <1>1, <1>3, <1>4, Zenon
<1> QED BY <1>5 DEF c, k

LEMMA LevelSeparated ==
    ASSUME NEW n \in Nat, NEW j \in Nat \ {0}, Whole(n, 2 * j), NEW q \in Nat \ {0},
           NEW a \in Keys(n), Bitonic(a, n, 2 * j), Separated(a, n, q * (2 * j), 2 * j)
    PROVE  Separated(Exchange(a, a, q * (2 * j), j), n, q * (2 * j), j)
<1> DEFINE k == q * (2 * j)
           c == Exchange(a, a, k, j)
           P(i) == Partner(i, j)
<1> SUFFICES ASSUME NEW x \in 0 .. n-1, NEW y \in 0 .. n-1,
                    x < y, x \div k = y \div k, x \div j # y \div j
             PROVE  IF Ascending(x, k) THEN c[x] <= c[y] ELSE c[x] >= c[y]
  BY DEF Separated
<1> DEFINE e == x \div k
<1>1. x \in Nat /\ y \in Nat /\ 2 * j \in Nat \ {0} /\ 2 \in Nat \ {0}
  OBVIOUS
<1>2. x \div (2 * j) <= y \div (2 * j) /\ x \div (2 * j) \in Nat /\ y \div (2 * j) \in Nat
  <2>1. x <= y
    OBVIOUS
  <2> QED BY <1>1, <2>1, DivOrder, DivMod, Zenon
<1>3. CASE x \div (2 * j) # y \div (2 * j)
  <2>0. \A i \in 0 .. n-1 : \E u \in 0 .. n-1 :
          /\ c[i] = a[u]
          /\ u \div (2 * j) = i \div (2 * j)
          /\ u \div k = i \div k
    BY LevelStays, ZenonT(40)
  <2> HIDE DEF c, k
  <2>1. PICK u \in 0 .. n-1 : c[x] = a[u] /\ u \div (2 * j) = x \div (2 * j) /\ u \div k = x \div k
    BY <2>0, Zenon
  <2>2. PICK v \in 0 .. n-1 : c[y] = a[v] /\ v \div (2 * j) = y \div (2 * j) /\ v \div k = y \div k
    BY <2>0, Zenon
  <2>3. u < v
    <3>1. u \div (2 * j) < v \div (2 * j)
      BY <1>2, <1>3, <2>1, <2>2
    <3>2. u \in Nat /\ v \in Nat
      OBVIOUS
    <3> QED BY <1>1, <3>1, <3>2, DivOrder, Zenon
  <2>4. u \div k = v \div k /\ u \div (2 * j) # v \div (2 * j)
    BY <1>3, <2>1, <2>2
  <2>5. IF Ascending(u, k) THEN a[u] <= a[v] ELSE a[u] >= a[v]
    BY <2>3, <2>4, Zenon DEF Separated, k
  <2>6. Ascending(u, k) <=> Ascending(x, k)
    BY <2>1, Zenon DEF Ascending
  <2> HIDE DEF c, k
  <2> QED BY <2>1, <2>2, <2>5, <2>6, Zenon
<1>4. CASE x \div (2 * j) = y \div (2 * j)
  <2> DEFINE m == x \div j
             w == y \div j
             d == x \div (2 * j)
  <2>1. /\ m \in Nat /\ x % j \in 0 .. j - 1 /\ x = j * m + (x % j)
        /\ w \in Nat /\ y % j \in 0 .. j - 1 /\ y = j * w + (y % j)
    BY <1>1, DivMod, Zenon
  <2>2. d = m \div 2 /\ d = w \div 2
    BY <1>1, <1>4, DivDiv, ZenonT(40)
  <2>3. m <= w
    <3>1. x <= y
      OBVIOUS
    <3> QED BY <1>1, <3>1, DivOrder, Zenon
  <2>4. m % 2 = 0 /\ w % 2 # 0 /\ w = m + 1
    <3>1. m # w
      OBVIOUS
    <3> HIDE DEF m, w, d
    <3> QED BY <2>1, <2>2, <2>3, <3>1
  <2>5. /\ P(x) = x + j /\ P(x) \in 0 .. n-1 /\ P(x) \div (2 * j) = d
        /\ P(y) = y - j /\ P(y) \in 0 .. n-1 /\ P(y) \div (2 * j) = d
    BY <1>4, <2>4, PartnerIs, Zenon
  <2>6. P(y) < P(x)
    <3> DEFINE r == x % j
               s == y % j
               g == j * m
    <3>1. j * w = g + j /\ g \in Nat
      BY <2>1, <2>4
    <3>2. r \in 0 .. j - 1 /\ s \in 0 .. j - 1 /\ x = g + r /\ y = j * w + s
      BY <2>1
    <3> HIDE DEF r, s, g, m, w
    <3> QED BY <2>5, <3>1, <3>2
  <2>7. \A i \in 0 .. n-1 : a[i] \in Int
    BY DEF Keys
  <2>8. /\ c[x] = a[x] \/ c[x] = a[P(x)]
        /\ c[y] = a[y] \/ c[y] = a[P(y)]
    <3>1. \A i \in 0 .. n-1 : c[i] = a[i] \/ c[i] = a[P(i)]
      BY LevelKeys
    <3> HIDE DEF c, P
    <3> QED BY <3>1
  <2>9. /\ e % 2 = 0 => c[x] <= a[x] /\ c[x] <= a[P(x)] /\ c[y] >= a[y] /\ c[y] >= a[P(y)]
        /\ e % 2 # 0 => c[x] >= a[x] /\ c[x] >= a[P(x)] /\ c[y] <= a[y] /\ c[y] <= a[P(y)]
    <3>1. \A i \in 0 .. n-1 :
            /\ ((i \div j) % 2 = 0 <=> (i \div k) % 2 = 0) => c[i] <= a[i] /\ c[i] <= a[P(i)]
            /\ ~ ((i \div j) % 2 = 0 <=> (i \div k) % 2 = 0) => c[i] >= a[i] /\ c[i] >= a[P(i)]
      BY LevelKeys DEF Ascending
    <3>2. y \div k = e
      OBVIOUS
    <3> HIDE DEF c, P, k, e
    <3> QED BY <2>4, <3>1, <3>2, ZenonT(40) DEF e
  <2>10. \A p, r, s, t \in {x, y, P(x), P(y)} :
           p < r /\ r < s /\ s < t => ~ Zigzag(a[p], a[r], a[s], a[t])
    <3>1. \A i \in {x, y, P(x), P(y)} : i \in 0 .. n-1 /\ i \div (2 * j) = d
      BY <1>4, <2>5
    <3> HIDE DEF P, d
    <3> QED BY <3>1 DEF Bitonic
  <2> DEFINE a1 == a[x]
             a2 == a[P(x)]
             a3 == a[P(y)]
             a4 == a[y]
  <2>11. \/ ~ Zigzag(a1, a3, a2, a4)
         \/ ~ Zigzag(a3, a1, a4, a2)
         \/ a1 = a3
    <3>1. CASE x < P(y)
      <4>1. P(x) < y
        BY <1>1, <2>5, <3>1
      <4> HIDE DEF P
      <4> QED BY <2>6, <2>10, <3>1, <4>1
    <3>2. CASE P(y) < x
      <4>1. y < P(x) /\ x < y
        BY <1>1, <2>5, <3>2
      <4> HIDE DEF P
      <4> QED BY <2>10, <3>2, <4>1
    <3>3. CASE P(y) = x
      BY <3>3
    <3> QED BY <1>1, <2>5, <3>1, <3>2, <3>3
  <2>12. a1 \in Int /\ a2 \in Int /\ a3 \in Int /\ a4 \in Int
    BY <2>5, <2>7
  <2>13. /\ c[x] = a1 \/ c[x] = a2
         /\ c[y] = a4 \/ c[y] = a3
         /\ e % 2 = 0 => c[x] <= a1 /\ c[x] <= a2 /\ c[y] >= a4 /\ c[y] >= a3
         /\ e % 2 # 0 => c[x] >= a1 /\ c[x] >= a2 /\ c[y] <= a4 /\ c[y] <= a3
    BY <2>8, <2>9
  <2>14. /\ e % 2 = 0 => c[x] <= c[y]
         /\ e % 2 # 0 => c[x] >= c[y]
    <3> DEFINE c1 == c[x]
               c2 == c[y]
    <3> HIDE DEF a1, a2, a3, a4, c, e
    <3> QED BY <2>11, <2>12, <2>13 DEF Zigzag
  <2> HIDE DEF c
  <2> QED BY <2>14, Zenon DEF Ascending
<1> QED BY <1>3, <1>4, Zenon


\* Blocks in order, ascending and descending by turns, pair up to blocks that
\* go up and then down.
LEMMA StageBitonic ==
    ASSUME NEW n \in Nat, NEW k \in Nat \ {0}, NEW a \in Keys(n), Separated(a, n, k, 1)
    PROVE  Bitonic(a, n, 2 * k) /\ Separated(a, n, 2 * k, 2 * k)
<1>1. Separated(a, n, 2 * k, 2 * k)
  BY DEF Separated
<1>2. \A x, y \in 0 .. n-1 : x < y /\ x \div k = y \div k =>
        /\ (x \div k) % 2 = 0 => a[x] <= a[y]
        /\ (x \div k) % 2 # 0 => a[x] >= a[y]
  <2> SUFFICES ASSUME NEW x \in 0 .. n-1, NEW y \in 0 .. n-1, x < y, x \div k = y \div k
               PROVE  /\ (x \div k) % 2 = 0 => a[x] <= a[y]
                      /\ (x \div k) % 2 # 0 => a[x] >= a[y]
    OBVIOUS
  <2>1. x \div 1 = x /\ y \div 1 = y
    OBVIOUS
  <2>2. x \div 1 # y \div 1
    BY <2>1
  <2>3. IF Ascending(x, k) THEN a[x] <= a[y] ELSE a[x] >= a[y]
    BY <2>2, Zenon DEF Separated
  <2> QED BY <2>3, Zenon DEF Ascending
<1>3. Bitonic(a, n, 2 * k)
  <2> SUFFICES ASSUME NEW p \in 0 .. n-1, NEW q \in 0 .. n-1, NEW r \in 0 .. n-1, NEW s \in 0 .. n-1,
                      p < q, q < r, r < s, p \div (2 * k) = s \div (2 * k)
               PROVE  ~ Zigzag(a[p], a[q], a[r], a[s])
    BY DEF Bitonic
  <2> DEFINE B(x) == x \div k
             d == p \div (2 * k)
  <2>1. \A x \in Nat : x \div (2 * k) = B(x) \div 2 /\ B(x) \in Nat
    <3>1. 2 \in Nat \ {0}
      OBVIOUS
    <3> QED BY <3>1, DivDiv, DivMod, Zenon
  <2>2. p \in Nat /\ q \in Nat /\ r \in Nat /\ s \in Nat /\ p <= q /\ q <= r /\ r <= s
    OBVIOUS
  <2>3. B(p) <= B(q) /\ B(q) <= B(r) /\ B(r) <= B(s)
    BY <2>2, DivOrder, Zenon
  <2>4. B(p) \div 2 = B(s) \div 2 /\ B(p) \in Nat /\ B(q) \in Nat /\ B(r) \in Nat /\ B(s) \in Nat
    BY <2>1, <2>2, Zenon
  <2>5. /\ a[p] \in Int /\ a[q] \in Int /\ a[r] \in Int /\ a[s] \in Int
    BY DEF Keys
  <2>6. /\ B(p) = B(q) => (B(p) % 2 = 0 => a[p] <= a[q]) /\ (B(p) % 2 # 0 => a[p] >= a[q])
        /\ B(q) = B(r) => (B(q) % 2 = 0 => a[q] <= a[r]) /\ (B(q) % 2 # 0 => a[q] >= a[r])
        /\ B(r) = B(s) => (B(r) % 2 = 0 => a[r] <= a[s]) /\ (B(r) % 2 # 0 => a[r] >= a[s])
    BY <1>2
  <2> DEFINE bp == B(p)
             bq == B(q)
             br == B(r)
             bs == B(s)
  <2> HIDE DEF bp, bq, br, bs
  <2>7. bp = bs \/ (bp % 2 = 0 /\ bs = bp + 1)
    BY <2>3, <2>4 DEF bp, bq, br, bs
  <2>8. /\ bp <= bq /\ bq <= br /\ br <= bs
        /\ bp \in Nat /\ bq \in Nat /\ br \in Nat /\ bs \in Nat
    BY <2>3, <2>4 DEF bp, bq, br, bs
  <2>9. /\ bp = bq => (bp % 2 = 0 => a[p] <= a[q]) /\ (bp % 2 # 0 => a[p] >= a[q])
        /\ bq = br => (bq % 2 = 0 => a[q] <= a[r]) /\ (bq % 2 # 0 => a[q] >= a[r])
        /\ br = bs => (br % 2 = 0 => a[r] <= a[s]) /\ (br % 2 # 0 => a[r] >= a[s])
    BY <2>6 DEF bp, bq, br, bs
  <2> QED BY <2>5, <2>7, <2>8, <2>9 DEF Zigzag
<1> QED BY <1>1, <1>3

-----------------------------------------------------------------------------
(* The same records in another order.                                      *)

Permutation(p, n) ==
    /\ p \in [0 .. n-1 -> 0 .. n-1]
    /\ \A x, y \in 0 .. n-1 : p[x] = p[y] => x = y
    /\ \A y \in 0 .. n-1 : \E x \in 0 .. n-1 : p[x] = y

Permuted(a, b, n) ==
    \E p : Permutation(p, n) /\ \A i \in 0 .. n-1 : b[i] = a[p[i]]

LEMMA PermutedSelf ==
    ASSUME NEW n, NEW a
    PROVE  Permuted(a, a, n)
<1> DEFINE p == [i \in 0 .. n-1 |-> i]
<1>1. Permutation(p, n) /\ \A i \in 0 .. n-1 : a[i] = a[p[i]]
  BY DEF Permutation
<1> HIDE DEF p
<1> QED BY <1>1 DEF Permuted

LEMMA PermutedTwice ==
    ASSUME NEW n, NEW a, NEW b, NEW c, Permuted(a, b, n), Permuted(b, c, n)
    PROVE  Permuted(a, c, n)
<1>1. PICK p : Permutation(p, n) /\ \A i \in 0 .. n-1 : b[i] = a[p[i]]
  BY DEF Permuted
<1>2. PICK q : Permutation(q, n) /\ \A i \in 0 .. n-1 : c[i] = b[q[i]]
  BY DEF Permuted
<1> DEFINE S == 0 .. n-1
           r == [i \in S |-> p[q[i]]]
<1>3. p \in [S -> S] /\ q \in [S -> S]
  BY <1>1, <1>2 DEF Permutation
<1>4. Permutation(r, n)
  <2>1. r \in [S -> S]
    BY <1>3
  <2>2. \A x, y \in S : r[x] = r[y] => x = y
    BY <1>1, <1>2, <1>3, ZenonT(40) DEF Permutation
  <2>3. \A y \in S : \E x \in S : r[x] = y
    <3> SUFFICES ASSUME NEW y \in S PROVE \E x \in S : r[x] = y
      OBVIOUS
    <3>1. PICK z \in S : p[z] = y
      BY <1>1 DEF Permutation
    <3>2. PICK x \in S : q[x] = z
      BY <1>2 DEF Permutation
    <3> QED BY <3>1, <3>2
  <2> HIDE DEF r
  <2> QED BY <2>1, <2>2, <2>3 DEF Permutation
<1>5. \A i \in S : c[i] = a[r[i]]
  BY <1>1, <1>2, <1>3
<1> HIDE DEF r
<1> QED BY <1>4, <1>5 DEF Permuted

\* An exchange of pairs loses no record and invents none.
LEMMA ExchangePermutes ==
    ASSUME NEW n \in Nat, NEW j \in Nat \ {0}, Whole(n, 2 * j),
           NEW a, DOMAIN a = 0 .. n-1, NEW b, NEW k
    PROVE  Permuted(a, Exchange(a, b, k, j), n)
<1> DEFINE S == 0 .. n-1
           P(i) == Partner(i, j)
           W(i) == Swaps(b, k, j, i)
           p == [i \in S |-> IF W(i) THEN P(i) ELSE i]
<1>1. \A i \in S : P(i) \in S /\ P(P(i)) = i
  <2>1. \A i \in 0 .. n-1 : Partner(i, j) \in 0 .. n-1
    BY PartnerIs
  <2>2. \A i \in 0 .. n-1 : Partner(Partner(i, j), j) = i
    BY PartnerIs
  <2> QED BY <2>1, <2>2, Zenon
<1>2. \A i \in S : W(P(i)) <=> W(i)
  <2>1. \A i \in S : Lower(P(i), j) = Lower(i, j) /\ Upper(P(i), j) = Upper(i, j)
    BY PairIs, ZenonT(40)
  <2> QED BY <2>1, Zenon DEF Swaps
<1> HIDE DEF P, W
<1>3. \A i \in S : p[i] \in S /\ p[p[i]] = i
  <2> SUFFICES ASSUME NEW i \in S PROVE p[i] \in S /\ p[p[i]] = i
    OBVIOUS
  <2>1. CASE W(i)
    <3>1. p[i] = P(i) /\ P(i) \in S /\ W(P(i))
      BY <1>1, <1>2, <2>1
    <3>2. p[P(i)] = P(P(i))
      BY <3>1
    <3> QED BY <1>1, <3>1, <3>2
  <2>2. CASE ~ W(i)
    BY <2>2
  <2> QED BY <2>1, <2>2
<1>4. p \in [S -> S]
  <2>1. \A i \in S : (IF W(i) THEN P(i) ELSE i) \in S
    BY <1>1
  <2> QED BY <2>1
<1>5. \A i \in S : Exchange(a, b, k, j)[i] = a[p[i]]
  <2> SUFFICES ASSUME NEW i \in S PROVE Exchange(a, b, k, j)[i] = a[p[i]]
    OBVIOUS
  <2>1. Exchange(a, b, k, j)[i] = IF W(i) THEN a[P(i)] ELSE a[i]
    BY DEF Exchange, P, W
  <2>2. p[i] = IF W(i) THEN P(i) ELSE i
    OBVIOUS
  <2> HIDE DEF p
  <2> QED BY <2>1, <2>2
<1> HIDE DEF p
<1>6. Permutation(p, n)
  BY <1>3, <1>4 DEF Permutation
<1> QED BY <1>5, <1>6 DEF Permuted


-----------------------------------------------------------------------------
(* The powers of two that the loops run through.                           *)

\* What holds at zero, and after each number that it holds of, always holds.
LEMMA Reaches ==
    ASSUME NEW S, 0 \in S, \A m \in Nat : m \in S => m + 1 \in S
    PROVE  \A m \in Nat : m \in S
<1> SUFFICES ASSUME Nat \ S # {} PROVE FALSE
  OBVIOUS
<1>1. PICK m \in Nat \ S : \A x \in Nat \ S : m <= x
  <2>1. Nat \ S \in SUBSET Nat
    OBVIOUS
  <2> QED BY <2>1, LeastNatural, Zenon
<1>2. m # 0 /\ m - 1 \in Nat
  BY <1>1
<1>3. m - 1 \in S
  BY <1>1, <1>2
<1>4. (m - 1) + 1 = m
  OBVIOUS
<1> QED BY <1>2, <1>3, <1>4

LEMMA PowerStep ==
    ASSUME NEW e \in Nat
    PROVE  /\ 2 ^ e \in Nat \ {0}
           /\ 2 ^ (e + 1) = 2 * 2 ^ e
<1> DEFINE S == {m \in Nat : 2 ^ m \in Nat \ {0}}
<1>1. 0 \in S
  OBVIOUS
<1>2. \A m \in Nat : m \in S => m + 1 \in S
  <2> SUFFICES ASSUME NEW m \in Nat, 2 ^ m \in Nat \ {0} PROVE 2 ^ (m + 1) \in Nat \ {0} /\ m + 1 \in Nat
    OBVIOUS
  <2> DEFINE x == 2 ^ m
             y == 2 ^ (m + 1)
  <2>1. y = 2 * x
    BY TwoTimesPower, Zenon
  <2>2. x \in Nat \ {0} /\ m + 1 \in Nat
    OBVIOUS
  <2> HIDE DEF x, y
  <2>3. y \in Nat \ {0} /\ m + 1 \in Nat
    BY <2>1, <2>2
  <2> QED BY <2>3 DEF y
<1> HIDE DEF S
<1>3. e \in S
  BY <1>1, <1>2, Reaches, Zenon
<1> QED BY <1>3, TwoTimesPower, Zenon DEF S

LEMMA PowerSum ==
    ASSUME NEW d \in Nat, NEW e \in Nat
    PROVE  2 ^ (d + e) = 2 ^ d * 2 ^ e
<1> DEFINE S == {m \in Nat : 2 ^ (d + m) = 2 ^ d * 2 ^ m}
           x == 2 ^ d
<1>1. 0 \in S
  <2>1. d + 0 = d /\ x \in Nat /\ 2 ^ 0 = 1
    BY PowerStep
  <2>2. x = x * 1
    BY <2>1
  <2> QED BY <2>1, <2>2
<1>2. \A m \in Nat : m \in S => m + 1 \in S
  <2> SUFFICES ASSUME NEW m \in Nat, 2 ^ (d + m) = 2 ^ d * 2 ^ m
               PROVE  m + 1 \in Nat /\ 2 ^ (d + (m + 1)) = 2 ^ d * 2 ^ (m + 1)
    OBVIOUS
  <2> DEFINE y == 2 ^ m
             z == 2 ^ (d + m)
             y1 == 2 ^ (m + 1)
             z1 == 2 ^ ((d + m) + 1)
  <2>1. x \in Nat /\ y \in Nat /\ z \in Nat /\ y1 = 2 * y /\ z1 = 2 * z
    <3>1. d + m \in Nat
      OBVIOUS
    <3>2. x \in Nat \ {0} /\ y \in Nat \ {0} /\ z \in Nat \ {0} /\ y1 = 2 * y /\ z1 = 2 * z
      BY <3>1, PowerStep, Zenon
    <3> QED BY <3>2, Zenon
  <2>2. z = x * y
    OBVIOUS
  <2>3. d + (m + 1) = (d + m) + 1 /\ m + 1 \in Nat
    OBVIOUS
  <2> HIDE DEF x, y, z, y1, z1
  <2>4. z1 = x * y1
    BY <2>1, <2>2
  <2> QED BY <2>3, <2>4, Zenon DEF x, y1, z1
<1> HIDE DEF S
<1>3. e \in S
  BY <1>1, <1>2, Reaches, Zenon
<1> QED BY <1>3, Zenon DEF S

LEMMA PowerOrder ==
    ASSUME NEW d \in Nat, NEW e \in Nat
    PROVE  /\ d < e => 2 * 2 ^ d <= 2 ^ e
           /\ d <= e <=> 2 ^ d <= 2 ^ e
<1> DEFINE P(m) == 2 ^ m
<1>1. \A m \in Nat : P(m) \in Nat \ {0} /\ P(m + 1) = 2 * P(m)
  BY PowerStep, Zenon
<1>2. \A x, y \in Nat : P(x + y) = P(x) * P(y)
  BY PowerSum, Zenon
<1> HIDE DEF P
<1>3. \A x, y \in Nat : x < y => 2 * P(x) <= P(y)
  <2> SUFFICES ASSUME NEW x \in Nat, NEW y \in Nat, x < y PROVE 2 * P(x) <= P(y)
    OBVIOUS
  <2>1. (y - x) - 1 \in Nat /\ (x + 1) + ((y - x) - 1) = y /\ x + 1 \in Nat
    OBVIOUS
  <2> DEFINE g == (y - x) - 1
  <2>2. P(y) = P(x + 1) * P(g) /\ P(x + 1) = 2 * P(x)
    BY <1>1, <1>2, <2>1
  <2>3. P(g) \in Nat \ {0} /\ P(x) \in Nat \ {0}
    BY <1>1, <2>1
  <2> HIDE DEF g
  <2>4. P(y) = (2 * P(x)) * P(g)
    BY <2>2
  <2> DEFINE u == P(x)
             v == P(g)
             w == P(y)
  <2> HIDE DEF u, v, w
  <2>5. u \in Nat \ {0} /\ v \in Nat \ {0} /\ w = (2 * u) * v
    BY <2>3, <2>4 DEF u, v, w
  <2>6. 2 * u <= w
    BY <2>5
  <2> QED BY <2>6 DEF u, w
<1>4. d < e => 2 * P(d) <= P(e)
  BY <1>3
<1>5. d <= e <=> P(d) <= P(e)
  <2>1. P(d) \in Nat \ {0} /\ P(e) \in Nat \ {0}
    BY <1>1
  <2>2. CASE d < e
    BY <1>4, <2>1, <2>2
  <2>3. CASE d = e
    BY <2>1, <2>3
  <2>4. CASE e < d
    <3>1. 2 * P(e) <= P(d)
      BY <1>3, <2>4
    <3> QED BY <2>1, <2>4, <3>1
  <2> QED BY <2>2, <2>3, <2>4
<1> QED BY <1>4, <1>5 DEF P


-----------------------------------------------------------------------------
(* The loops, level by level.                                              *)

\* The level at k = 2 ^ e and j = 2 ^ f of an array of 2 ^ g; after the last.
AtLevel(e, f, g, n, k, j) ==
    /\ n = 2 ^ g /\ k = 2 ^ e /\ j = 2 ^ f
    /\ f < e /\ e <= g + 1
    /\ e = g + 1 => f = g

\* What is true of the keys when the level of k and j begins.
Prepared(b, n, k, j) ==
    /\ k <= n => Bitonic(b, n, 2 * j) /\ Separated(b, n, k, 2 * j)
    /\ 2 * j = k => Separated(b, n, j, 1)

LEMMA LevelMeans ==
    ASSUME NEW e \in Nat, NEW f \in Nat, NEW g \in Nat, NEW n, NEW k, NEW j,
           AtLevel(e, f, g, n, k, j)
    PROVE  /\ n \in Nat \ {0} /\ k \in Nat \ {0} /\ j \in Nat \ {0}
           /\ k >= 2 /\ j >= 1 /\ 2 * j <= k
           /\ k <= n <=> e <= g
           /\ j > 1 <=> f > 0
           /\ \E q \in Nat \ {0} : k = q * (2 * j)
           /\ k <= n => Whole(n, 2 * j)
           /\ k > n => k = 2 * n /\ j = n
<1> DEFINE P(m) == 2 ^ m
<1>1. \A m \in Nat : P(m) \in Nat \ {0} /\ P(m + 1) = 2 * P(m)
  BY PowerStep, Zenon
<1>2. \A x, y \in Nat : P(x + y) = P(x) * P(y)
  BY PowerSum, Zenon
<1>3. \A x, y \in Nat : (x < y => 2 * P(x) <= P(y)) /\ (x <= y <=> P(x) <= P(y))
  BY PowerOrder, Zenon
<1>4. P(0) = 1
  OBVIOUS
<1>5. n = P(g) /\ k = P(e) /\ j = P(f) /\ f < e /\ e <= g + 1 /\ (e = g + 1 => f = g)
  BY DEF AtLevel
<1> HIDE DEF P
<1>6. n \in Nat \ {0} /\ k \in Nat \ {0} /\ j \in Nat \ {0} /\ 2 * j = P(f + 1)
  BY <1>1, <1>5
<1>7. 2 * j <= k /\ (k <= n <=> e <= g)
  BY <1>3, <1>5
<1>8. j > 1 <=> f > 0
  <2>1. f <= 0 <=> P(f) <= P(0)
    BY <1>3
  <2> QED BY <1>4, <1>5, <1>6, <2>1
<1>9. \A m \in Nat : f < m => \E q \in Nat \ {0} : P(m) = q * (2 * j)
  <2> SUFFICES ASSUME NEW m \in Nat, f < m PROVE \E q \in Nat \ {0} : P(m) = q * (2 * j)
    OBVIOUS
  <2> DEFINE d == (m - f) - 1
  <2>1. d \in Nat /\ d + (f + 1) = m /\ f + 1 \in Nat
    OBVIOUS
  <2> HIDE DEF d
  <2>2. P(d + (f + 1)) = P(d) * P(f + 1) /\ P(d) \in Nat \ {0}
    BY <1>1, <1>2, <2>1, Zenon
  <2>3. P(m) = P(d) * (2 * j)
    BY <1>6, <2>1, <2>2, Zenon
  <2> QED BY <2>2, <2>3, Zenon
<1>10. \E q \in Nat \ {0} : k = q * (2 * j)
  BY <1>5, <1>9
<1>11. k <= n => Whole(n, 2 * j)
  <2> SUFFICES ASSUME k <= n PROVE \E b \in Nat : n = (2 * j) * b
    BY DEF Whole
  <2>1. f < g
    BY <1>5, <1>7
  <2>2. PICK q \in Nat \ {0} : n = q * (2 * j)
    BY <1>5, <1>9, <2>1
  <2>3. n = (2 * j) * q
    BY <1>6, <2>2
  <2> QED BY <2>3
<1>12. k > n => k = 2 * n /\ j = n
  <2> SUFFICES ASSUME k > n PROVE k = 2 * n /\ j = n
    OBVIOUS
  <2>1. e = g + 1 /\ f = g
    BY <1>5, <1>6, <1>7
  <2> QED BY <1>1, <1>5, <2>1
<1> QED BY <1>6, <1>7, <1>8, <1>10, <1>11, <1>12

LEMMA FirstLevel ==
    ASSUME NEW g \in Nat \ {0}, NEW n, n = 2 ^ g
    PROVE  AtLevel(1, 0, g, n, 2, 1)
<1>1. 2 ^ 0 = 1 /\ 2 ^ 1 = 2
  OBVIOUS
<1> QED BY <1>1 DEF AtLevel

LEMMA LevelAfter ==
    ASSUME NEW e \in Nat, NEW f \in Nat, NEW g \in Nat, NEW n, NEW k, NEW j,
           AtLevel(e, f, g, n, k, j), k <= n
    PROVE  /\ f > 0 => /\ NextLevel(k, j) = <<k, j \div 2>>
                       /\ j = 2 * (j \div 2)
                       /\ AtLevel(e, f - 1, g, n, k, j \div 2)
           /\ f = 0 => /\ NextLevel(k, j) = <<2 * k, k>>
                       /\ j = 1
                       /\ AtLevel(e + 1, e, g, n, 2 * k, k)
<1>1. n = 2 ^ g /\ k = 2 ^ e /\ j = 2 ^ f /\ f < e /\ e <= g /\ (j > 1 <=> f > 0)
  BY LevelMeans DEF AtLevel
<1>2. ASSUME f > 0
      PROVE  /\ NextLevel(k, j) = <<k, j \div 2>>
             /\ j = 2 * (j \div 2)
             /\ AtLevel(e, f - 1, g, n, k, j \div 2)
  <2> DEFINE x == 2 ^ (f - 1)
  <2>1. f - 1 \in Nat /\ (f - 1) + 1 = f
    BY <1>2
  <2>2. x \in Nat \ {0} /\ 2 ^ ((f - 1) + 1) = 2 * x
    BY <2>1, PowerStep, Zenon
  <2>3. j = 2 * x
    BY <1>1, <2>1, <2>2
  <2>4. x \in Nat
    BY <2>2
  <2> HIDE DEF x
  <2>5. j \div 2 = x /\ j = 2 * (j \div 2)
    BY <2>3, <2>4
  <2>6. j \div 2 = 2 ^ (f - 1)
    BY <2>5 DEF x
  <2>7. f - 1 < e /\ (e = g + 1 => f - 1 = g)
    BY <1>1
  <2> QED BY <1>1, <1>2, <2>5, <2>6, <2>7 DEF AtLevel, NextLevel
<1>3. ASSUME f = 0
      PROVE  /\ NextLevel(k, j) = <<2 * k, k>>
             /\ j = 1
             /\ AtLevel(e + 1, e, g, n, 2 * k, k)
  <2>1. 2 ^ 0 = 1
    OBVIOUS
  <2>2. j = 1
    BY <1>1, <1>3, <2>1
  <2>3. 2 * k = 2 ^ (e + 1)
    BY <1>1, PowerStep
  <2> QED BY <1>1, <2>2, <2>3 DEF AtLevel, NextLevel
<1> QED BY <1>2, <1>3

LEMMA PreparedFirst ==
    ASSUME NEW n \in Nat, NEW b \in Keys(n)
    PROVE  Prepared(b, n, 2, 1)
<1>1. \A p, s \in 0 .. n-1 : p \div (2 * 1) = s \div (2 * 1) => s < p + 2
  OBVIOUS
<1>2. Bitonic(b, n, 2 * 1)
  <2>1. \A p, q, r, s \in 0 .. n-1 : p < q /\ q < r /\ r < s => ~ (s < p + 2)
    OBVIOUS
  <2> QED BY <1>1, <2>1 DEF Bitonic
<1>3. Separated(b, n, 2, 2 * 1)
  BY DEF Separated
<1>4. Separated(b, n, 1, 1)
  BY DEF Separated
<1> QED BY <1>2, <1>3, <1>4 DEF Prepared

LEMMA PreparedNext ==
    ASSUME NEW e \in Nat, NEW f \in Nat, NEW g \in Nat, NEW n, NEW k, NEW j,
           AtLevel(e, f, g, n, k, j), k <= n,
           NEW b \in Keys(n), Prepared(b, n, k, j)
    PROVE  /\ Exchange(b, b, k, j) \in Keys(n)
           /\ Prepared(Exchange(b, b, k, j), n, NextLevel(k, j)[1], NextLevel(k, j)[2])
<1> DEFINE c == Exchange(b, b, k, j)
<1>1. n \in Nat /\ k \in Nat \ {0} /\ j \in Nat \ {0} /\ Whole(n, 2 * j) /\ 2 * j <= k
  BY LevelMeans
<1>2. PICK q \in Nat \ {0} : k = q * (2 * j)
  BY LevelMeans
<1>3. Bitonic(b, n, 2 * j) /\ Separated(b, n, q * (2 * j), 2 * j)
  BY <1>2 DEF Prepared
<1>4. c \in Keys(n)
  <2>1. \A h \in 0 .. n-1 : Partner(h, j) \in 0 .. n-1
    BY <1>1, PartnerIs, Zenon
  <2> QED BY <2>1 DEF Exchange, Keys
<1>5. Bitonic(c, n, j) /\ Separated(c, n, k, j)
  <2>1. Bitonic(Exchange(b, b, q * (2 * j), j), n, j)
    BY <1>1, <1>3, LevelBitonic, Zenon
  <2>2. Separated(Exchange(b, b, q * (2 * j), j), n, q * (2 * j), j)
    BY <1>1, <1>3, LevelSeparated, Zenon
  <2> QED BY <1>2, <2>1, <2>2, Zenon
<1> HIDE DEF c
<1>6. CASE f > 0
  <2> DEFINE h == j \div 2
  <2>1. NextLevel(k, j) = <<k, h>> /\ j = 2 * h
    BY <1>6, LevelAfter
  <2>2. Bitonic(c, n, 2 * h) /\ Separated(c, n, k, 2 * h)
    BY <1>5, <2>1, Zenon
  <2>3. 2 * h # k
    BY <1>1, <2>1
  <2>4. Prepared(c, n, k, h)
    BY <2>2, <2>3, Zenon DEF Prepared
  <2> QED BY <1>4, <2>1, <2>4 DEF c
<1>7. CASE f = 0
  <2>1. NextLevel(k, j) = <<2 * k, k>> /\ j = 1
    BY <1>7, LevelAfter
  <2>2. Separated(c, n, k, 1)
    BY <1>5, <2>1, Zenon
  <2>3. Bitonic(c, n, 2 * k) /\ Separated(c, n, 2 * k, 2 * k)
    BY <1>1, <1>4, <2>2, StageBitonic, Zenon
  <2>4. Prepared(c, n, 2 * k, k)
    BY <2>2, <2>3, Zenon DEF Prepared
  <2> QED BY <1>4, <2>1, <2>4 DEF c
<1> QED BY <1>6, <1>7

LEMMA PreparedLast ==
    ASSUME NEW e \in Nat, NEW f \in Nat, NEW g \in Nat, NEW n, NEW k, NEW j,
           AtLevel(e, f, g, n, k, j), k > n,
           NEW b \in Keys(n), Prepared(b, n, k, j)
    PROVE  \A x, y \in 0 .. n-1 : x < y => b[x] <= b[y]
<1>1. n \in Nat \ {0} /\ k = 2 * n /\ j = n
  BY LevelMeans
<1>2. Separated(b, n, n, 1)
  BY <1>1 DEF Prepared
<1> SUFFICES ASSUME NEW x \in 0 .. n-1, NEW y \in 0 .. n-1, x < y PROVE b[x] <= b[y]
  OBVIOUS
<1>3. x \div n = 0 /\ y \div n = 0
  <2>1. x \in Nat /\ y \in Nat /\ x < n /\ y < n
    BY <1>1
  <2>2. (n * 0 + x) \div n = 0 /\ (n * 0 + y) \div n = 0
    BY <1>1, <2>1, DivIs
  <2>3. n * 0 + x = x /\ n * 0 + y = y
    BY <1>1
  <2> QED BY <2>2, <2>3
<1>4. x \div 1 # y \div 1
  OBVIOUS
<1>5. Ascending(x, n)
  BY <1>3 DEF Ascending
<1>6. x \div n = y \div n
  BY <1>3
<1>7. IF Ascending(x, n) THEN b[x] <= b[y] ELSE b[x] >= b[y]
  BY <1>2, <1>4, <1>6, Zenon DEF Separated
<1> QED BY <1>5, <1>7, Zenon


\* How often a record occurs.
Often(a, n, r) == Cardinality({i \in 0 .. n-1 : a[i] = r})

\* Another order has every record as often.
LEMMA PermutedOccurs ==
    ASSUME NEW n \in Nat, NEW a, NEW b, Permuted(a, b, n), NEW r
    PROVE  Often(a, n, r) = Often(b, n, r)
<1>1. PICK p : Permutation(p, n) /\ \A i \in 0 .. n-1 : b[i] = a[p[i]]
  BY DEF Permuted
<1> DEFINE A == {i \in 0 .. n-1 : a[i] = r}
           B == {i \in 0 .. n-1 : b[i] = r}
           f == [i \in B |-> p[i]]
<1>2. IsFiniteSet(B)
  <2>1. IsFiniteSet(0 .. n-1)
    BY FS_Interval
  <2> QED BY <2>1, FS_Subset
<1>3. f \in [B -> A]
  BY <1>1 DEF Permutation
<1>4. \A x, y \in B : f[x] = f[y] => x = y
  BY <1>1 DEF Permutation
<1>5. \A y \in A : \E x \in B : f[x] = y
  <2> SUFFICES ASSUME NEW y \in A PROVE \E x \in B : f[x] = y
    OBVIOUS
  <2>1. PICK x \in 0 .. n-1 : p[x] = y
    BY <1>1 DEF Permutation
  <2> QED BY <1>1, <2>1
<1> HIDE DEF A, B, f
<1>6. f \in Bijection(B, A)
  BY <1>3, <1>4, <1>5 DEF Bijection, Injection, Surjection, IsInjective
<1>7. Cardinality(B) = Cardinality(A)
  BY <1>2, <1>6, FS_Bijection DEF ExistsBijection
<1> QED BY <1>7 DEF A, B, Often


-----------------------------------------------------------------------------
(* The network as a function: what RadixSortByKey returns.                 *)

\* Records v on their way through the network, with the bits b they carry.
OnTheWay(recs, n, bitLength, v, b) ==
    /\ DOMAIN v = 0 .. n-1 /\ b \in Keys(n)
    /\ Permuted(recs, v, n)
    /\ \A i \in 0 .. n-1 : b[i] = Truncated(v[i].key, bitLength)

LEMMA OnTheWayNext ==
    ASSUME NEW n \in Nat, NEW j \in Nat \ {0}, Whole(n, 2 * j), NEW k,
           NEW recs, NEW bitLength, NEW v, NEW b, OnTheWay(recs, n, bitLength, v, b)
    PROVE  OnTheWay(recs, n, bitLength, Exchange(v, b, k, j), Exchange(b, b, k, j))
<1> DEFINE v1 == Exchange(v, b, k, j)
           b1 == Exchange(b, b, k, j)
<1>1. DOMAIN v = 0 .. n-1 /\ b \in Keys(n) /\ DOMAIN b = 0 .. n-1
  BY DEF OnTheWay, Keys
<1>2. \A i \in 0 .. n-1 : Partner(i, j) \in 0 .. n-1
  BY PartnerIs, Zenon
<1>3. DOMAIN v1 = 0 .. n-1 /\ b1 \in Keys(n)
  BY <1>1, <1>2 DEF Exchange, Keys
<1>4. Permuted(recs, v1, n)
  <2>1. Permuted(v, v1, n)
    BY <1>1, ExchangePermutes
  <2> HIDE DEF v1
  <2> QED BY <2>1, PermutedTwice DEF OnTheWay
<1>5. ASSUME NEW i \in 0 .. n-1
      PROVE  b1[i] = Truncated(v1[i].key, bitLength)
  <2>1. \A h \in 0 .. n-1 : b[h] = Truncated(v[h].key, bitLength)
    BY DEF OnTheWay
  <2>2. CASE Swaps(b, k, j, i)
    <3>1. b1[i] = b[Partner(i, j)] /\ v1[i] = v[Partner(i, j)]
      BY <1>1, <2>2 DEF Exchange
    <3> QED BY <1>2, <2>1, <3>1
  <2>3. CASE ~ Swaps(b, k, j, i)
    <3>1. b1[i] = b[i] /\ v1[i] = v[i]
      BY <1>1, <2>3 DEF Exchange
    <3> QED BY <2>1, <3>1
  <2> QED BY <2>2, <2>3
<1> QED BY <1>3, <1>4, <1>5 DEF OnTheWay

\* A length that is sorted is a power of two, and not the first.
LEMMA SortableIs ==
    ASSUME NEW n \in Nat, Sortable(n)
    PROVE  \E g \in 1 .. n : n = 2 ^ g
<1>1. n >= 2
  BY DEF Sortable
<1>2. PICK e \in 0 .. n : n = 2 ^ e
  BY DEF Sortable, PowerOfTwo
<1>3. e # 0
  <2> DEFINE P(m) == 2 ^ m
  <2>1. P(0) = 1 /\ n = P(e)
    BY <1>2
  <2> HIDE DEF P
  <2> QED BY <1>1, <2>1
<1> QED BY <1>2, <1>3

\* As many levels as pairs of a stage and a distance.
LEMMA LevelCountIs ==
    ASSUME NEW n \in Nat, NEW g \in 1 .. n, n = 2 ^ g
    PROVE  LevelCount(n) \in Nat /\ 2 * LevelCount(n) = g * (g + 1)
<1> DEFINE s == CHOOSE e \in 1 .. n : n = 2 ^ e
<1>1. s \in 1 .. n /\ n = 2 ^ s
  OBVIOUS
<1>2. s = g
  <2> HIDE DEF s
  <2> DEFINE P(m) == 2 ^ m
  <2>1. \A x, y \in Nat : x <= y <=> P(x) <= P(y)
    BY PowerOrder, Zenon
  <2>2. P(s) = n /\ P(g) = n /\ s \in Nat /\ g \in Nat
    BY <1>1
  <2> HIDE DEF P
  <2>3. s <= g /\ g <= s
    BY <2>1, <2>2
  <2> QED BY <2>2, <2>3
<1>3. LevelCount(n) = (g * (g + 1)) \div 2
  <2>1. LevelCount(n) = (s * (s + 1)) \div 2
    BY DEF LevelCount
  <2> HIDE DEF s
  <2> QED BY <1>2, <2>1
<1>4. PICK h \in Nat : g = 2 * h \/ g = 2 * h + 1
  <2>1. g \div 2 \in Nat /\ (g = 2 * (g \div 2) \/ g = 2 * (g \div 2) + 1)
    OBVIOUS
  <2> QED BY <2>1
<1>5. PICK c \in Nat : g * (g + 1) = 2 * c
  <2>1. CASE g = 2 * h
    <3>1. g * (g + 1) = 2 * (h * (g + 1)) /\ h * (g + 1) \in Nat
      BY <2>1
    <3> QED BY <3>1
  <2>2. CASE g = 2 * h + 1
    <3>1. g * (g + 1) = 2 * (g * (h + 1)) /\ g * (h + 1) \in Nat
      BY <2>2
    <3> QED BY <3>1
  <2> QED BY <1>4, <2>1, <2>2
<1> QED BY <1>3, <1>5


\* The state of the network before the first level, and after one more.
NetworkStart(recs, n, bitLength) ==
    [vec  |-> recs,
     bits |-> [i \in 0 .. n-1 |-> Truncated(recs[i].key, bitLength)],
     at   |-> <<2, 1>>]

NetworkNext(s) ==
    [vec  |-> Exchange(s.vec, s.bits, s.at[1], s.at[2]),
     bits |-> Exchange(s.bits, s.bits, s.at[1], s.at[2]),
     at   |-> NextLevel(s.at[1], s.at[2])]

\* The states of the network, level by level.
LEMMA NetworkStates ==
    ASSUME NEW recs, NEW n, NEW bitLength, LevelCount(n) \in Nat
    PROVE  \E F : /\ F[0] = NetworkStart(recs, n, bitLength)
                  /\ \A l \in 1 .. LevelCount(n) : F[l] = NetworkNext(F[l - 1])
                  /\ RadixSortByKey(recs, n, bitLength) = F[LevelCount(n)].vec
<1> DEFINE L == LevelCount(n)
           start == NetworkStart(recs, n, bitLength)
           Is(F, m) == F = [l \in 0 .. m |-> IF l = 0 THEN start ELSE NetworkNext(F[l - 1])]
           S == {m \in Nat : \E F : Is(F, m)}
           G == CHOOSE F : Is(F, L)
<1>1. RadixSortByKey(recs, n, bitLength) = G[L].vec
  BY DEF RadixSortByKey, NetworkStart, NetworkNext
<1> HIDE DEF G
<1>2. 0 \in S
  <2> DEFINE F == [l \in 0 .. 0 |-> start]
  <2>1. Is(F, 0)
    <3>1. \A l \in 0 .. 0 : l = 0
      OBVIOUS
    <3> HIDE DEF start
    <3> QED BY <3>1
  <2> HIDE DEF Is, F
  <2> QED BY <2>1
<1>3. \A m \in Nat : m \in S => m + 1 \in S
  <2> SUFFICES ASSUME NEW m \in Nat, m \in S
               PROVE  m + 1 \in S
    BY Zenon
  <2>0. PICK F : Is(F, m)
    <3> HIDE DEF Is
    <3> QED OBVIOUS
  <2> DEFINE H == [l \in 0 .. m + 1 |-> IF l <= m THEN F[l] ELSE NetworkNext(F[m])]
             H1 == [l \in 0 .. m + 1 |-> IF l = 0 THEN start ELSE NetworkNext(H[l - 1])]
  <2> HIDE DEF start
  <2>1. \A l \in 0 .. m : F[l] = IF l = 0 THEN start ELSE NetworkNext(F[l - 1])
    <3>1. F = [l \in 0 .. m |-> IF l = 0 THEN start ELSE NetworkNext(F[l - 1])]
      BY <2>0
    <3> HIDE DEF Is
    <3> QED BY <3>1
  <2>2. \A l \in 0 .. m + 1 : H[l] = IF l <= m THEN F[l] ELSE NetworkNext(F[m])
    OBVIOUS
  <2>3. \A l \in 0 .. m + 1 : H1[l] = IF l = 0 THEN start ELSE NetworkNext(H[l - 1])
    <3> HIDE DEF H
    <3> QED OBVIOUS
  <2>4. \A l \in 0 .. m + 1 : H[l] = H1[l]
    <3> HIDE DEF H, H1, Is
    <3> SUFFICES ASSUME NEW l \in 0 .. m + 1 PROVE H[l] = H1[l]
      OBVIOUS
    <3>1. CASE l = 0
      BY <2>1, <2>2, <2>3, <3>1
    <3>2. CASE l # 0 /\ l <= m
      <4>1. l - 1 \in 0 .. m + 1 /\ l - 1 <= m /\ l \in 0 .. m
        BY <3>2
      <4>2. H[l] = F[l] /\ H[l - 1] = F[l - 1]
        BY <2>2, <3>2, <4>1
      <4> QED BY <2>1, <2>3, <3>2, <4>1, <4>2
    <3>3. CASE l = m + 1
      <4>1. l - 1 = m /\ m \in 0 .. m + 1 /\ ~ (l <= m) /\ l # 0
        BY <3>3
      <4>2. H[m] = F[m] /\ H[l] = NetworkNext(F[m])
        BY <2>2, <4>1
      <4> QED BY <2>3, <4>1, <4>2
    <3> QED BY <3>1, <3>2, <3>3
  <2>5. H = H1
    <3>1. DOMAIN H = 0 .. m + 1 /\ DOMAIN H1 = 0 .. m + 1
      OBVIOUS
    <3>2. H = [l \in 0 .. m + 1 |-> H[l]] /\ H1 = [l \in 0 .. m + 1 |-> H1[l]]
      OBVIOUS
    <3> HIDE DEF H, H1, Is
    <3> QED BY <2>4, <3>2
  <2>6. Is(H, m + 1)
    <3> HIDE DEF H
    <3> QED BY <2>5
  <2> HIDE DEF Is, H
  <2> QED BY <2>6
<1>4. L \in S
  <2> HIDE DEF S, L
  <2> QED BY <1>2, <1>3, Reaches, Zenon DEF L
<1>5. Is(G, L)
  <2>1. \E F : Is(F, L)
    BY <1>4
  <2> HIDE DEF Is
  <2> QED BY <2>1, Zenon DEF G
<1>6. \A l \in 0 .. L : G[l] = IF l = 0 THEN start ELSE NetworkNext(G[l - 1])
  <2>1. G = [l \in 0 .. L |-> IF l = 0 THEN start ELSE NetworkNext(G[l - 1])]
    BY <1>5
  <2> HIDE DEF start, L, Is
  <2> QED BY <2>1
<1>7. G[0] = start /\ \A l \in 1 .. L : G[l] = NetworkNext(G[l - 1])
  <2> HIDE DEF start, Is
  <2> QED BY <1>6
<1> HIDE DEF start, Is
<1> QED BY <1>1, <1>7, Zenon DEF start


\* The levels before the one at k = 2 ^ e and j = 2 ^ f, counted.
LEMMA LevelsCounted ==
    ASSUME NEW e \in Nat, NEW f \in Nat, NEW l \in Nat, 2 * l = e * (e - 1) + 2 * ((e - 1) - f)
    PROVE  /\ 2 * (l + 1) = e * (e - 1) + 2 * ((e - 1) - (f - 1))
           /\ f = 0 => 2 * (l + 1) = (e + 1) * ((e + 1) - 1) + 2 * (((e + 1) - 1) - e)
<1>1. 2 * (l + 1) = e * (e - 1) + 2 * ((e - 1) - (f - 1))
  <2> DEFINE x == e * (e - 1)
  <2>1. x \in Int /\ 2 * l = x + 2 * ((e - 1) - f)
    OBVIOUS
  <2> HIDE DEF x
  <2>2. 2 * (l + 1) = x + 2 * ((e - 1) - (f - 1))
    BY <2>1
  <2> QED BY <2>2 DEF x
<1>2. f = 0 => 2 * (l + 1) = (e + 1) * ((e + 1) - 1) + 2 * (((e + 1) - 1) - e)
  <2>1. e * (e - 1) = e * e - e /\ (e + 1) * ((e + 1) - 1) = e * e + e /\ e * e \in Nat
    OBVIOUS
  <2> DEFINE x == e * (e - 1)
             y == (e + 1) * ((e + 1) - 1)
             z == e * e
  <2>2. x = z - e /\ y = z + e /\ z \in Nat /\ 2 * l = x + 2 * ((e - 1) - f)
    BY <2>1
  <2> HIDE DEF x, y, z
  <2>3. f = 0 => 2 * (l + 1) = y + 2 * (((e + 1) - 1) - e)
    BY <2>2
  <2> QED BY <2>3 DEF y
<1> QED BY <1>1, <1>2

\* RadixSortByKey returns its records in the order of what it sees of their
\* keys.
THEOREM RadixSortByKeySorts ==
    ASSUME NEW n \in Nat, Sortable(n), NEW bitLength \in Nat,
           NEW recs, DOMAIN recs = 0 .. n-1, \A i \in 0 .. n-1 : recs[i].key \in Nat
    PROVE  LET out == RadixSortByKey(recs, n, bitLength)
           IN  /\ DOMAIN out = 0 .. n-1
               /\ Permuted(recs, out, n)
               /\ \A x, y \in 0 .. n-1 : x < y =>
                    Truncated(out[x].key, bitLength) <= Truncated(out[y].key, bitLength)
<1> DEFINE L == LevelCount(n)
           out == RadixSortByKey(recs, n, bitLength)
<1>1. PICK g \in 1 .. n : n = 2 ^ g
  BY SortableIs
<1>2. L \in Nat /\ 2 * L = g * (g + 1)
  BY <1>1, LevelCountIs
<1>3. PICK F : /\ F[0] = NetworkStart(recs, n, bitLength)
               /\ \A l \in 1 .. L : F[l] = NetworkNext(F[l - 1])
               /\ out = F[L].vec
  <2>1. LevelCount(n) \in Nat
    BY <1>2
  <2>2. \E F : /\ F[0] = NetworkStart(recs, n, bitLength)
               /\ \A l \in 1 .. LevelCount(n) : F[l] = NetworkNext(F[l - 1])
               /\ RadixSortByKey(recs, n, bitLength) = F[LevelCount(n)].vec
    BY <2>1, NetworkStates, SMTT(30)
  <2> QED BY <2>2, Zenon
<1> DEFINE Moved(l) == OnTheWay(recs, n, bitLength, F[l].vec, F[l].bits)
           Ready(l) == Prepared(F[l].bits, n, F[l].at[1], F[l].at[2])
           Reached(l) == \E e, f \in Nat : /\ AtLevel(e, f, g, n, F[l].at[1], F[l].at[2])
                                           /\ 2 * l = e * (e - 1) + 2 * ((e - 1) - f)
           S == {l \in Nat : l <= L => Moved(l) /\ Ready(l) /\ Reached(l)}
<1> HIDE DEF L, out
<1>4. 0 \in S
  <2> DEFINE b == [i \in 0 .. n-1 |-> Truncated(recs[i].key, bitLength)]
  <2>1. F[0].vec = recs /\ F[0].bits = b /\ F[0].at[1] = 2 /\ F[0].at[2] = 1
    BY <1>3 DEF NetworkStart
  <2>2. b \in Keys(n)
    <3>1. 2 ^ bitLength \in Nat \ {0}
      BY PowerStep, Zenon
    <3> DEFINE w == 2 ^ bitLength
    <3>2. \A key \in Nat : key % w \in Int
      <4> HIDE DEF w
      <4>1. w \in Nat \ {0}
        BY <3>1 DEF w
      <4> QED BY <4>1
    <3>3. \A i \in 0 .. n-1 : Truncated(recs[i].key, bitLength) \in Int
      BY <3>2 DEF Truncated
    <3> QED BY <3>3 DEF Keys
  <2>3. OnTheWay(recs, n, bitLength, recs, b)
    BY <2>2, PermutedSelf DEF OnTheWay
  <2>4. Prepared(b, n, 2, 1)
    BY <2>2, PreparedFirst
  <2>5. AtLevel(1, 0, g, n, 2, 1)
    BY <1>1, FirstLevel
  <2> HIDE DEF b
  <2>6. Moved(0) /\ Ready(0)
    BY <2>1, <2>3, <2>4, Zenon
  <2>7. Reached(0)
    <3>1. AtLevel(1, 0, g, n, F[0].at[1], F[0].at[2])
      BY <2>1, <2>5, Zenon
    <3>2. 2 * 0 = 1 * (1 - 1) + 2 * ((1 - 1) - 0)
      OBVIOUS
    <3>3. 1 \in Nat /\ 0 \in Nat
      OBVIOUS
    <3> QED BY <3>1, <3>2, <3>3, Zenon
  <2> HIDE DEF Moved, Ready, Reached
  <2> QED BY <2>6, <2>7
<1>5. \A l \in Nat : l \in S => l + 1 \in S
  <2> SUFFICES ASSUME NEW l \in Nat, l \in S, l + 1 <= L
               PROVE  Moved(l + 1) /\ Ready(l + 1) /\ Reached(l + 1)
    OBVIOUS
  <2> DEFINE s == F[l]
             k == s.at[1]
             j == s.at[2]
             v == s.vec
             b == s.bits
  <2>1. Moved(l) /\ Ready(l) /\ Reached(l)
    BY <1>2
  <2>2. PICK e \in Nat, f \in Nat : /\ AtLevel(e, f, g, n, k, j)
                                    /\ 2 * l = e * (e - 1) + 2 * ((e - 1) - f)
    BY <2>1
  <2>3. OnTheWay(recs, n, bitLength, v, b) /\ Prepared(b, n, k, j)
    BY <2>1
  <2>4. F[l + 1] = NetworkNext(s)
    <3>1. l + 1 \in 1 .. L /\ (l + 1) - 1 = l
      BY <1>2
    <3> QED BY <1>3, <3>1
  <2> HIDE DEF s
  <2>5. /\ F[l + 1].vec = Exchange(v, b, k, j) /\ F[l + 1].bits = Exchange(b, b, k, j)
        /\ F[l + 1].at = NextLevel(k, j)
    BY <2>4 DEF NetworkNext
  <2> HIDE DEF k, j, v, b
  <2>6. f < e /\ e <= g + 1 /\ (e = g + 1 => f = g)
    BY <2>2 DEF AtLevel
  <2>7. e <= g
    <3> SUFFICES ASSUME e = g + 1 PROVE FALSE
      BY <2>6
    <3>1. f = g
      BY <2>6
    <3>2. 2 * l = (g + 1) * g
      BY <2>2, <3>1
    <3> QED BY <1>2, <3>2
  <2>8. k <= n /\ n \in Nat /\ j \in Nat \ {0} /\ Whole(n, 2 * j)
    BY <2>2, <2>7, LevelMeans
  <2>9. Moved(l + 1)
    BY <2>3, <2>5, <2>8, OnTheWayNext
  <2>10. Ready(l + 1)
    <3>1. b \in Keys(n)
      BY <2>3 DEF OnTheWay
    <3> QED BY <2>2, <2>3, <2>5, <2>8, <3>1, PreparedNext
  <2>11. Reached(l + 1)
    <3>1. CASE f > 0
      <4>1. NextLevel(k, j) = <<k, j \div 2>> /\ AtLevel(e, f - 1, g, n, k, j \div 2)
        BY <2>2, <2>8, <3>1, LevelAfter
      <4>2. f - 1 \in Nat /\ 2 * (l + 1) = e * (e - 1) + 2 * ((e - 1) - (f - 1))
        <5>1. f - 1 \in Nat
          BY <3>1
        <5>2. 2 * l = e * (e - 1) + 2 * ((e - 1) - f)
          BY <2>2, Zenon
        <5>3. 2 * (l + 1) = e * (e - 1) + 2 * ((e - 1) - (f - 1))
          BY ONLY <5>2, LevelsCounted, e \in Nat, f \in Nat, l \in Nat
        <5> QED BY <5>1, <5>3, Zenon
      <4>3. AtLevel(e, f - 1, g, n, F[l + 1].at[1], F[l + 1].at[2])
        BY <2>5, <4>1
      <4> QED BY <4>2, <4>3
    <3>2. CASE f = 0
      <4>1. NextLevel(k, j) = <<2 * k, k>> /\ AtLevel(e + 1, e, g, n, 2 * k, k)
        BY <2>2, <2>8, <3>2, LevelAfter
      <4>2. e + 1 \in Nat /\ 2 * (l + 1) = (e + 1) * ((e + 1) - 1) + 2 * (((e + 1) - 1) - e)
        <5>1. e + 1 \in Nat
          OBVIOUS
        <5>2. 2 * l = e * (e - 1) + 2 * ((e - 1) - f)
          BY <2>2, Zenon
        <5>3. 2 * (l + 1) = (e + 1) * ((e + 1) - 1) + 2 * (((e + 1) - 1) - e)
          BY ONLY <3>2, <5>2, LevelsCounted, e \in Nat, f \in Nat, l \in Nat
        <5> QED BY <5>1, <5>3, Zenon
      <4>3. AtLevel(e + 1, e, g, n, F[l + 1].at[1], F[l + 1].at[2])
        BY <2>5, <4>1
      <4> QED BY <4>2, <4>3
    <3> QED BY <3>1, <3>2
  <2> QED BY <2>9, <2>10, <2>11
<1>6. Moved(L) /\ Ready(L) /\ Reached(L)
  <2> HIDE DEF Moved, Ready, Reached
  <2>1. \A l \in Nat : l \in S
    <3> HIDE DEF S
    <3> QED BY <1>4, <1>5, Reaches, Zenon
  <2> QED BY <1>2, <2>1
<1> DEFINE k == F[L].at[1]
           j == F[L].at[2]
           b == F[L].bits
<1>7. OnTheWay(recs, n, bitLength, out, b) /\ Prepared(b, n, k, j)
  BY <1>3, <1>6
<1>8. PICK e \in Nat, f \in Nat : /\ AtLevel(e, f, g, n, k, j)
                                  /\ 2 * L = e * (e - 1) + 2 * ((e - 1) - f)
  BY <1>6
<1> HIDE DEF k, j, b
<1>9. k > n
  <2>1. f < e /\ e <= g + 1
    BY <1>8 DEF AtLevel
  <2>2. ~ (e <= g)
    <3> SUFFICES ASSUME e <= g PROVE FALSE
      OBVIOUS
    <3>1. e * (e - 1) <= g * (g - 1)
      <4>1. e * (e - 1) <= g * (e - 1)
        BY <2>1
      <4>2. g * (e - 1) <= g * (g - 1)
        BY <2>1
      <4> QED BY <4>1, <4>2
    <3>2. 2 * ((e - 1) - f) <= 2 * (g - 1)
      BY <2>1
    <3>3. g * (g + 1) = g * (g - 1) + 2 * g
      OBVIOUS
    <3> QED BY <1>2, <1>8, <3>1, <3>2, <3>3
  <2>3. k <= n <=> e <= g
    BY <1>8, LevelMeans
  <2>4. n \in Nat /\ k \in Nat
    BY <1>8, LevelMeans
  <2> QED BY <2>2, <2>3, <2>4
<1>10. b \in Keys(n) /\ DOMAIN out = 0 .. n-1 /\ Permuted(recs, out, n)
       /\ \A i \in 0 .. n-1 : b[i] = Truncated(out[i].key, bitLength)
  BY <1>7 DEF OnTheWay
<1>11. \A x, y \in 0 .. n-1 : x < y => b[x] <= b[y]
  BY <1>7, <1>8, <1>9, <1>10, PreparedLast
<1> QED BY <1>10, <1>11 DEF out


\* Keys that fit are seen whole.
LEMMA TruncatedWhole ==
    ASSUME NEW key \in Nat, NEW bitLength \in Nat
    PROVE  /\ 2 ^ bitLength \in Nat \ {0}
           /\ Truncated(key, bitLength) \in 0 .. 2 ^ bitLength - 1
           /\ key < 2 ^ bitLength => Truncated(key, bitLength) = key
<1> DEFINE w == 2 ^ bitLength
<1>1. w \in Nat \ {0}
  BY PowerStep
<1>2. Truncated(key, bitLength) = key % w
  BY DEF Truncated
<1> HIDE DEF w
<1>3. key % w \in 0 .. w - 1
  BY <1>1
<1>4. key < w => key % w = key
  BY <1>1
<1> QED BY <1>1, <1>2, <1>3, <1>4 DEF w

LEMMA FittingKeysSorted ==
    ASSUME NEW n \in Nat, Sortable(n), NEW bitLength \in Nat,
           NEW recs, DOMAIN recs = 0 .. n-1,
           \A i \in 0 .. n-1 : recs[i].key \in Nat /\ recs[i].key < 2 ^ bitLength
    PROVE  LET out == RadixSortByKey(recs, n, bitLength)
           IN  /\ DOMAIN out = 0 .. n-1
               /\ Permuted(recs, out, n)
               /\ \A x, y \in 0 .. n-1 : x < y => out[x].key <= out[y].key
<1> DEFINE out == RadixSortByKey(recs, n, bitLength)
<1>1. \A i \in 0 .. n-1 : recs[i].key \in Nat
  OBVIOUS
<1>2. /\ DOMAIN out = 0 .. n-1
      /\ Permuted(recs, out, n)
      /\ \A x, y \in 0 .. n-1 : x < y =>
            Truncated(out[x].key, bitLength) <= Truncated(out[y].key, bitLength)
  BY <1>1, RadixSortByKeySorts
<1> HIDE DEF out
<1>3. \A i \in 0 .. n-1 : Truncated(out[i].key, bitLength) = out[i].key
  <2> SUFFICES ASSUME NEW i \in 0 .. n-1 PROVE Truncated(out[i].key, bitLength) = out[i].key
    OBVIOUS
  <2>1. PICK p : Permutation(p, n) /\ \A h \in 0 .. n-1 : out[h] = recs[p[h]]
    BY <1>2 DEF Permuted
  <2>2. p[i] \in 0 .. n-1
    BY <2>1 DEF Permutation
  <2>3. out[i].key \in Nat /\ out[i].key < 2 ^ bitLength
    BY <2>1, <2>2
  <2> QED BY <2>3, TruncatedWhole, Zenon
<1>4. \A x, y \in 0 .. n-1 : x < y => out[x].key <= out[y].key
  BY <1>2, <1>3
<1> QED BY <1>2, <1>4 DEF out

\* Records of values, which fit the bits that are compared.
RecordsOfValues(recs, a, len, bitLength) ==
    /\ DOMAIN recs = 0 .. len-1
    /\ \A i \in 0 .. len-1 : a[i] \in Nat /\ a[i] < 2 ^ bitLength
    /\ \A i \in 0 .. len-1 : recs[i].key = a[i]

KeysSorted(recs, len, bitLength) ==
    [i \in 0 .. len-1 |-> RadixSortByKey(recs, len, bitLength)[i].key]

\* Values that fit, sorted by themselves.
LEMMA ValuesSorted ==
    ASSUME NEW len \in Nat, Sortable(len), NEW bitLength \in Nat,
           NEW a, NEW recs, RecordsOfValues(recs, a, len, bitLength),
           NEW b, b = KeysSorted(recs, len, bitLength)
    PROVE  /\ DOMAIN b = 0 .. len-1
           /\ Permuted(a, b, len)
           /\ \A x, y \in 0 .. len-1 : x < y => b[x] <= b[y]
<1> USE DEF RecordsOfValues, KeysSorted
<1> DEFINE sorted == RadixSortByKey(recs, len, bitLength)
<1>1. \A i \in 0 .. len-1 : recs[i].key \in Nat /\ recs[i].key < 2 ^ bitLength
  OBVIOUS
<1>2. /\ DOMAIN sorted = 0 .. len-1
      /\ Permuted(recs, sorted, len)
      /\ \A x, y \in 0 .. len-1 : x < y => sorted[x].key <= sorted[y].key
  BY <1>1, FittingKeysSorted
<1> HIDE DEF sorted
<1>3. DOMAIN b = 0 .. len-1 /\ \A i \in 0 .. len-1 : b[i] = sorted[i].key
  BY DEF sorted
<1>4. PICK p : Permutation(p, len) /\ \A i \in 0 .. len-1 : sorted[i] = recs[p[i]]
  BY <1>2 DEF Permuted
<1>5. \A i \in 0 .. len-1 : p[i] \in 0 .. len-1
  BY <1>4 DEF Permutation
<1>6. \A i \in 0 .. len-1 : b[i] = a[p[i]]
  BY <1>3, <1>4, <1>5
<1>7. Permuted(a, b, len)
  BY <1>4, <1>6 DEF Permuted
<1> QED BY <1>2, <1>3, <1>7

-----------------------------------------------------------------------------
(* Sets that pair off.                                                     *)

\* The elements of A and of B, one to one.
Pairing(g, A, B) ==
    /\ g \in [A -> B]
    /\ \A x, y \in A : g[x] = g[y] => x = y
    /\ \A y \in B : \E x \in A : g[x] = y

LEMMA PairingMore ==
    ASSUME NEW A, NEW B, NEW g, Pairing(g, A, B), NEW i, i \notin A, NEW j, j \notin B
    PROVE  LET h == [x \in A \cup {i} |-> IF x = i THEN j ELSE g[x]]
           IN  Pairing(h, A \cup {i}, B \cup {j}) /\ h[i] = j /\ \A x \in A : h[x] = g[x]
<1> DEFINE h == [x \in A \cup {i} |-> IF x = i THEN j ELSE g[x]]
<1>1. h[i] = j /\ \A x \in A : h[x] = g[x] /\ g[x] \in B
  BY DEF Pairing
<1>2. h \in [A \cup {i} -> B \cup {j}]
  BY DEF Pairing
<1> HIDE DEF h
<1>3. \A x, y \in A \cup {i} : h[x] = h[y] => x = y
  BY <1>1 DEF Pairing
<1>4. \A y \in B \cup {j} : \E x \in A \cup {i} : h[x] = y
  BY <1>1 DEF Pairing
<1> QED BY <1>1, <1>2, <1>3, <1>4 DEF Pairing, h

\* A one-to-one map onto B that goes up with its argument.
InOrderOnto(b, A, B) ==
    /\ b \in [A -> B]
    /\ \A x, y \in A : x < y => b[x] < b[y]
    /\ \A y \in B : \E x \in A : b[x] = y

\* Between two sets of numbers there is one at most.
LEMMA OneInOrder ==
    ASSUME NEW A \in SUBSET Nat, NEW B \in SUBSET Nat,
           NEW b, InOrderOnto(b, A, B), NEW c, InOrderOnto(c, A, B)
    PROVE  b = c
<1> DEFINE D == {x \in A : b[x] # c[x]}
<1>1. ASSUME NEW u, NEW v, InOrderOnto(u, A, B), InOrderOnto(v, A, B), NEW x \in A,
             \A y \in A : y < x => u[y] = v[y], u[x] < v[x]
      PROVE  FALSE
  <2>1. u[x] \in B /\ u[x] \in Nat /\ v[x] \in Nat /\ x \in Nat
    BY <1>1 DEF InOrderOnto
  <2>2. PICK y \in A : v[y] = u[x]
    BY <1>1, <2>1 DEF InOrderOnto
  <2> y \in Nat
    OBVIOUS
  <2>3. ~ (y < x)
    <3>1. ASSUME y < x PROVE FALSE
      <4>1. u[y] < u[x] /\ u[y] = v[y]
        BY <1>1, <3>1 DEF InOrderOnto
      <4> QED BY <2>1, <2>2, <4>1
    <3> QED BY <3>1
  <2>4. ~ (x < y)
    <3>1. ASSUME x < y PROVE FALSE
      <4>1. v[x] < v[y]
        BY <1>1, <3>1 DEF InOrderOnto
      <4> QED BY <1>1, <2>1, <2>2, <4>1
    <3> QED BY <3>1
  <2>5. y = x
    BY <2>3, <2>4
  <2> QED BY <1>1, <2>1, <2>2, <2>5
<1>2. D = {}
  <2> SUFFICES ASSUME D # {} PROVE FALSE
    OBVIOUS
  <2>1. D \in SUBSET Nat
    OBVIOUS
  <2> HIDE DEF D
  <2>2. PICK x \in D : \A y \in D : x <= y
    BY <2>1, LeastNatural
  <2>3. x \in A /\ b[x] # c[x]
    BY DEF D
  <2>4. \A y \in A : y < x => b[y] = c[y]
    <3> SUFFICES ASSUME NEW y \in A, y < x, b[y] # c[y] PROVE FALSE
      OBVIOUS
    <3>1. y \in D
      BY DEF D
    <3> QED BY <2>2, <2>3, <3>1
  <2>5. b[x] \in Nat /\ c[x] \in Nat
    BY <2>3 DEF InOrderOnto
  <2>6. ~ (b[x] < c[x])
    BY <1>1, <2>3, <2>4
  <2>7. ~ (c[x] < b[x])
    <3>1. \A y \in A : y < x => c[y] = b[y]
      BY <2>4
    <3> QED BY <1>1, <2>3, <3>1
  <2> QED BY <2>3, <2>5, <2>6, <2>7
<1>3. \A x \in A : b[x] = c[x]
  BY <1>2
<1>4. b \in [A -> B] /\ c \in [A -> B]
  BY DEF InOrderOnto
<1>5. b = [x \in A |-> b[x]] /\ c = [x \in A |-> c[x]]
  BY <1>4
<1>6. [x \in A |-> b[x]] = [x \in A |-> c[x]]
  BY <1>3, Zenon
<1> QED BY <1>5, <1>6, Zenon

LEMMA PairingCounts ==
    ASSUME NEW A, NEW B, NEW g, Pairing(g, A, B), IsFiniteSet(A)
    PROVE  IsFiniteSet(B) /\ Cardinality(A) = Cardinality(B)
<1>1. g \in Bijection(A, B)
  BY DEF Pairing, Bijection, Injection, Surjection, IsInjective
<1> QED BY <1>1, FS_Bijection DEF ExistsBijection


\* What pairs off with no more than it pairs is all of a finite set.
LEMMA PairingFills ==
    ASSUME NEW S, IsFiniteSet(S), NEW A \in SUBSET S, NEW B \in SUBSET S,
           NEW g, Pairing(g, A, B)
    PROVE  /\ A = S <=> B = S
           /\ Cardinality(S \ A) = Cardinality(S \ B)
<1>1. IsFiniteSet(A) /\ Cardinality(A) = Cardinality(B)
  <2>1. IsFiniteSet(A)
    BY FS_Subset
  <2> QED BY <2>1, PairingCounts
<1>2. /\ Cardinality(S) = Cardinality(A) => S = A
      /\ Cardinality(S) = Cardinality(B) => S = B
  BY FS_Subset, Zenon
<1>3. /\ Cardinality(S \ A) = Cardinality(S) - Cardinality(S \cap A)
      /\ Cardinality(S \ B) = Cardinality(S) - Cardinality(S \cap B)
  BY FS_Difference, Zenon
<1>4. S \cap A = A /\ S \cap B = B
  OBVIOUS
<1>5. Cardinality(S \ A) = Cardinality(S \ B)
  BY <1>1, <1>3, <1>4, Zenon
<1>6. A = S <=> B = S
  BY <1>1, <1>2, Zenon
<1> QED BY <1>5, <1>6

-----------------------------------------------------------------------------
(* Numbers, and what is equal modulo the field's prime.                    *)

\* a and b stand for the same element of the field.
Same(a, b) == \E q \in Int : a - b = Modulus * q

LEMMA ModulusIs == Modulus \in Nat /\ Modulus >= 2 /\ 0 \in Field /\ 1 \in Field /\ Field \in SUBSET Nat
BY PrimeAssumption DEF Field

LEMMA SameItself ==
    ASSUME NEW a \in Int
    PROVE  Same(a, a)
<1>1. a - a = Modulus * 0
  BY ModulusIs
<1> QED BY <1>1 DEF Same

LEMMA SameBack ==
    ASSUME NEW a \in Int, NEW b \in Int, Same(a, b)
    PROVE  Same(b, a)
<1>1. PICK q \in Int : a - b = Modulus * q
  BY DEF Same
<1>2. b - a = Modulus * (0 - q)
  BY <1>1, ModulusIs
<1> QED BY <1>2 DEF Same

LEMMA SameOn ==
    ASSUME NEW a \in Int, NEW b \in Int, NEW c \in Int, Same(a, b), Same(b, c)
    PROVE  Same(a, c)
<1>1. PICK q \in Int : a - b = Modulus * q
  BY DEF Same
<1>2. PICK r \in Int : b - c = Modulus * r
  BY DEF Same
<1>3. a - c = Modulus * (q + r)
  BY <1>1, <1>2, ModulusIs
<1> QED BY <1>3 DEF Same

LEMMA SameSum ==
    ASSUME NEW a \in Int, NEW b \in Int, NEW c \in Int, NEW d \in Int, Same(a, b), Same(c, d)
    PROVE  Same(a + c, b + d)
<1>1. PICK q \in Int : a - b = Modulus * q
  BY DEF Same
<1>2. PICK r \in Int : c - d = Modulus * r
  BY DEF Same
<1>3. (a + c) - (b + d) = Modulus * (q + r)
  BY <1>1, <1>2, ModulusIs
<1> QED BY <1>3 DEF Same

LEMMA SameProduct ==
    ASSUME NEW a \in Int, NEW b \in Int, NEW c \in Int, NEW d \in Int, Same(a, b), Same(c, d)
    PROVE  Same(a * c, b * d)
<1>1. PICK q \in Int : a - b = Modulus * q
  BY DEF Same
<1>2. PICK r \in Int : c - d = Modulus * r
  BY DEF Same
<1>3. a = b + Modulus * q /\ c = d + Modulus * r
  BY <1>1, <1>2, ModulusIs
<1>4. a * c - b * d = Modulus * (q * c + b * r)
  <2>1. a * c = b * c + Modulus * q * c
    BY <1>3, ModulusIs
  <2>2. b * c = b * d + b * (Modulus * r)
    BY <1>3, ModulusIs
  <2>3. b * (Modulus * r) = Modulus * (b * r) /\ Modulus * q * c = Modulus * (q * c)
    BY ModulusIs
  <2> QED BY <2>1, <2>2, <2>3, ModulusIs
<1> QED BY <1>4 DEF Same

LEMMA SameDifference ==
    ASSUME NEW a \in Int, NEW b \in Int, NEW c \in Int, NEW d \in Int, Same(a, b), Same(c, d)
    PROVE  Same(a - c, b - d)
<1>1. PICK q \in Int : a - b = Modulus * q
  BY DEF Same
<1>2. PICK r \in Int : c - d = Modulus * r
  BY DEF Same
<1>3. (a - c) - (b - d) = Modulus * (q - r)
  BY <1>1, <1>2, ModulusIs
<1> QED BY <1>3 DEF Same

LEMMA Remainder ==
    ASSUME NEW a \in Int
    PROVE  a % Modulus \in Field /\ Same(a % Modulus, a)
<1>1. a % Modulus \in 0 .. Modulus - 1 /\ a = Modulus * (a \div Modulus) + (a % Modulus)
  BY ModulusIs
<1>2. a \div Modulus \in Int
  BY ModulusIs
<1> DEFINE q == a \div Modulus
           r == a % Modulus
<1>3. r \in Int /\ q \in Int /\ a = Modulus * q + r
  BY <1>1, <1>2
<1> HIDE DEF q, r
<1>4. r - a = Modulus * (0 - q)
  BY <1>3, ModulusIs
<1> QED BY <1>1, <1>3, <1>4 DEF Same, Field, r

\* In the field there is one representative.
LEMMA SameIsEqual ==
    ASSUME NEW a \in Field, NEW b \in Field, Same(a, b)
    PROVE  a = b
<1>1. PICK q \in Int : a - b = Modulus * q
  BY DEF Same
<1>2. a \in Nat /\ b \in Nat /\ a < Modulus /\ b < Modulus
  BY ModulusIs DEF Field
<1>3. q < 1
  <2> SUFFICES ASSUME q >= 1 PROVE FALSE
    OBVIOUS
  <2>1. Modulus * q >= Modulus
    BY ModulusIs
  <2> QED BY <1>1, <1>2, <2>1, ModulusIs
<1>4. q > 0 - 1
  <2> SUFFICES ASSUME q <= 0 - 1 PROVE FALSE
    OBVIOUS
  <2>1. Modulus * q <= 0 - Modulus
    BY ModulusIs
  <2> QED BY <1>1, <1>2, <2>1, ModulusIs
<1> QED BY <1>1, <1>2, <1>3, <1>4, ModulusIs

LEMMA SameRemainder ==
    ASSUME NEW a \in Int, NEW b \in Int
    PROVE  Same(a, b) <=> a % Modulus = b % Modulus
<1> DEFINE r == a % Modulus
           s == b % Modulus
<1>1. r \in Field /\ s \in Field /\ Same(r, a) /\ Same(s, b)
  BY Remainder
<1>2. r \in Int /\ s \in Int
  BY <1>1, ModulusIs
<1> HIDE DEF r, s
<1>3. ASSUME Same(a, b) PROVE r = s
  <2>1. Same(r, b)
    BY <1>1, <1>2, <1>3, SameOn
  <2>2. Same(b, s)
    BY <1>1, <1>2, SameBack
  <2>3. Same(r, s)
    BY <1>2, <2>1, <2>2, SameOn
  <2> QED BY <1>1, <2>3, SameIsEqual
<1>4. ASSUME r = s PROVE Same(a, b)
  <2>1. Same(a, r)
    BY <1>1, <1>2, SameBack
  <2> QED BY <1>1, <1>2, <1>4, <2>1, SameOn
<1> QED BY <1>3, <1>4 DEF r, s

-----------------------------------------------------------------------------
(* Sums.                                                                   *)

\* The sum of the first k of x, from x[0] on.
SumTo(x, k) ==
    LET upTo[i \in 0 .. k] == IF i = 0 THEN 0 ELSE upTo[i - 1] + x[i - 1]
    IN  upTo[k]

Summands(x, k) == \A i \in 0 .. k-1 : x[i] \in Int

\* The partial sums of the first k shares.
Sums(u, x, k) ==
    /\ u \in [0 .. k -> Int]
    /\ u[0] = 0
    /\ \A i \in 1 .. k : u[i] = u[i - 1] + x[i - 1]

LEMMA SumsExist ==
    ASSUME NEW k \in Nat, NEW x, Summands(x, k)
    PROVE  \E u : Sums(u, x, k)
<1> DEFINE S == {m \in Nat : m <= k => \E u : Sums(u, x, m)}
<1>1. 0 \in S
  <2>1. Sums([i \in 0 .. 0 |-> 0], x, 0)
    BY DEF Sums
  <2> QED BY <2>1
<1>2. \A m \in Nat : m \in S => m + 1 \in S
  <2> SUFFICES ASSUME NEW m \in Nat, m \in S, m + 1 <= k
               PROVE  \E u : Sums(u, x, m + 1)
    OBVIOUS
  <2>1. PICK u : Sums(u, x, m)
    OBVIOUS
  <2> DEFINE v == [i \in 0 .. m + 1 |-> IF i <= m THEN u[i] ELSE u[m] + x[m]]
  <2>2. u[m] \in Int /\ x[m] \in Int
    BY <2>1 DEF Sums, Summands
  <2>3. v \in [0 .. m + 1 -> Int] /\ v[0] = 0
    BY <2>1, <2>2 DEF Sums
  <2>4. \A i \in 1 .. m + 1 : v[i] = v[i - 1] + x[i - 1]
    <3> SUFFICES ASSUME NEW i \in 1 .. m + 1 PROVE v[i] = v[i - 1] + x[i - 1]
      OBVIOUS
    <3>1. CASE i <= m
      BY <2>1, <3>1 DEF Sums
    <3>2. CASE i = m + 1
      <4>1. i - 1 = m /\ v[m] = u[m] /\ v[i] = u[m] + x[m]
        BY <3>2
      <4> QED BY <4>1
    <3> QED BY <3>1, <3>2
  <2> HIDE DEF v
  <2>5. Sums(v, x, m + 1)
    BY <2>3, <2>4 DEF Sums
  <2> QED BY <2>5
<1>3. k \in S
  <2> HIDE DEF S
  <2> QED BY <1>1, <1>2, Reaches
<1> QED BY <1>3

\* The definition of SumTo has the partial sums for its solution.
LEMMA SumToIs ==
    ASSUME NEW k \in Nat, NEW x, Summands(x, k)
    PROVE  \E u : Sums(u, x, k) /\ SumTo(x, k) = u[k]
<1> DEFINE Is(u) == u = [i \in 0 .. k |-> IF i = 0 THEN 0 ELSE u[i - 1] + x[i - 1]]
           G == CHOOSE u : Is(u)
<1>1. SumTo(x, k) = G[k]
  BY DEF SumTo
<1> HIDE DEF G
<1>2. PICK v : Sums(v, x, k)
  BY SumsExist
<1>3. Is(v)
  <2> DEFINE w == [i \in 0 .. k |-> IF i = 0 THEN 0 ELSE v[i - 1] + x[i - 1]]
  <2>1. \A i \in 0 .. k : v[i] = w[i]
    BY <1>2 DEF Sums
  <2>2. v = [i \in 0 .. k |-> v[i]] /\ w = [i \in 0 .. k |-> w[i]]
    BY <1>2 DEF Sums
  <2> HIDE DEF w
  <2>3. v = w
    BY <2>1, <2>2
  <2> QED BY <2>3 DEF w
<1>4. Is(G)
  <2> HIDE DEF Is
  <2> QED BY <1>3, Zenon DEF G
<1>5. /\ DOMAIN G = 0 .. k
      /\ \A i \in 0 .. k : G[i] = IF i = 0 THEN 0 ELSE G[i - 1] + x[i - 1]
  <2>1. G = [i \in 0 .. k |-> IF i = 0 THEN 0 ELSE G[i - 1] + x[i - 1]]
    BY <1>4
  <2> HIDE DEF Is
  <2> QED BY <2>1
<1> HIDE DEF Is
<1> DEFINE S == {m \in Nat : m <= k => G[m] = v[m]}
<1>6. 0 \in S
  BY <1>2, <1>5 DEF Sums
<1>7. \A m \in Nat : m \in S => m + 1 \in S
  <2> SUFFICES ASSUME NEW m \in Nat, G[m] = v[m], m + 1 <= k PROVE G[m + 1] = v[m + 1]
    OBVIOUS
  <2>1. m + 1 \in 1 .. k /\ m + 1 # 0 /\ (m + 1) - 1 = m
    OBVIOUS
  <2> QED BY <1>2, <1>5, <2>1 DEF Sums
<1>8. k \in S
  <2> HIDE DEF S
  <2> QED BY <1>6, <1>7, Reaches
<1> QED BY <1>1, <1>2, <1>8

\* What holds of every share holds of the sum: the combination of two sharings.
LEMMA SumsCombine ==
    ASSUME NEW k \in Nat, NEW x, NEW y, NEW z, Summands(x, k), Summands(y, k), Summands(z, k),
           NEW c \in Int, NEW d \in Int,
           \A i \in 0 .. k-1 : Same(z[i], c * x[i] + d * y[i])
    PROVE  /\ SumTo(x, k) \in Int /\ SumTo(y, k) \in Int /\ SumTo(z, k) \in Int
           /\ Same(SumTo(z, k), c * SumTo(x, k) + d * SumTo(y, k))
<1>1. PICK u : Sums(u, x, k) /\ SumTo(x, k) = u[k]
  BY SumToIs
<1>2. PICK v : Sums(v, y, k) /\ SumTo(y, k) = v[k]
  BY SumToIs
<1>3. PICK w : Sums(w, z, k) /\ SumTo(z, k) = w[k]
  BY SumToIs
<1> DEFINE S == {m \in Nat : m <= k => Same(w[m], c * u[m] + d * v[m])}
<1>4. 0 \in S
  <2>1. u[0] = 0 /\ v[0] = 0 /\ w[0] = 0
    BY <1>1, <1>2, <1>3 DEF Sums
  <2>2. c * 0 + d * 0 = 0
    OBVIOUS
  <2>3. Same(0, 0)
    BY SameItself
  <2> QED BY <2>1, <2>2, <2>3
<1>5. \A m \in Nat : m \in S => m + 1 \in S
  <2> SUFFICES ASSUME NEW m \in Nat, Same(w[m], c * u[m] + d * v[m]), m + 1 <= k
               PROVE  Same(w[m + 1], c * u[m + 1] + d * v[m + 1])
    OBVIOUS
  <2>1. m \in 0 .. k-1 /\ m \in 0 .. k /\ m + 1 \in 1 .. k /\ (m + 1) - 1 = m
    OBVIOUS
  <2>2. /\ u[m] \in Int /\ v[m] \in Int /\ w[m] \in Int
        /\ x[m] \in Int /\ y[m] \in Int /\ z[m] \in Int
        /\ u[m + 1] = u[m] + x[m] /\ v[m + 1] = v[m] + y[m] /\ w[m + 1] = w[m] + z[m]
    BY <1>1, <1>2, <1>3, <2>1 DEF Sums, Summands
  <2>3. Same(z[m], c * x[m] + d * y[m])
    BY <2>1
  <2> DEFINE a == c * u[m] + d * v[m]
             b == c * x[m] + d * y[m]
  <2>4. a \in Int /\ b \in Int
    BY <2>2
  <2>5. c * u[m + 1] + d * v[m + 1] = a + b
    BY <2>2
  <2>6. Same(w[m], a) /\ Same(z[m], b)
    BY <2>3
  <2> HIDE DEF a, b
  <2>7. Same(w[m] + z[m], a + b)
    BY <2>2, <2>4, <2>6, SameSum
  <2> QED BY <2>2, <2>5, <2>7
<1>6. k \in S
  <2> HIDE DEF S
  <2> QED BY <1>4, <1>5, Reaches
<1>7. u[k] \in Int /\ v[k] \in Int /\ w[k] \in Int
  BY <1>1, <1>2, <1>3 DEF Sums
<1> QED BY <1>1, <1>2, <1>3, <1>6, <1>7

\* A sharing that is the first party's alone.
LEMMA SumOfFirst ==
    ASSUME NEW k \in Nat \ {0}, NEW x, NEW c \in Int, x[0] = c, \A i \in 1 .. k-1 : x[i] = 0
    PROVE  SumTo(x, k) = c
<1>1. Summands(x, k)
  BY DEF Summands
<1>2. PICK u : Sums(u, x, k) /\ SumTo(x, k) = u[k]
  BY <1>1, SumToIs
<1> DEFINE S == {m \in Nat : m + 1 <= k => u[m + 1] = c}
<1>3. 0 \in S
  BY <1>2 DEF Sums
<1>4. \A m \in Nat : m \in S => m + 1 \in S
  <2> SUFFICES ASSUME NEW m \in Nat, u[m + 1] = c, (m + 1) + 1 <= k
               PROVE  u[(m + 1) + 1] = c
    OBVIOUS
  <2> DEFINE i == (m + 1) + 1
  <2>1. i \in 1 .. k /\ i - 1 = m + 1 /\ m + 1 \in 1 .. k-1
    OBVIOUS
  <2>2. x[m + 1] = 0 /\ c + 0 = c
    BY <2>1
  <2> HIDE DEF i
  <2>3. u[i] = u[i - 1] + x[i - 1]
    BY <1>2, <2>1 DEF Sums
  <2>4. u[i] = c
    BY <2>1, <2>2, <2>3
  <2> QED BY <2>4 DEF i
<1>5. k - 1 \in S
  <2> HIDE DEF S
  <2> QED BY <1>3, <1>4, Reaches
<1> QED BY <1>2, <1>5

-----------------------------------------------------------------------------
(* Inverses.                                                               *)

\* A remainder of the modulus by a multiple of c is a multiple of c.
LEMMA MultipleLeft ==
    ASSUME NEW c \in Int, NEW x \in Int, NEW m \in Int, NEW q \in Int, NEW r \in Int,
           Same(c * x, m), Modulus = m * q + r
    PROVE  Same(c * (x * (q * (Modulus - 1))), r)
<1>1. PICK k \in Int : c * x - m = Modulus * k
  BY DEF Same
<1> DEFINE d == c * x
           M == Modulus
<1>2. d \in Int /\ d = m + M * k /\ M \in Int /\ M = m * q + r
  BY <1>1, ModulusIs
<1>3. c * (x * (q * (M - 1))) = d * (q * (M - 1))
  BY <1>2
<1> HIDE DEF d, M
<1>4. d * (q * (M - 1)) - r = M * (d * q) - (d * q + r)
  <2> DEFINE e == d * q
  <2>1. d * (q * (M - 1)) = e * (M - 1)
    BY <1>2
  <2>2. e \in Int
    BY <1>2
  <2> HIDE DEF e
  <2>3. e * (M - 1) = M * e - e
    BY <1>2, <2>2
  <2>4. d * (q * (M - 1)) - r = M * e - (e + r)
    BY <1>2, <2>1, <2>2, <2>3
  <2> QED BY <2>4 DEF e
<1>5. d * q + r = M + M * (k * q)
  <2>1. d * q = m * q + (M * k) * q
    BY <1>2
  <2>2. (M * k) * q = M * (k * q)
    BY <1>2
  <2>3. m * q \in Int /\ M * (k * q) \in Int
    BY <1>2
  <2> QED BY <1>2, <2>1, <2>2, <2>3
<1>6. d * (q * (M - 1)) - r = M * ((d * q - 1) - k * q)
  <2> DEFINE a == d * q
             b == k * q
  <2>1. a \in Int /\ b \in Int
    BY <1>2
  <2>2. d * (q * (M - 1)) - r = M * a - (M + M * b)
    BY <1>4, <1>5
  <2> HIDE DEF a, b
  <2>3. M * ((a - 1) - b) = M * a - (M + M * b)
    BY <1>2, <2>1
  <2>4. d * (q * (M - 1)) - r = M * ((a - 1) - b)
    BY <2>2, <2>3
  <2> QED BY <2>4 DEF a, b
<1>7. (d * q - 1) - k * q \in Int
  BY <1>2
<1> QED BY <1>3, <1>6, <1>7 DEF Same, M

LEMMA InverseExists ==
    ASSUME NEW c \in Field, c # 0
    PROVE  \E y \in Field : (c * y) % Modulus = 1
<1>1. c \in Nat /\ c < Modulus /\ Modulus \in Nat /\ Modulus >= 2
  BY ModulusIs DEF Field
<1> DEFINE S == {(c * x) % Modulus : x \in Nat} \ {0}
<1>2. c \in S
  <2>1. (c * 1) % Modulus = c
    BY <1>1
  <2> QED BY <2>1
<1>3. S \in SUBSET Nat
  <2> SUFFICES ASSUME NEW x \in Nat PROVE (c * x) % Modulus \in Nat
    OBVIOUS
  <2>1. c * x \in Int
    BY <1>1
  <2> QED BY <2>1, Remainder, ModulusIs DEF Field
<1>4. PICK m \in S : \A y \in S : m <= y
  BY <1>2, <1>3, LeastNatural
<1>5. PICK x \in Nat : m = (c * x) % Modulus
  OBVIOUS
<1>6. c * x \in Int /\ m \in Field /\ m \in Nat /\ m # 0 /\ m < Modulus /\ Same(c * x, m)
  <2>1. c * x \in Int
    BY <1>1
  <2>2. m \in Field /\ Same(m, c * x)
    BY <1>5, <2>1, Remainder
  <2>3. m \in Nat /\ m < Modulus
    BY <2>2, ModulusIs DEF Field
  <2> QED BY <1>4, <2>1, <2>2, <2>3, SameBack
<1> DEFINE q == Modulus \div m
           r == Modulus % m
<1>7. q \in Nat /\ r \in Nat /\ r < m /\ Modulus = m * q + r
  BY <1>1, <1>6
<1>8. r = 0
  <2> SUFFICES ASSUME r # 0 PROVE FALSE
    OBVIOUS
  <2> DEFINE y == x * (q * (Modulus - 1))
  <2> HIDE DEF r, q
  <2>0. q * (Modulus - 1) \in Nat
    BY <1>1, <1>7
  <2>1. y \in Nat /\ c * y \in Int
    <3> DEFINE z == q * (Modulus - 1)
    <3> HIDE DEF z
    <3>1. x * z \in Nat
      BY <2>0 DEF z
    <3>2. y \in Nat
      BY <3>1 DEF z
    <3> HIDE DEF y
    <3> QED BY <1>1, <3>2
  <2>2. Same(c * y, r)
    <3>1. c \in Int /\ x \in Int /\ m \in Int /\ q \in Int /\ r \in Int
      BY <1>1, <1>6, <1>7
    <3> QED BY <1>6, <1>7, <3>1, MultipleLeft, Zenon
  <2> HIDE DEF y
  <2>3. r \in Field /\ r % Modulus = r
    BY <1>1, <1>6, <1>7 DEF Field
  <2>4. (c * y) % Modulus = r
    BY <1>7, <2>1, <2>2, <2>3, SameRemainder
  <2>5. r \in S
    BY <2>1, <2>4
  <2> HIDE DEF S
  <2>6. m <= r
    BY <1>4, <2>5
  <2> QED BY <1>6, <1>7, <2>6
<1>9. m = 1
  <2> SUFFICES ASSUME m # 1 PROVE FALSE
    OBVIOUS
  <2>1. m \in 2 .. Modulus - 1
    BY <1>1, <1>6
  <2> QED BY <1>8, <2>1, PrimeAssumption
<1>10. x % Modulus \in Field /\ Same(x % Modulus, x)
  BY Remainder
<1> DEFINE y == x % Modulus
<1>11. y \in Field /\ y \in Int /\ Same(y, x)
  BY <1>10, ModulusIs DEF Field
<1> HIDE DEF y
<1>12. Same(c * y, c * x)
  BY <1>1, <1>11, SameItself, SameProduct
<1>13. (c * y) % Modulus = (c * x) % Modulus
  BY <1>1, <1>6, <1>11, <1>12, SameRemainder
<1> QED BY <1>5, <1>9, <1>11, <1>13

LEMMA FieldInverseIs ==
    ASSUME NEW c \in Field, c # 0
    PROVE  /\ FieldInverse(c) \in Field
           /\ (c * FieldInverse(c)) % Modulus = 1
BY InverseExists DEF FieldInverse

-----------------------------------------------------------------------------
(* Recursion over the numbers up to n, with the step as a function g.      *)

Steps(g, V, n) == \A i \in 1 .. n : \A v \in V : g[<<i, v>>] \in V

Iterated(f, b, g, n) == f[0] = b /\ \A i \in 1 .. n : f[i] = g[<<i, f[i - 1]>>]

LEMMA Iterates ==
    ASSUME NEW n \in Nat, NEW V, NEW b \in V, NEW g, Steps(g, V, n)
    PROVE  \E f \in [0 .. n -> V] : Iterated(f, b, g, n)
<1> USE DEF Steps, Iterated
<1> DEFINE Is(f, k) == f \in [0 .. k -> V] /\ f[0] = b /\ \A i \in 1 .. k : f[i] = g[<<i, f[i - 1]>>]
           S == {k \in Nat : k <= n => \E f : Is(f, k)}
<1>1. 0 \in S
  <2>1. Is([i \in 0 .. 0 |-> b], 0)
    OBVIOUS
  <2> QED BY <2>1
<1>2. \A k \in Nat : k \in S => k + 1 \in S
  <2> SUFFICES ASSUME NEW k \in Nat, k \in S PROVE k + 1 \in S
    BY Zenon
  <2> HIDE DEF Is
  <2> SUFFICES ASSUME k + 1 <= n PROVE \E f : Is(f, k + 1)
    OBVIOUS
  <2>1. PICK f : Is(f, k)
    OBVIOUS
  <2> USE DEF Is
  <2> DEFINE e == g[<<k + 1, f[k]>>]
             h == [i \in 0 .. k + 1 |-> IF i <= k THEN f[i] ELSE e]
  <2>2. f[k] \in V /\ k + 1 \in 1 .. n
    BY <2>1
  <2>3. e \in V
    BY <2>2
  <2> HIDE DEF e
  <2>4. h \in [0 .. k + 1 -> V] /\ h[0] = b
    BY <2>1, <2>3
  <2>5. \A i \in 1 .. k + 1 : h[i] = g[<<i, h[i - 1]>>]
    <3> SUFFICES ASSUME NEW i \in 1 .. k + 1 PROVE h[i] = g[<<i, h[i - 1]>>]
      OBVIOUS
    <3>1. CASE i <= k
      <4>1. h[i] = f[i] /\ h[i - 1] = f[i - 1] /\ i \in 1 .. k
        BY <3>1
      <4> QED BY <2>1, <4>1
    <3>2. CASE i = k + 1
      <4>1. i - 1 = k /\ h[k] = f[k] /\ h[i] = e
        BY <3>2
      <4> QED BY <3>2, <4>1 DEF e
    <3> QED BY <3>1, <3>2
  <2> HIDE DEF h
  <2>6. Is(h, k + 1)
    BY <2>4, <2>5
  <2> QED BY <2>6
<1>3. n \in S
  <2> HIDE DEF S
  <2> QED BY <1>1, <1>2, Reaches
<1> QED BY <1>3

-----------------------------------------------------------------------------
(* Products, powers, and the little theorem of Fermat.                     *)

Numbers(x, k) == \A i \in 1 .. k : x[i] \in Int

Products(u, x, k) == u \in [0 .. k -> Int] /\ u[0] = 1 /\ \A i \in 1 .. k : u[i] = u[i - 1] * x[i]

ProductOf(x, k) == (CHOOSE u : Products(u, x, k))[k]

Itself == [i \in Nat |-> i]

PowerOf(c, k) == ProductOf([i \in Nat |-> c], k)

LEMMA ProductsExist ==
    ASSUME NEW k \in Nat, NEW x, Numbers(x, k)
    PROVE  Products(CHOOSE u : Products(u, x, k), x, k)
<1> DEFINE g == [q \in (1 .. k) \X Int |-> q[2] * x[q[1]]]
<1>1. \A i \in 1 .. k : \A v \in Int : g[<<i, v>>] = v * x[i]
  OBVIOUS
<1>2. \A i \in 1 .. k : \A v \in Int : v * x[i] \in Int
  BY DEF Numbers
<1> HIDE DEF g
<1>3. Steps(g, Int, k)
  BY <1>1, <1>2 DEF Steps
<1>4. PICK f \in [0 .. k -> Int] : Iterated(f, 1, g, k)
  BY <1>3, 1 \in Int, Iterates
<1>5. \A i \in 1 .. k : f[i - 1] \in Int
  OBVIOUS
<1>6. \A i \in 1 .. k : f[i] = f[i - 1] * x[i]
  BY <1>1, <1>4, <1>5 DEF Iterated
<1>7. Products(f, x, k)
  BY <1>4, <1>6 DEF Products, Iterated
<1> QED BY <1>7, Zenon

LEMMA ProductsAgree ==
    ASSUME NEW k \in Nat, NEW l \in Nat, k <= l, NEW x, NEW u, NEW v,
           Products(u, x, k), Products(v, x, l)
    PROVE  u[k] = v[k]
<1> DEFINE S == {m \in Nat : m <= k => u[m] = v[m]}
<1>1. 0 \in S
  BY DEF Products
<1>2. \A m \in Nat : m \in S => m + 1 \in S
  <2> SUFFICES ASSUME NEW m \in Nat, u[m] = v[m], m + 1 <= k PROVE u[m + 1] = v[m + 1]
    OBVIOUS
  <2> DEFINE i == m + 1
  <2>1. i \in 1 .. k /\ i \in 1 .. l /\ i - 1 = m
    OBVIOUS
  <2> HIDE DEF i
  <2>2. u[i] = u[m] * x[i] /\ v[i] = v[m] * x[i]
    BY <2>1 DEF Products
  <2> QED BY <2>2 DEF i
<1>3. k \in S
  <2> HIDE DEF S
  <2> QED BY <1>1, <1>2, Reaches
<1> QED BY <1>3

LEMMA ProductSteps ==
    ASSUME NEW k \in Nat, NEW x, Numbers(x, k + 1)
    PROVE  /\ ProductOf(x, 0) = 1
           /\ ProductOf(x, k) \in Int /\ ProductOf(x, k + 1) \in Int
           /\ ProductOf(x, k + 1) = ProductOf(x, k) * x[k + 1]
<1> DEFINE u == CHOOSE q : Products(q, x, k)
           v == CHOOSE q : Products(q, x, k + 1)
           w == CHOOSE q : Products(q, x, 0)
<1>1. Numbers(x, k) /\ Numbers(x, 0)
  BY DEF Numbers
<1>2. Products(u, x, k) /\ Products(v, x, k + 1) /\ Products(w, x, 0)
  <2>1. k + 1 \in Nat /\ 0 \in Nat
    OBVIOUS
  <2> QED BY <1>1, <2>1, ProductsExist
<1>3. ProductOf(x, k) = u[k] /\ ProductOf(x, k + 1) = v[k + 1] /\ ProductOf(x, 0) = w[0]
  BY DEF ProductOf
<1> HIDE DEF u, v, w
<1>4. u[k] = v[k]
  BY <1>2, ProductsAgree
<1> DEFINE i == k + 1
<1>5. i \in 1 .. k + 1 /\ i - 1 = k /\ i \in 0 .. k + 1 /\ k \in 0 .. k
  OBVIOUS
<1> HIDE DEF i
<1>6. v[i] = v[k] * x[i] /\ v[i] \in Int /\ u[k] \in Int /\ w[0] = 1
  BY <1>2, <1>5 DEF Products
<1> QED BY <1>3, <1>4, <1>6 DEF i

\* Modulo the prime, the product of products is the product of the products.
LEMMA ProductCombines ==
    ASSUME NEW k \in Nat, NEW x, NEW y, NEW z, Numbers(x, k), Numbers(y, k), Numbers(z, k),
           \A i \in 1 .. k : Same(z[i], x[i] * y[i])
    PROVE  Same(ProductOf(z, k), ProductOf(x, k) * ProductOf(y, k))
<1> DEFINE S == {m \in Nat : m <= k => Same(ProductOf(z, m), ProductOf(x, m) * ProductOf(y, m))}
<1>1. \A m \in Nat : m + 1 <= k =>
        Numbers(x, m + 1) /\ Numbers(y, m + 1) /\ Numbers(z, m + 1)
  BY DEF Numbers
<1>2. CASE k = 0
  <2>1. Products(CHOOSE u : Products(u, x, 0), x, 0) /\ Products(CHOOSE u : Products(u, y, 0), y, 0)
        /\ Products(CHOOSE u : Products(u, z, 0), z, 0)
    BY <1>2, ProductsExist
  <2>2. ProductOf(x, 0) = 1 /\ ProductOf(y, 0) = 1 /\ ProductOf(z, 0) = 1
    BY <2>1 DEF Products, ProductOf
  <2>3. Same(1, 1 * 1)
    BY SameItself
  <2> QED BY <1>2, <2>2, <2>3
<1>3. CASE k > 0
  <2>1. 0 \in S
    <3>1. 0 \in Nat /\ Numbers(x, 0 + 1) /\ Numbers(y, 0 + 1) /\ Numbers(z, 0 + 1)
      BY <1>1, <1>3
    <3>2. ProductOf(x, 0) = 1 /\ ProductOf(y, 0) = 1 /\ ProductOf(z, 0) = 1
      BY <3>1, ProductSteps
    <3>3. Same(1, 1 * 1)
      BY SameItself
    <3> QED BY <3>2, <3>3
  <2>2. \A m \in Nat : m \in S => m + 1 \in S
    <3> SUFFICES ASSUME NEW m \in Nat, m + 1 <= k,
                        Same(ProductOf(z, m), ProductOf(x, m) * ProductOf(y, m))
                 PROVE  Same(ProductOf(z, m + 1), ProductOf(x, m + 1) * ProductOf(y, m + 1))
      OBVIOUS
    <3> DEFINE a == ProductOf(x, m)
               b == ProductOf(y, m)
               c == ProductOf(z, m)
               d == x[m + 1]
               e == y[m + 1]
               f == z[m + 1]
    <3>1. Numbers(x, m + 1) /\ Numbers(y, m + 1) /\ Numbers(z, m + 1)
      BY <1>1
    <3>2. /\ a \in Int /\ b \in Int /\ c \in Int
          /\ ProductOf(x, m + 1) = a * d /\ ProductOf(y, m + 1) = b * e /\ ProductOf(z, m + 1) = c * f
      BY <3>1, ProductSteps
    <3>3. d \in Int /\ e \in Int /\ f \in Int /\ Same(f, d * e)
      <4>1. m + 1 \in 1 .. k
        OBVIOUS
      <4> QED BY <4>1 DEF Numbers
    <3>4. Same(c, a * b)
      OBVIOUS
    <3> HIDE DEF a, b, c, d, e, f
    <3>5. a * b \in Int /\ d * e \in Int
      BY <3>2, <3>3
    <3>6. Same(c * f, (a * b) * (d * e))
      BY <3>2, <3>3, <3>4, <3>5, SameProduct
    <3>7. (a * b) * (d * e) = (a * d) * (b * e)
      BY <3>2, <3>3
    <3> QED BY <3>2, <3>6, <3>7
  <2>3. k \in S
    <3> HIDE DEF S
    <3> QED BY <2>1, <2>2, Reaches
  <2> QED BY <2>3
<1> QED BY <1>2, <1>3

\* Two products that differ in one factor.
LEMMA ProductChanged ==
    ASSUME NEW k \in Nat, NEW x, NEW y, Numbers(x, k), Numbers(y, k), NEW j \in 1 .. k,
           \A i \in 1 .. k : i # j => x[i] = y[i]
    PROVE  ProductOf(x, k) * y[j] = ProductOf(y, k) * x[j]
<1> DEFINE S == {m \in Nat : m <= k => IF m < j THEN ProductOf(x, m) = ProductOf(y, m)
                                       ELSE ProductOf(x, m) * y[j] = ProductOf(y, m) * x[j]}
<1>1. \A m \in Nat : m + 1 <= k => Numbers(x, m + 1) /\ Numbers(y, m + 1)
  BY DEF Numbers
<1>2. 0 \in S
  <2>1. Numbers(x, 0 + 1) /\ Numbers(y, 0 + 1)
    BY <1>1
  <2>2. ProductOf(x, 0) = 1 /\ ProductOf(y, 0) = 1
    BY <2>1, 0 \in Nat, ProductSteps
  <2> QED BY <2>2
<1>3. \A m \in Nat : m \in S => m + 1 \in S
  <2> SUFFICES ASSUME NEW m \in Nat, m \in S, m + 1 <= k
               PROVE  IF m + 1 < j THEN ProductOf(x, m + 1) = ProductOf(y, m + 1)
                      ELSE ProductOf(x, m + 1) * y[j] = ProductOf(y, m + 1) * x[j]
    OBVIOUS
  <2> DEFINE a == ProductOf(x, m)
             b == ProductOf(y, m)
             d == x[m + 1]
             e == y[m + 1]
             u == x[j]
             v == y[j]
  <2>1. IF m < j THEN a = b ELSE a * v = b * u
    OBVIOUS
  <2>2. /\ a \in Int /\ b \in Int
        /\ ProductOf(x, m + 1) = a * d /\ ProductOf(y, m + 1) = b * e
    BY <1>1, ProductSteps
  <2>3. d \in Int /\ e \in Int /\ u \in Int /\ v \in Int /\ (m + 1 # j => d = e)
        /\ (m + 1 = j => d = u /\ e = v)
    <3>1. m + 1 \in 1 .. k
      OBVIOUS
    <3> QED BY <3>1 DEF Numbers
  <2> HIDE DEF a, b, d, e, u, v, S
  <2>4. CASE m + 1 < j
    BY <2>1, <2>2, <2>3, <2>4
  <2>5. CASE m + 1 = j
    <3>1. a = b /\ d = u /\ e = v
      BY <2>1, <2>3, <2>5
    <3>2. (a * d) * v = (b * e) * u
      BY <2>2, <2>3, <3>1
    <3> QED BY <2>2, <2>5, <3>2 DEF u, v
  <2>6. CASE m + 1 > j
    <3>1. a * v = b * u /\ d = e
      BY <2>1, <2>3, <2>6
    <3>2. (a * d) * v = (a * v) * d /\ (b * e) * u = (b * u) * e
      BY <2>2, <2>3
    <3>3. (a * d) * v = (b * e) * u
      BY <3>1, <3>2
    <3> QED BY <2>2, <2>6, <3>3 DEF u, v
  <2> QED BY <2>4, <2>5, <2>6
<1>4. k \in S
  <2> HIDE DEF S
  <2> QED BY <1>2, <1>3, Reaches
<1> QED BY <1>4

Rearranges(g, k) ==
    /\ \A i \in 1 .. k : g[i] \in 1 .. k
    /\ \A i, j \in 1 .. k : g[i] = g[j] => i = j
    /\ \A v \in 1 .. k : \E i \in 1 .. k : g[i] = v

\* Without its largest value, and the last taking that one's place.
LEMMA RearrangesLess ==
    ASSUME NEW n \in Nat, NEW g, Rearranges(g, n + 1), NEW j \in 1 .. n, g[j] = n + 1
    PROVE  Rearranges([i \in 1 .. n |-> IF i = j THEN g[n + 1] ELSE g[i]], n)
<1> DEFINE l == n + 1
           h == [i \in 1 .. n |-> IF i = j THEN g[l] ELSE g[i]]
<1>1. \A i \in 1 .. n : h[i] = IF i = j THEN g[l] ELSE g[i]
  OBVIOUS
<1>2. l \in 1 .. n + 1 /\ (\A i \in 1 .. n : i \in 1 .. n + 1 /\ i # l) /\ l = n + 1
  OBVIOUS
<1>3. \A i \in 1 .. n + 1 : i # j => g[i] \in 1 .. n
  BY DEF Rearranges
<1> HIDE DEF l, h
<1>4. \A i \in 1 .. n : h[i] \in 1 .. n
  BY <1>1, <1>2, <1>3
<1>5. \A x, y \in 1 .. n : h[x] = h[y] => x = y
  BY <1>1, <1>2 DEF Rearranges
<1>6. \A v \in 1 .. n : \E i \in 1 .. n : h[i] = v
  <2> SUFFICES ASSUME NEW v \in 1 .. n PROVE \E i \in 1 .. n : h[i] = v
    OBVIOUS
  <2>1. PICK i \in 1 .. n + 1 : g[i] = v
    BY DEF Rearranges
  <2>2. CASE i = l
    <3>1. h[j] = v
      BY <1>1, <2>1, <2>2
    <3> QED BY <3>1
  <2>3. CASE i # l
    <3>1. i \in 1 .. n /\ i # j
      BY <1>2, <2>1, <2>3
    <3> QED BY <1>1, <2>1, <3>1
  <2> QED BY <2>2, <2>3
<1>7. Rearranges(h, n)
  BY <1>4, <1>5, <1>6 DEF Rearranges
<1> QED BY <1>7 DEF h, l

LEMMA RearrangedProduct ==
    ASSUME NEW k \in Nat, NEW f, Rearranges(f, k)
    PROVE  ProductOf(f, k) = ProductOf(Itself, k)
<1> DEFINE S == {n \in Nat : \A g : Rearranges(g, n) => ProductOf(g, n) = ProductOf(Itself, n)}
<1>1. 0 \in S
  <2> SUFFICES ASSUME NEW g PROVE ProductOf(g, 0) = ProductOf(Itself, 0)
    OBVIOUS
  <2>1. Numbers(g, 0) /\ Numbers(Itself, 0)
    BY DEF Numbers
  <2>2. /\ Products(CHOOSE u : Products(u, g, 0), g, 0)
        /\ Products(CHOOSE u : Products(u, Itself, 0), Itself, 0)
    BY <2>1, 0 \in Nat, ProductsExist
  <2> QED BY <2>2 DEF Products, ProductOf
<1>2. \A n \in Nat : n \in S => n + 1 \in S
  <2> SUFFICES ASSUME NEW n \in Nat, n \in S, NEW g, Rearranges(g, n + 1)
               PROVE  ProductOf(g, n + 1) = ProductOf(Itself, n + 1)
    OBVIOUS
  <2>1. Numbers(g, n + 1) /\ Numbers(Itself, n + 1)
    BY DEF Rearranges, Numbers, Itself
  <2>2. /\ ProductOf(g, n) \in Int /\ ProductOf(Itself, n) \in Int
        /\ ProductOf(g, n + 1) = ProductOf(g, n) * g[n + 1]
        /\ ProductOf(Itself, n + 1) = ProductOf(Itself, n) * Itself[n + 1]
    BY <2>1, ProductSteps
  <2>3. Itself[n + 1] = n + 1
    BY DEF Itself
  <2>4. n + 1 \in 1 .. n + 1
    OBVIOUS
  <2>5. PICK j \in 1 .. n + 1 : g[j] = n + 1
    BY <2>4 DEF Rearranges
  <2>6. CASE j = n + 1
    <3>1. Rearranges(g, n)
      BY <2>5, <2>6 DEF Rearranges
    <3>2. ProductOf(g, n) = ProductOf(Itself, n)
      BY <3>1
    <3> QED BY <2>2, <2>3, <2>5, <2>6, <3>2
  <2>7. CASE j # n + 1
    <3> DEFINE h == [i \in 1 .. n |-> IF i = j THEN g[n + 1] ELSE g[i]]
    <3>1. j \in 1 .. n
      BY <2>7
    <3>2. Rearranges(h, n)
      BY <2>5, <3>1, RearrangesLess
    <3>3. h[j] = g[n + 1] /\ \A i \in 1 .. n : i # j => g[i] = h[i]
      BY <3>1
    <3> HIDE DEF h
    <3>4. Numbers(h, n) /\ Numbers(g, n) /\ h[j] \in Int
      BY <2>1, <3>1, <3>2 DEF Rearranges, Numbers
    <3>5. ProductOf(h, n) = ProductOf(Itself, n)
      BY <3>2
    <3>6. ProductOf(g, n) * h[j] = ProductOf(h, n) * g[j]
      BY <3>1, <3>3, <3>4, ProductChanged
    <3> HIDE DEF S
    <3> QED BY <2>2, <2>3, <2>5, <3>3, <3>5, <3>6
  <2> QED BY <2>6, <2>7
<1>3. k \in S
  <2> HIDE DEF S
  <2> QED BY <1>1, <1>2, Reaches
<1> QED BY <1>3

\* What is not zero can be divided by.
LEMMA Cancel ==
    ASSUME NEW c \in Field, c # 0, NEW a \in Int, NEW b \in Int, Same(c * a, c * b)
    PROVE  Same(a, b)
<1>1. c \in Int
  BY ModulusIs DEF Field
<1> DEFINE d == FieldInverse(c)
<1>2. d \in Int /\ (c * d) % Modulus = 1
  BY FieldInverseIs, ModulusIs DEF Field
<1> HIDE DEF d
<1>3. c * d \in Int /\ 1 % Modulus = 1
  BY <1>1, <1>2, ModulusIs
<1>4. Same(c * d, 1)
  BY <1>2, <1>3, SameRemainder
<1>5. Same(1, c * d)
  BY <1>3, <1>4, SameBack
<1>6. Same(d * (c * a), d * (c * b))
  <2>1. c * a \in Int /\ c * b \in Int /\ Same(d, d)
    BY <1>1, <1>2, SameItself
  <2> QED BY <1>2, <2>1, SameProduct, Zenon
<1>7. d * (c * a) = (c * d) * a /\ d * (c * b) = (c * d) * b
  BY <1>1, <1>2
<1>8. Same(1 * a, (c * d) * a) /\ Same((c * d) * b, 1 * b)
  <2>1. 1 \in Int /\ Same(a, a) /\ Same(b, b)
    BY SameItself
  <2> QED BY <1>3, <1>4, <1>5, <2>1, SameProduct, Zenon
<1>9. 1 * a = a /\ 1 * b = b /\ (c * d) * a \in Int /\ (c * d) * b \in Int
  BY <1>3
<1>10. Same(a, (c * d) * b)
  BY <1>6, <1>7, <1>8, <1>9, SameOn
<1> QED BY <1>8, <1>9, <1>10, SameOn

LEMMA CancelProduct ==
    ASSUME NEW k \in Nat, k < Modulus, NEW v \in Int, NEW w \in Int,
           Same(ProductOf(Itself, k) * v, ProductOf(Itself, k) * w)
    PROVE  Same(v, w)
<1> DEFINE S == {n \in Nat : n < Modulus =>
                   \A a, b \in Int : Same(ProductOf(Itself, n) * a, ProductOf(Itself, n) * b)
                                       => Same(a, b)}
<1>1. \A n \in Nat : Numbers(Itself, n)
  BY DEF Numbers, Itself
<1>2. 0 \in S
  <2>1. ProductOf(Itself, 0) = 1
    BY <1>1, 0 \in Nat, 0 + 1 \in Nat, ProductSteps
  <2>2. \A a \in Int : 1 * a = a
    OBVIOUS
  <2> QED BY <2>1, <2>2
<1>3. \A n \in Nat : n \in S => n + 1 \in S
  <2> SUFFICES ASSUME NEW n \in Nat, n \in S, n + 1 < Modulus, NEW a \in Int, NEW b \in Int,
                      Same(ProductOf(Itself, n + 1) * a, ProductOf(Itself, n + 1) * b)
               PROVE  Same(a, b)
    OBVIOUS
  <2> DEFINE p == ProductOf(Itself, n)
             c == n + 1
  <2>1. p \in Int /\ ProductOf(Itself, n + 1) = p * c
    <3>1. Itself[n + 1] = n + 1 /\ n + 1 \in Nat
      BY DEF Itself
    <3> QED BY <1>1, <3>1, ProductSteps
  <2>2. c \in Field /\ c # 0 /\ c \in Int
    BY ModulusIs DEF Field
  <2>3. \A d, e \in Int : Same(p * d, p * e) => Same(d, e)
    BY ModulusIs
  <2> HIDE DEF p, c, S
  <2>4. Same((p * c) * a, (p * c) * b)
    BY <2>1
  <2>5. (p * c) * a = p * (c * a) /\ (p * c) * b = p * (c * b) /\ c * a \in Int /\ c * b \in Int
    BY <2>1, <2>2
  <2>6. Same(c * a, c * b)
    BY <2>3, <2>4, <2>5
  <2> QED BY <2>2, <2>6, Cancel
<1>4. k \in S
  <2> HIDE DEF S
  <2> QED BY <1>2, <1>3, Reaches
<1> QED BY <1>4

\* The multiples of c are the elements of the field, in another order.
LEMMA MultiplesRearrange ==
    ASSUME NEW c \in Field, c # 0
    PROVE  Rearranges([i \in 1 .. Modulus - 1 |-> (c * i) % Modulus], Modulus - 1)
<1> DEFINE n == Modulus - 1
           z == [i \in 1 .. n |-> (c * i) % Modulus]
<1>1. /\ c \in Int /\ n \in Nat /\ \A i \in 0 .. n : i \in Field /\ i \in Int
      /\ \A i \in Field : i \in Int /\ (i # 0 => i \in 1 .. n)
  BY ModulusIs DEF Field
<1>2. \A i \in 1 .. n : z[i] = (c * i) % Modulus /\ i \in 0 .. n /\ i # 0
  OBVIOUS
<1> HIDE DEF n, z
<1>3. \A i \in 0 .. n : c * i \in Int
  BY <1>1
<1>4. \A i, j \in 0 .. n : (c * i) % Modulus = (c * j) % Modulus => i = j
  <2> SUFFICES ASSUME NEW i \in 0 .. n, NEW j \in 0 .. n, (c * i) % Modulus = (c * j) % Modulus
               PROVE  i = j
    OBVIOUS
  <2>1. Same(c * i, c * j)
    BY <1>3, SameRemainder
  <2>2. Same(i, j)
    BY <1>1, <2>1, Cancel
  <2> QED BY <1>1, <2>2, SameIsEqual
<1>5. \A i \in 1 .. n : z[i] \in 1 .. n
  <2> SUFFICES ASSUME NEW i \in 1 .. n PROVE z[i] \in 1 .. n
    OBVIOUS
  <2>1. z[i] \in Field
    BY <1>2, <1>3, Remainder
  <2>2. (c * 0) % Modulus = 0 /\ 0 \in 0 .. n
    BY <1>1, ModulusIs
  <2>3. z[i] # 0
    BY <1>2, <1>4, <2>2
  <2> QED BY <1>1, <2>1, <2>3
<1>6. \A v \in 1 .. n : \E i \in 1 .. n : z[i] = v
  <2> SUFFICES ASSUME NEW v \in 1 .. n PROVE \E i \in 1 .. n : z[i] = v
    OBVIOUS
  <2>0. v \in Field /\ v \in Int /\ v # 0 /\ v % Modulus = v
    <3>1. v \in Field /\ v \in Int /\ v # 0
      BY <1>1, <1>2
    <3> QED BY <3>1, ModulusIs DEF Field
  <2> DEFINE d == FieldInverse(c)
             i == (d * v) % Modulus
  <2>1. d \in Int /\ (c * d) % Modulus = 1
    BY FieldInverseIs, ModulusIs DEF Field
  <2> HIDE DEF d
  <2>2. d * v \in Int /\ c * d \in Int /\ 1 % Modulus = 1
    BY <1>1, <2>0, <2>1, ModulusIs
  <2>3. i \in Field /\ Same(i, d * v) /\ Same(c * d, 1)
    BY <2>1, <2>2, Remainder, SameRemainder
  <2> HIDE DEF i
  <2>4. i \in Int /\ c * i \in Int
    BY <1>1, <2>3
  <2>5. Same(c * i, c * (d * v))
    BY <1>1, <2>2, <2>3, <2>4, SameItself, SameProduct
  <2>6. c * (d * v) = (c * d) * v /\ 1 * v = v
    BY <1>1, <2>0, <2>1
  <2>7. Same((c * d) * v, 1 * v)
    BY <2>0, <2>2, <2>3, SameItself, SameProduct
  <2>8. Same(c * i, v)
    <3>1. (c * d) * v \in Int
      BY <2>0, <2>2
    <3> QED BY <2>0, <2>4, <2>5, <2>6, <2>7, <3>1, SameOn
  <2>9. (c * i) % Modulus = v
    BY <2>0, <2>4, <2>8, SameRemainder
  <2>10. i # 0
    <3> SUFFICES ASSUME i = 0 PROVE FALSE
      OBVIOUS
    <3>1. (c * 0) % Modulus = 0
      BY <1>1, ModulusIs
    <3> QED BY <2>0, <2>9, <3>1
  <2>11. i \in 1 .. n
    BY <1>1, <2>3, <2>10
  <2> QED BY <1>2, <2>9, <2>11
<1>7. \A i, j \in 1 .. n : z[i] = z[j] => i = j
  BY <1>2, <1>4
<1>8. Rearranges(z, n)
  BY <1>5, <1>6, <1>7 DEF Rearranges
<1> QED BY <1>8 DEF z, n

LEMMA FermatsTheorem ==
    ASSUME NEW c \in Field, c # 0
    PROVE  Same(PowerOf(c, Modulus - 1), 1)
<1> DEFINE n == Modulus - 1
           x == [i \in Nat |-> c]
           z == [i \in 1 .. n |-> (c * i) % Modulus]
           p == ProductOf(Itself, n)
           q == ProductOf(x, n)
<1>1. c \in Int /\ n \in Nat /\ n < Modulus
  BY ModulusIs DEF Field
<1>2. Numbers(x, n) /\ Numbers(Itself, n) /\ Numbers(Itself, n + 1) /\ Numbers(x, n + 1)
  BY <1>1 DEF Numbers, Itself
<1>3. \A i \in 1 .. n : c * i \in Int /\ x[i] * Itself[i] = c * i
  <2>1. \A i \in 1 .. n : i \in Nat
    BY <1>1
  <2> HIDE DEF n
  <2> QED BY <1>1, <2>1 DEF Itself
<1>4. \A i \in 1 .. n : z[i] = (c * i) % Modulus
  OBVIOUS
<1>5. Rearranges(z, n)
  BY MultiplesRearrange
<1> HIDE DEF n, x, z
<1>6. \A i \in 1 .. n : z[i] \in Int /\ Same(z[i], x[i] * Itself[i])
  BY <1>3, <1>4, Remainder, ModulusIs DEF Field
<1>7. Numbers(z, n)
  BY <1>6 DEF Numbers
<1>8. Same(ProductOf(z, n), q * p)
  BY <1>1, <1>2, <1>6, <1>7, ProductCombines
<1>9. ProductOf(z, n) = p
  BY <1>1, <1>5, RearrangedProduct
<1>10. p \in Int /\ q \in Int
  BY <1>1, <1>2, ProductSteps
<1> HIDE DEF p, q
<1>11. q * p \in Int /\ q * p = p * q /\ p * 1 = p
  BY <1>10
<1>12. Same(p * q, p * 1)
  BY <1>8, <1>9, <1>10, <1>11, SameBack
<1>13. Same(q, 1)
  BY <1>1, <1>10, <1>12, 1 \in Int, CancelProduct DEF p
<1> QED BY <1>13 DEF PowerOf, q, x, n

-----------------------------------------------------------------------------
(* Powers.                                                                 *)

LEMMA PowerStarts ==
    ASSUME NEW c \in Int, NEW k \in Nat
    PROVE  /\ PowerOf(c, k) \in Int /\ PowerOf(c, 0) = 1
           /\ PowerOf(c, k + 1) = PowerOf(c, k) * c
<1> DEFINE x == [i \in Nat |-> c]
<1>1. Numbers(x, k + 1) /\ x[k + 1] = c
  BY k + 1 \in Nat DEF Numbers
<1> HIDE DEF x
<1> QED BY <1>1, ProductSteps DEF PowerOf, x

LEMMA PowersAdd ==
    ASSUME NEW c \in Int, NEW k \in Nat, NEW l \in Nat
    PROVE  PowerOf(c, k + l) = PowerOf(c, k) * PowerOf(c, l)
<1> DEFINE S == {m \in Nat : PowerOf(c, k + m) = PowerOf(c, k) * PowerOf(c, m)}
<1>1. 0 \in S
  BY PowerStarts
<1>2. \A m \in Nat : m \in S => m + 1 \in S
  <2> SUFFICES ASSUME NEW m \in Nat, PowerOf(c, k + m) = PowerOf(c, k) * PowerOf(c, m)
               PROVE  PowerOf(c, k + (m + 1)) = PowerOf(c, k) * PowerOf(c, m + 1)
    OBVIOUS
  <2> DEFINE a == PowerOf(c, k)
             b == PowerOf(c, m)
  <2>1. k + (m + 1) = (k + m) + 1 /\ k + m \in Nat
    OBVIOUS
  <2>2. a \in Int /\ b \in Int /\ PowerOf(c, m + 1) = b * c /\ PowerOf(c, (k + m) + 1) = (a * b) * c
    BY <2>1, PowerStarts
  <2> HIDE DEF a, b
  <2>3. (a * b) * c = a * (b * c)
    BY <2>2
  <2> QED BY <2>1, <2>2, <2>3 DEF a
<1>3. l \in S
  <2> HIDE DEF S
  <2> QED BY <1>1, <1>2, Reaches
<1> QED BY <1>3

LEMMA PowerExceeds ==
    ASSUME NEW m \in Nat
    PROVE  m < 2 ^ m
<1> DEFINE S == {k \in Nat : k < 2 ^ k}
<1>1. 0 \in S
  BY 0 \in Nat, PowerStep
<1>2. \A k \in Nat : k \in S => k + 1 \in S
  BY PowerStep
<1>3. m \in S
  <2> HIDE DEF S
  <2> QED BY <1>1, <1>2, Reaches
<1> QED BY <1>3

LEMMA FieldIs ==
    ASSUME NEW c \in Field
    PROVE  c \in Nat /\ c \in Int /\ c < Modulus /\ c % Modulus = c /\ c % Modulus \in Field
BY ModulusIs DEF Field

LEMMA SumsAgree ==
    ASSUME NEW k \in Nat, NEW l \in Nat, k <= l, NEW x, NEW y, NEW u, NEW v,
           Sums(u, x, k), Sums(v, y, l), \A i \in 0 .. k-1 : x[i] = y[i]
    PROVE  u[k] = v[k]
<1> DEFINE S == {m \in Nat : m <= k => u[m] = v[m]}
<1>1. 0 \in S
  BY DEF Sums
<1>2. \A m \in Nat : m \in S => m + 1 \in S
  <2> SUFFICES ASSUME NEW m \in Nat, u[m] = v[m], m + 1 <= k PROVE u[m + 1] = v[m + 1]
    OBVIOUS
  <2> DEFINE i == m + 1
  <2>1. i \in 1 .. k /\ i \in 1 .. l /\ i - 1 = m /\ x[m] = y[m]
    OBVIOUS
  <2> HIDE DEF i
  <2>2. u[i] = u[m] + x[m] /\ v[i] = v[m] + y[m]
    BY <2>1 DEF Sums
  <2> QED BY <2>1, <2>2 DEF i
<1>3. k \in S
  <2> HIDE DEF S
  <2> QED BY <1>1, <1>2, Reaches
<1> QED BY <1>3

LEMMA SumOfMore ==
    ASSUME NEW k \in Nat, NEW x, NEW y, Summands(x, k + 1), \A i \in 0 .. k-1 : x[i] = y[i]
    PROVE  SumTo(y, k) \in Int /\ SumTo(x, k + 1) = SumTo(y, k) + x[k]
<1>0. Summands(y, k) /\ k + 1 \in Nat
  BY DEF Summands
<1>1. PICK u : Sums(u, x, k + 1) /\ SumTo(x, k + 1) = u[k + 1]
  BY <1>0, SumToIs
<1>2. PICK v : Sums(v, y, k) /\ SumTo(y, k) = v[k]
  BY <1>0, SumToIs
<1>3. v[k] = u[k]
  <2>1. \A i \in 0 .. k-1 : y[i] = x[i]
    OBVIOUS
  <2> QED BY <1>0, <1>1, <1>2, <2>1, SumsAgree
<1> DEFINE l == k + 1
<1>4. l \in 1 .. l /\ l - 1 = k
  OBVIOUS
<1> HIDE DEF l
<1>5. u[l] = u[k] + x[k]
  <2>1. Sums(u, x, l)
    BY <1>1 DEF l
  <2> QED BY <1>4, <2>1 DEF Sums
<1>6. v[k] \in Int
  BY <1>2 DEF Sums
<1> QED BY <1>1, <1>2, <1>3, <1>5, <1>6 DEF l

LEMMA InverseOfOne == FieldInverse(1) = 1
<1>1. 1 \in Field /\ FieldInverse(1) \in Field /\ (1 * FieldInverse(1)) % Modulus = 1
  BY ModulusIs, FieldInverseIs
<1> DEFINE y == FieldInverse(1)
<1> HIDE DEF y
<1>2. y \in Field /\ (1 * y) % Modulus = 1
  BY <1>1 DEF y
<1>3. y % Modulus = y /\ 1 * y = y
  BY <1>2, FieldIs
<1> QED BY <1>2, <1>3 DEF y

-----------------------------------------------------------------------------
(* Sequences of coefficients: trimmed, resized, subtracted.                *)

Top(u, p) == u = [k \in 0 .. Len(p) |-> IF k = 0 \/ p[k] # 0 THEN k ELSE u[k - 1]]

\* The search for the last coefficient that is not zero.
LEMMA TopIs ==
    ASSUME NEW p \in Seq(Field)
    PROVE  Top(CHOOSE u : Top(u, p), p)
<1> DEFINE n == Len(p)
           f == CHOOSE u : Top(u, p)
           g == [q \in (1 .. n) \X Nat |-> IF p[q[1]] # 0 THEN q[1] ELSE q[2]]
<1>1. n \in Nat /\ \A i \in 1 .. n : p[i] \in Field
  OBVIOUS
<1>3. \A i \in 1 .. n : \A x \in Nat : g[<<i, x>>] = IF p[i] # 0 THEN i ELSE x
  OBVIOUS
<1> HIDE DEF g
<1>4. Steps(g, Nat, n)
  <2>1. \A i \in 1 .. n : i \in Nat
    BY <1>1
  <2> HIDE DEF n
  <2> QED BY <1>3, <2>1, Zenon DEF Steps
<1>5. PICK h \in [0 .. n -> Nat] : Iterated(h, 0, g, n)
  BY <1>1, <1>4, 0 \in Nat, Iterates
<1>6. Top(h, p)
  <2> DEFINE e == [k \in 0 .. n |-> IF k = 0 \/ p[k] # 0 THEN k ELSE h[k - 1]]
  <2> HIDE DEF n
  <2>1. \A k \in 0 .. n : h[k] = e[k]
    <3> SUFFICES ASSUME NEW k \in 0 .. n PROVE h[k] = IF k = 0 \/ p[k] # 0 THEN k ELSE h[k - 1]
      OBVIOUS
    <3>1. CASE k = 0
      BY <1>5, <3>1 DEF Iterated
    <3>2. CASE k # 0
      <4>1. k \in 1 .. n /\ h[k - 1] \in Nat
        BY <1>1, <3>2
      <4>2. h[k] = g[<<k, h[k - 1]>>]
        BY <1>5, <4>1 DEF Iterated
      <4> QED BY <1>3, <3>2, <4>1, <4>2, Zenon
    <3> QED BY <3>1, <3>2
  <2>2. h = [k \in 0 .. n |-> h[k]] /\ e = [k \in 0 .. n |-> e[k]]
    OBVIOUS
  <2> HIDE DEF e
  <2>3. h = e
    BY <2>1, <2>2
  <2> QED BY <2>3 DEF e, Top, n
<1>7. Top(f, p)
  BY <1>6, Zenon
<1> QED BY <1>7 DEF f

\* The coefficients that are trimmed are zeros.
LEMMA TrimmedIs ==
    ASSUME NEW p \in Seq(Field)
    PROVE  /\ Trimmed(p) \in Seq(Field) /\ Len(Trimmed(p)) \in 0 .. Len(p)
           /\ \A i \in Nat : At(Trimmed(p), i) = At(p, i)
<1> DEFINE n == Len(p)
           f == CHOOSE u : Top(u, p)
<1>1. n \in Nat /\ \A i \in 1 .. n : p[i] \in Field
  OBVIOUS
<1>2. Trimmed(p) = IF p = <<>> THEN <<>> ELSE SubSeq(p, 1, f[n])
  BY DEF Trimmed, Top
<1>7. Top(f, p)
  BY TopIs
<1> HIDE DEF f
<1>8. \A k \in 0 .. n : f[k] = IF k = 0 \/ p[k] # 0 THEN k ELSE f[k - 1]
  BY <1>7 DEF Top
<1> DEFINE S == {k \in Nat : k <= n => /\ f[k] \in 0 .. k
                                       /\ \A j \in 1 .. k : j > f[k] => p[j] = 0}
<1> HIDE DEF n
<1>9. 0 \in S
  BY <1>1, <1>8
<1>10. \A k \in Nat : k \in S => k + 1 \in S
  <2> SUFFICES ASSUME NEW k \in Nat, k \in S, k + 1 <= n
               PROVE  /\ f[k + 1] \in 0 .. k + 1
                      /\ \A j \in 1 .. k + 1 : j > f[k + 1] => p[j] = 0
    OBVIOUS
  <2> DEFINE l == k + 1
  <2>1. l \in 0 .. n /\ l # 0 /\ l - 1 = k /\ k <= n
    BY <1>1
  <2>2. f[l] = IF p[l] # 0 THEN l ELSE f[k]
    BY <1>8, <2>1, Zenon
  <2>3. f[k] \in 0 .. k /\ \A j \in 1 .. k : j > f[k] => p[j] = 0
    BY <2>1
  <2>4. \A j \in 1 .. l : j = l \/ j \in 1 .. k
    OBVIOUS
  <2>5. l = k + 1
    OBVIOUS
  <2> HIDE DEF l, S
  <2>6. CASE p[l] # 0
    BY <2>2, <2>5, <2>6 DEF l
  <2>7. CASE p[l] = 0
    <3>1. f[l] = f[k]
      BY <2>2, <2>7
    <3>2. f[l] \in 0 .. l
      BY <2>3, <2>5, <3>1
    <3>3. \A j \in 1 .. l : j > f[l] => p[j] = 0
      BY <2>3, <2>4, <2>7, <3>1
    <3> QED BY <3>2, <3>3 DEF l
  <2> QED BY <2>6, <2>7
<1>11. n \in S
  <2> HIDE DEF S
  <2> QED BY <1>1, <1>9, <1>10, Reaches
<1> DEFINE t == f[n]
<1>12. t \in 0 .. n /\ \A j \in 1 .. n : j > t => p[j] = 0
  BY <1>1, <1>11
<1> HIDE DEF t, S
<1>13. CASE p = <<>>
  BY <1>2, <1>13, <1>1 DEF n
<1>14. CASE p # <<>>
  <2>1. Trimmed(p) = SubSeq(p, 1, t)
    BY <1>2, <1>14 DEF t
  <2>2. Trimmed(p) \in Seq(Field) /\ Len(Trimmed(p)) = t /\ \A i \in 1 .. t : Trimmed(p)[i] = p[i]
    BY <1>1, <1>12, <2>1 DEF n
  <2>3. \A i \in Nat : At(Trimmed(p), i) = At(p, i)
    <3> SUFFICES ASSUME NEW i \in Nat PROVE At(Trimmed(p), i) = At(p, i)
      OBVIOUS
    <3>1. CASE i \in 1 .. t
      <4>1. i \in 1 .. n
        BY <1>1, <1>12, <3>1
      <4> QED BY <2>2, <3>1, <4>1 DEF At, n
    <3>2. CASE i \notin 1 .. t
      <4>1. At(Trimmed(p), i) = 0
        BY <2>2, <3>2 DEF At
      <4>2. i \in 1 .. n => p[i] = 0
        BY <1>1, <1>12, <3>2
      <4> QED BY <4>1, <4>2 DEF At, n
    <3> QED BY <3>1, <3>2
  <2> QED BY <1>12, <2>2, <2>3 DEF n
<1> QED BY <1>13, <1>14

LEMMA ResizedIs ==
    ASSUME NEW k \in Nat, NEW p
    PROVE  /\ Len(Resized(p, k)) = k
           /\ \A i \in Nat : At(Resized(p, k), i) = IF i \in 1 .. k THEN At(p, i) ELSE 0
           /\ \A i \in 1 .. k : Resized(p, k)[i] = At(p, i)
<1>1. Len(Resized(p, k)) = k /\ \A i \in 1 .. k : Resized(p, k)[i] = At(p, i)
  BY DEF Resized
<1> HIDE DEF Resized
<1>2. \A i \in Nat : At(Resized(p, k), i) = IF i \in 1 .. k THEN Resized(p, k)[i] ELSE 0
  BY <1>1, Zenon DEF At
<1> QED BY <1>1, <1>2

LEMMA GreatestNatural ==
    ASSUME NEW b \in Nat, NEW S, S \subseteq 0 .. b, S # {}
    PROVE  \E m \in S : \A k \in S : k <= m
<1> DEFINE D == {b - s : s \in S}
<1>1. D \in SUBSET Nat /\ D # {}
  <2>1. \A s \in S : b - s \in Nat
    OBVIOUS
  <2>2. D \in SUBSET Nat
    BY <2>1
  <2>3. D # {}
    <3>1. PICK s \in S : TRUE
      OBVIOUS
    <3>2. b - s \in D
      BY <3>1
    <3> HIDE DEF D
    <3> QED BY <3>2
  <2> QED BY <2>2, <2>3
<1>2. PICK d \in D : \A e \in D : d <= e
  <2> HIDE DEF D
  <2> QED BY <1>1, LeastNatural
<1>3. PICK m \in S : d = b - m
  BY <1>2
<1>4. \A k \in S : k <= m
  <2> SUFFICES ASSUME NEW k \in S PROVE k <= m
    OBVIOUS
  <2>1. b - k \in D
    OBVIOUS
  <2>2. b - m <= b - k
    BY <1>2, <1>3, <2>1
  <2>3. k \in Int /\ m \in Int
    OBVIOUS
  <2> QED BY <2>2, <2>3
<1> QED BY <1>4

LEMMA MinusIs ==
    ASSUME NEW k \in Nat, NEW p, NEW q
    PROVE  /\ Len(Minus(p, q, k)) = k
           /\ \A i \in 1 .. k : Minus(p, q, k)[i] = (At(p, i) - At(q, i)) % Modulus
BY DEF Minus

\* What is taken off at position d.
Multiple(q, den, d) == [i \in 1 .. d + Len(den) |-> IF i > d THEN q * den[i - d] ELSE 0]

Left(u, num, den, steps, back) ==
    u = [d \in 0 .. steps |->
          IF d = steps THEN <<num, 0>>
          ELSE LET above == u[d + 1][1]
                   q     == (At(above, d + Len(den)) * back) % Modulus
               IN  << Minus(above, [i \in 1 .. d + Len(den) |->
                                      IF i > d THEN q * den[i - d] ELSE 0], Len(num)), q >>]

-----------------------------------------------------------------------------
(* The value of a polynomial, as a sum of its terms.                       *)

Coefficients == [Nat -> Int]

Coefs(p) == [i \in Nat |-> At(p, i + 1)]

Terms(c, x) == [i \in Nat |-> c[i] * PowerOf(x, i)]

\* The value at x of the terms below x^k.
Evaluation(c, x, k) == SumTo(Terms(c, x), k)

LEMMA SumSteps ==
    ASSUME NEW k \in Nat, NEW x, Summands(x, k + 1)
    PROVE  /\ SumTo(x, 0) = 0 /\ SumTo(x, k) \in Int
           /\ SumTo(x, k + 1) = SumTo(x, k) + x[k]
<1>1. Summands(x, 0) /\ 0 \in Nat
  BY DEF Summands
<1>2. PICK w : Sums(w, x, 0) /\ SumTo(x, 0) = w[0]
  BY <1>1, SumToIs
<1> QED BY <1>2, SumOfMore DEF Sums

LEMMA TermsAre ==
    ASSUME NEW c \in Coefficients, NEW x \in Int, NEW k \in Nat
    PROVE  /\ Summands(Terms(c, x), k)
           /\ \A i \in Nat : Terms(c, x)[i] = c[i] * PowerOf(x, i) /\ Terms(c, x)[i] \in Int
<1>1. ASSUME NEW i \in Nat
      PROVE  Terms(c, x)[i] = c[i] * PowerOf(x, i) /\ Terms(c, x)[i] \in Int
  <2>1. c[i] \in Int /\ PowerOf(x, i) \in Int
    BY PowerStarts DEF Coefficients
  <2> QED BY <2>1 DEF Terms
<1>2. \A i \in 0 .. k-1 : i \in Nat
  OBVIOUS
<1> QED BY <1>1, <1>2 DEF Summands

LEMMA EvaluationSteps ==
    ASSUME NEW c \in Coefficients, NEW x \in Int, NEW k \in Nat
    PROVE  /\ Evaluation(c, x, 0) = 0 /\ Evaluation(c, x, k) \in Int
           /\ Evaluation(c, x, k + 1) = Evaluation(c, x, k) + c[k] * PowerOf(x, k)
<1>1. k + 1 \in Nat
  OBVIOUS
<1> QED BY <1>1, TermsAre, SumSteps DEF Evaluation

\* Zeros on top do not count.
LEMMA EvaluationOfMore ==
    ASSUME NEW c \in Coefficients, NEW x \in Int, NEW l \in Nat, NEW k \in Nat, l <= k,
           \A i \in l .. k-1 : c[i] = 0
    PROVE  Evaluation(c, x, k) = Evaluation(c, x, l)
<1> DEFINE S == {m \in Nat : l + m <= k => Evaluation(c, x, l + m) = Evaluation(c, x, l)}
<1>1. 0 \in S
  BY l + 0 = l
<1>2. \A m \in Nat : m \in S => m + 1 \in S
  <2> SUFFICES ASSUME NEW m \in Nat, m \in S, l + (m + 1) <= k
               PROVE  Evaluation(c, x, l + (m + 1)) = Evaluation(c, x, l)
    OBVIOUS
  <2> DEFINE j == l + m
  <2>1. j \in Nat /\ l + (m + 1) = j + 1 /\ j \in l .. k-1 /\ j <= k
    OBVIOUS
  <2>2. Evaluation(c, x, j) = Evaluation(c, x, l)
    BY <2>1
  <2> HIDE DEF j
  <2>3. c[j] = 0 /\ PowerOf(x, j) \in Int /\ Evaluation(c, x, j) \in Int
    BY <2>1, PowerStarts, EvaluationSteps
  <2>4. 0 * PowerOf(x, j) = 0
    BY <2>3
  <2>5. Evaluation(c, x, j + 1) = Evaluation(c, x, j) + 0
    BY <2>1, <2>3, <2>4, EvaluationSteps
  <2> QED BY <2>1, <2>2, <2>3, <2>5
<1>3. k - l \in S
  <2> HIDE DEF S
  <2>1. k - l \in Nat
    OBVIOUS
  <2> QED BY <1>1, <1>2, <2>1, Reaches
<1>4. l + (k - l) = k
  OBVIOUS
<1> QED BY <1>3, <1>4

\* The value of a combination of polynomials.
LEMMA EvaluationCombines ==
    ASSUME NEW c \in Coefficients, NEW d \in Coefficients, NEW e \in Coefficients,
           NEW x \in Int, NEW k \in Nat, NEW a \in Int, NEW b \in Int,
           \A i \in 0 .. k-1 : Same(e[i], a * c[i] + b * d[i])
    PROVE  Same(Evaluation(e, x, k), a * Evaluation(c, x, k) + b * Evaluation(d, x, k))
<1>1. ASSUME NEW i \in 0 .. k-1
      PROVE  Same(Terms(e, x)[i], a * Terms(c, x)[i] + b * Terms(d, x)[i])
  <2> DEFINE p == PowerOf(x, i)
             r == c[i]
             s == d[i]
  <2>1. i \in Nat /\ p \in Int /\ r \in Int /\ s \in Int /\ e[i] \in Int
    BY PowerStarts DEF Coefficients
  <2>2. /\ Terms(e, x)[i] = e[i] * p
        /\ Terms(c, x)[i] = r * p /\ Terms(d, x)[i] = s * p
    BY <2>1, TermsAre
  <2>3. Same(e[i], a * r + b * s)
    OBVIOUS
  <2> HIDE DEF p, r, s
  <2>4. a * r + b * s \in Int
    BY <2>1
  <2>5. Same(e[i] * p, (a * r + b * s) * p)
    BY <2>1, <2>3, <2>4, SameItself, SameProduct
  <2>6. (a * r + b * s) * p = a * (r * p) + b * (s * p)
    <3>1. (a * r + b * s) * p = (a * r) * p + (b * s) * p
      BY <2>1
    <3>2. (a * r) * p = a * (r * p) /\ (b * s) * p = b * (s * p)
      BY <2>1
    <3> QED BY <3>1, <3>2
  <2> QED BY <2>2, <2>5, <2>6
<1>2. Summands(Terms(c, x), k) /\ Summands(Terms(d, x), k) /\ Summands(Terms(e, x), k)
  BY TermsAre
<1> QED BY <1>1, <1>2, SumsCombine DEF Evaluation

\* x^j times a polynomial.
MovedUp(c, d, j) == \A i \in Nat : d[i] = IF i < j THEN 0 ELSE c[i - j]

LEMMA EvaluationShifts ==
    ASSUME NEW c \in Coefficients, NEW d \in Coefficients, NEW x \in Int, NEW j \in Nat,
           NEW k \in Nat, MovedUp(c, d, j)
    PROVE  Evaluation(d, x, j + k) = PowerOf(x, j) * Evaluation(c, x, k)
<1> DEFINE S == {m \in Nat : Evaluation(d, x, j + m) = PowerOf(x, j) * Evaluation(c, x, m)}
<1>1. 0 \in S
  <2>1. \A i \in 0 .. j-1 : d[i] = 0
    BY DEF MovedUp
  <2>2. Evaluation(d, x, j) = Evaluation(d, x, 0)
    BY <2>1, 0 \in Nat, EvaluationOfMore
  <2>3. Evaluation(d, x, 0) = 0 /\ Evaluation(c, x, 0) = 0 /\ PowerOf(x, j) \in Int
    BY EvaluationSteps, PowerStarts
  <2>4. PowerOf(x, j) * 0 = 0 /\ j + 0 = j
    BY <2>3
  <2> QED BY <2>2, <2>3, <2>4
<1>2. \A m \in Nat : m \in S => m + 1 \in S
  <2> SUFFICES ASSUME NEW m \in Nat,
                      Evaluation(d, x, j + m) = PowerOf(x, j) * Evaluation(c, x, m)
               PROVE  Evaluation(d, x, j + (m + 1)) = PowerOf(x, j) * Evaluation(c, x, m + 1)
    OBVIOUS
  <2> DEFINE p == PowerOf(x, j)
             q == PowerOf(x, m)
             v == Evaluation(c, x, m)
             r == c[m]
  <2>1. j + m \in Nat /\ j + (m + 1) = (j + m) + 1
    OBVIOUS
  <2>2. p \in Int /\ q \in Int /\ v \in Int /\ r \in Int
    BY PowerStarts, EvaluationSteps DEF Coefficients
  <2>3. d[j + m] = r
    <3>1. ~ (j + m < j) /\ (j + m) - j = m
      OBVIOUS
    <3> QED BY <2>1, <3>1 DEF MovedUp
  <2>4. PowerOf(x, j + m) = p * q
    BY PowersAdd
  <2>5. Evaluation(d, x, (j + m) + 1) = p * v + r * (p * q)
    BY <2>1, <2>3, <2>4, EvaluationSteps
  <2>6. Evaluation(c, x, m + 1) = v + r * q
    BY EvaluationSteps
  <2> HIDE DEF p, q, v, r
  <2>7. p * (v + r * q) = p * v + r * (p * q)
    <3>1. p * (v + r * q) = p * v + p * (r * q) /\ p * (r * q) = r * (p * q)
      BY <2>2
    <3> QED BY <3>1
  <2> QED BY <2>1, <2>5, <2>6, <2>7 DEF p
<1>3. k \in S
  <2> HIDE DEF S
  <2> QED BY <1>1, <1>2, Reaches
<1> QED BY <1>3

LEMMA PowersMultiply ==
    ASSUME NEW a \in Int, NEW x \in Int, NEW k \in Nat
    PROVE  PowerOf(a * x, k) = PowerOf(a, k) * PowerOf(x, k)
<1> DEFINE S == {m \in Nat : PowerOf(a * x, m) = PowerOf(a, m) * PowerOf(x, m)}
<1>0. a * x \in Int
  OBVIOUS
<1>1. 0 \in S
  BY <1>0, PowerStarts
<1>2. \A m \in Nat : m \in S => m + 1 \in S
  <2> SUFFICES ASSUME NEW m \in Nat, PowerOf(a * x, m) = PowerOf(a, m) * PowerOf(x, m)
               PROVE  PowerOf(a * x, m + 1) = PowerOf(a, m + 1) * PowerOf(x, m + 1)
    OBVIOUS
  <2> DEFINE p == PowerOf(a, m)
             q == PowerOf(x, m)
  <2>1. p \in Int /\ q \in Int /\ PowerOf(a, m + 1) = p * a /\ PowerOf(x, m + 1) = q * x
        /\ PowerOf(a * x, m + 1) = (p * q) * (a * x)
    BY <1>0, PowerStarts
  <2> HIDE DEF p, q
  <2>2. (p * q) * (a * x) = (p * a) * (q * x)
    BY <2>1
  <2> QED BY <2>1, <2>2
<1>3. k \in S
  <2> HIDE DEF S
  <2> QED BY <1>1, <1>2, Reaches
<1> QED BY <1>3

\* Coefficients multiplied by the powers of a.
LEMMA EvaluationScales ==
    ASSUME NEW c \in Coefficients, NEW d \in Coefficients, NEW a \in Int, NEW x \in Int,
           NEW k \in Nat, \A i \in 0 .. k-1 : Same(d[i], c[i] * PowerOf(a, i))
    PROVE  Same(Evaluation(d, x, k), Evaluation(c, a * x, k))
<1>0. a * x \in Int
  OBVIOUS
<1>1. ASSUME NEW i \in 0 .. k-1
      PROVE  Same(Terms(d, x)[i], 1 * Terms(c, a * x)[i] + 0 * Terms(c, a * x)[i])
  <2> DEFINE p == PowerOf(a, i)
             q == PowerOf(x, i)
             r == c[i]
  <2>1. i \in Nat /\ p \in Int /\ q \in Int /\ r \in Int /\ d[i] \in Int
    BY PowerStarts DEF Coefficients
  <2>2. Terms(d, x)[i] = d[i] * q /\ Terms(c, a * x)[i] = r * (p * q)
    <3>1. Terms(d, x)[i] = d[i] * q
      BY <2>1, TermsAre
    <3>2. Terms(c, a * x)[i] = r * PowerOf(a * x, i)
      BY <1>0, <2>1, TermsAre
    <3>3. PowerOf(a * x, i) = p * q
      BY <2>1, PowersMultiply
    <3> QED BY <3>1, <3>2, <3>3
  <2>3. Same(d[i], r * p)
    OBVIOUS
  <2> HIDE DEF p, q, r
  <2>4. r * p \in Int /\ (r * p) * q = r * (p * q) /\ r * (p * q) \in Int
    BY <2>1
  <2>5. Same(d[i] * q, (r * p) * q)
    BY <2>1, <2>3, <2>4, SameItself, SameProduct
  <2>6. 1 * (r * (p * q)) + 0 * (r * (p * q)) = r * (p * q)
    BY <2>4
  <2> QED BY <2>2, <2>4, <2>5, <2>6
<1>2. Summands(Terms(c, a * x), k) /\ Summands(Terms(d, x), k)
  BY <1>0, TermsAre
<1> DEFINE v == Evaluation(c, a * x, k)
<1>3. Same(Evaluation(d, x, k), 1 * v + 0 * v)
  <2> DEFINE y == Terms(c, a * x)
             w == Terms(d, x)
  <2> HIDE DEF y, w
  <2>1. Summands(y, k) /\ Summands(w, k) /\ \A i \in 0 .. k-1 : Same(w[i], 1 * y[i] + 0 * y[i])
    BY <1>1, <1>2 DEF y, w
  <2>2. 0 \in Int /\ 1 \in Int
    OBVIOUS
  <2>3. Same(SumTo(w, k), 1 * SumTo(y, k) + 0 * SumTo(y, k))
    BY <2>1, <2>2, SumsCombine
  <2> QED BY <2>3 DEF y, w, Evaluation
<1>4. v \in Int
  BY <1>0, EvaluationSteps
<1> HIDE DEF v
<1>5. 1 * v + 0 * v = v
  BY <1>4
<1> QED BY <1>3, <1>5 DEF v

\* The product of two polynomials, term by term of the first.
ProductTerms(c, d, k) == [j \in Nat |-> c[j] * (IF k < j THEN 0 ELSE d[k - j])]

Convolved(c, d, i) == [k \in Nat |-> SumTo(ProductTerms(c, d, k), i)]

LEMMA ConvolvedSteps ==
    ASSUME NEW c \in Coefficients, NEW d \in Coefficients, NEW i \in Nat, NEW k \in Nat
    PROVE  /\ Summands(ProductTerms(c, d, k), i)
           /\ Convolved(c, d, 0)[k] = 0 /\ Convolved(c, d, i)[k] \in Int
           /\ Convolved(c, d, i + 1)[k]
              = Convolved(c, d, i)[k] + c[i] * (IF k < i THEN 0 ELSE d[k - i])
<1> DEFINE x == ProductTerms(c, d, k)
<1>1. ASSUME NEW j \in Nat
      PROVE  x[j] = c[j] * (IF k < j THEN 0 ELSE d[k - j]) /\ x[j] \in Int
  <2>1. c[j] \in Int /\ (IF k < j THEN 0 ELSE d[k - j]) \in Int
    BY DEF Coefficients
  <2> QED BY <2>1 DEF ProductTerms
<1> HIDE DEF x
<1>2. Summands(x, i) /\ Summands(x, i + 1)
  BY <1>1 DEF Summands
<1>3. SumTo(x, 0) = 0 /\ SumTo(x, i) \in Int /\ SumTo(x, i + 1) = SumTo(x, i) + x[i]
  BY <1>2, SumSteps
<1>4. /\ Convolved(c, d, 0)[k] = SumTo(x, 0) /\ Convolved(c, d, i)[k] = SumTo(x, i)
      /\ Convolved(c, d, i + 1)[k] = SumTo(x, i + 1)
  BY DEF Convolved, x
<1> QED BY <1>1, <1>2, <1>3, <1>4 DEF x

LEMMA EvaluationMultiplies ==
    ASSUME NEW c \in Coefficients, NEW d \in Coefficients, NEW e \in Coefficients, NEW x \in Int,
           NEW l \in Nat, NEW m \in Nat, NEW n \in Nat, l + m <= n + 1,
           \A i \in Nat : i >= m => d[i] = 0,
           \A k \in 0 .. n-1 : Same(e[k], Convolved(c, d, l)[k])
    PROVE  Same(Evaluation(e, x, n), Evaluation(c, x, l) * Evaluation(d, x, m))
<1> DEFINE V == Evaluation(d, x, m)
           E(i) == Evaluation(Convolved(c, d, i), x, n)
           C(i) == Evaluation(c, x, i)
           S == {i \in Nat : i <= l => Same(E(i), C(i) * V)}
<1>1. ASSUME NEW i \in Nat
      PROVE  Convolved(c, d, i) \in Coefficients
  <2>1. \A k \in Nat : Convolved(c, d, i)[k] \in Int
    BY ConvolvedSteps
  <2> QED BY <2>1 DEF Convolved, Coefficients
<1>2. V \in Int /\ \A i \in Nat : C(i) \in Int /\ E(i) \in Int
  BY <1>1, EvaluationSteps
<1>3. 0 \in S
  <2>1. \A k \in 0 .. n-1 : Convolved(c, d, 0)[k] = 0
    BY ConvolvedSteps
  <2>2. E(0) = Evaluation(Convolved(c, d, 0), x, 0)
    BY <1>1, <2>1, 0 \in Nat, EvaluationOfMore
  <2>3. E(0) = 0 /\ C(0) = 0
    BY <1>1, <2>2, 0 \in Nat, EvaluationSteps
  <2>4. 0 * V = 0 /\ Same(0, 0)
    BY <1>2, SameItself
  <2> QED BY <2>3, <2>4
<1>4. \A i \in Nat : i \in S => i + 1 \in S
  <2> SUFFICES ASSUME NEW i \in Nat, i \in S, i + 1 <= l
               PROVE  Same(E(i + 1), C(i + 1) * V)
    OBVIOUS
  <2>1. Same(E(i), C(i) * V)
    OBVIOUS
  <2> DEFINE s == [k \in Nat |-> IF k < i THEN 0 ELSE d[k - i]]
             p == PowerOf(x, i)
             a == c[i]
             v == C(i)
  <2>2. s \in Coefficients /\ MovedUp(d, s, i)
    BY DEF Coefficients, MovedUp
  <2>3. i + m \in Nat /\ i + m <= n
    OBVIOUS
  <2>4. \A k \in (i + m) .. n-1 : s[k] = 0
    <3> SUFFICES ASSUME NEW k \in (i + m) .. n-1 PROVE s[k] = 0
      OBVIOUS
    <3>1. k \in Nat /\ ~ (k < i) /\ k - i \in Nat /\ k - i >= m
      OBVIOUS
    <3> QED BY <3>1
  <2>5. a \in Int /\ p \in Int /\ v \in Int
    BY <1>2, PowerStarts DEF Coefficients
  <2>6. \A k \in 0 .. n-1 : Same(Convolved(c, d, i + 1)[k], 1 * Convolved(c, d, i)[k] + a * s[k])
    <3> SUFFICES ASSUME NEW k \in 0 .. n-1
                 PROVE  Same(Convolved(c, d, i + 1)[k], 1 * Convolved(c, d, i)[k] + a * s[k])
      OBVIOUS
    <3> DEFINE g == Convolved(c, d, i)[k]
               h == Convolved(c, d, i + 1)[k]
               w == s[k]
    <3>1. k \in Nat /\ i + 1 \in Nat
      OBVIOUS
    <3>2. g \in Int /\ h \in Int /\ h = g + a * w
      BY <3>1, ConvolvedSteps
    <3>3. w \in Int
      BY <2>2, <3>1 DEF Coefficients
    <3> HIDE DEF g, h, w, a
    <3>4. 1 * g + a * w = h
      BY <2>5, <3>2, <3>3
    <3>5. Same(h, h)
      BY <3>2, SameItself
    <3> QED BY <3>4, <3>5 DEF g, h, w
  <2> HIDE DEF s
  <2>7. Evaluation(s, x, n) = p * V
    <3>1. Evaluation(s, x, n) = Evaluation(s, x, i + m)
      BY <2>2, <2>3, <2>4, EvaluationOfMore
    <3>2. Evaluation(s, x, i + m) = p * V
      BY <2>2, EvaluationShifts
    <3> QED BY <3>1, <3>2
  <2>8. Same(E(i + 1), 1 * E(i) + a * (p * V))
    <3> HIDE DEF a
    <3>1. i + 1 \in Nat /\ 1 \in Int
      OBVIOUS
    <3>2. Same(E(i + 1), 1 * E(i) + a * Evaluation(s, x, n))
      BY <1>1, <2>2, <2>5, <2>6, <3>1, EvaluationCombines
    <3> QED BY <2>7, <3>2
  <2>9. C(i + 1) = v + a * p
    BY EvaluationSteps
  <2> HIDE DEF a, p, V, v
  <2>10. (v + a * p) * V = 1 * (v * V) + a * (p * V)
    <3>1. (v + a * p) * V = v * V + (a * p) * V /\ (a * p) * V = a * (p * V)
      BY <1>2, <2>5
    <3> QED BY <1>2, <2>5, <3>1
  <2> DEFINE b == a * (p * V)
             w == v * V
  <2>11. b \in Int /\ w \in Int /\ E(i) \in Int /\ E(i + 1) \in Int
    BY <1>2, <2>5
  <2>12. Same(E(i), w)
    BY <2>1 DEF v
  <2> HIDE DEF b, w, E
  <2>13. Same(E(i + 1), E(i) + b)
    BY <2>8, <2>11 DEF b
  <2>14. Same(E(i) + b, w + b)
    BY <2>11, <2>12, SameItself, SameSum
  <2>15. Same(E(i + 1), w + b)
    BY <2>11, <2>13, <2>14, SameOn
  <2> QED BY <2>9, <2>10, <2>11, <2>15 DEF b, w
<1>5. l \in S
  <2> HIDE DEF S
  <2> QED BY <1>3, <1>4, Reaches
<1>6. Same(Evaluation(e, x, n), E(l))
  <2> DEFINE g == Convolved(c, d, l)
  <2>1. g \in Coefficients
    BY <1>1
  <2> HIDE DEF g
  <2>2. \A k \in 0 .. n-1 : Same(e[k], 1 * g[k] + 0 * g[k])
    <3> SUFFICES ASSUME NEW k \in 0 .. n-1 PROVE Same(e[k], 1 * g[k] + 0 * g[k])
      OBVIOUS
    <3>1. g[k] \in Int
      BY <2>1 DEF Coefficients
    <3>2. 1 * g[k] + 0 * g[k] = g[k]
      BY <3>1
    <3> QED BY <3>2 DEF g
  <2>3. Same(Evaluation(e, x, n), 1 * Evaluation(g, x, n) + 0 * Evaluation(g, x, n))
    BY <2>1, <2>2, 0 \in Int, 1 \in Int, EvaluationCombines
  <2>4. Evaluation(g, x, n) \in Int
    BY <2>1, EvaluationSteps
  <2>5. 1 * Evaluation(g, x, n) + 0 * Evaluation(g, x, n) = Evaluation(g, x, n)
    BY <2>4
  <2> QED BY <2>3, <2>5 DEF g
<1> HIDE DEF E
<1>7. Evaluation(e, x, n) \in Int /\ C(l) * V \in Int
  BY <1>2, EvaluationSteps
<1> QED BY <1>2, <1>5, <1>6, <1>7, SameOn

-----------------------------------------------------------------------------
(* Polynomials as sequences of coefficients.                               *)

PolyValue(p, x) == Evaluation(Coefs(p), x, Len(p))

LEMMA CoefsAre ==
    ASSUME NEW p \in Seq(Int)
    PROVE  /\ Coefs(p) \in Coefficients /\ Len(p) \in Nat
           /\ \A i \in Nat : Coefs(p)[i] = At(p, i + 1)
           /\ \A i \in Nat : Coefs(p)[i] = IF i < Len(p) THEN p[i + 1] ELSE 0
<1>1. Len(p) \in Nat /\ \A i \in 1 .. Len(p) : p[i] \in Int
  OBVIOUS
<1>2. \A i \in Nat : At(p, i + 1) \in Int
  BY <1>1 DEF At
<1>3. \A i \in Nat : At(p, i + 1) = IF i < Len(p) THEN p[i + 1] ELSE 0
  BY <1>1 DEF At
<1> QED BY <1>1, <1>2, <1>3 DEF Coefs, Coefficients

LEMMA InField == \A v \in Field : v \in Int /\ v \in Nat
BY FieldIs

LEMMA FieldsAreNumbers ==
    ASSUME NEW p \in Seq(Field)
    PROVE  p \in Seq(Int)
<1>1. Len(p) \in Nat /\ p = [i \in 1 .. Len(p) |-> p[i]] /\ \A i \in 1 .. Len(p) : p[i] \in Field
  OBVIOUS
<1>2. \A i \in 1 .. Len(p) : p[i] \in Int
  BY <1>1, InField
<1> QED BY <1>1, <1>2

LEMMA PolyValueIsNumber ==
    ASSUME NEW p \in Seq(Int), NEW x \in Int
    PROVE  PolyValue(p, x) \in Int
BY CoefsAre, EvaluationSteps DEF PolyValue

\* Up to any power above the degree, the value is the same.
LEMMA PolyValueOfMore ==
    ASSUME NEW p \in Seq(Int), NEW x \in Int, NEW k \in Nat, Len(p) <= k
    PROVE  Evaluation(Coefs(p), x, k) = PolyValue(p, x)
<1>1. \A i \in Len(p) .. k-1 : Coefs(p)[i] = 0
  <2>1. Len(p) \in Nat /\ \A i \in Nat : Coefs(p)[i] = IF i < Len(p) THEN p[i + 1] ELSE 0
    BY CoefsAre
  <2>2. \A i \in Len(p) .. k-1 : i \in Nat /\ ~ (i < Len(p))
    BY <2>1
  <2> QED BY <2>1, <2>2
<1> QED BY <1>1, CoefsAre, EvaluationOfMore DEF PolyValue

Horner(u, p, x, n) ==
    u = [i \in 0 .. n |-> IF i = 0 THEN 0 ELSE (u[i - 1] * x + p[n + 1 - i]) % Modulus]

LEMMA SequenceIs ==
    ASSUME NEW k \in Nat, NEW S, NEW y \in [1 .. k -> S]
    PROVE  y \in Seq(S) /\ Len(y) = k
OBVIOUS

\* The difference of two polynomials, up to any length.
LEMMA MinusValue ==
    ASSUME NEW p \in Seq(Int), NEW q \in Seq(Int), NEW k \in Nat, Len(p) <= k, Len(q) <= k,
           NEW x \in Int
    PROVE  /\ Minus(p, q, k) \in Seq(Field) /\ Len(Minus(p, q, k)) = k
           /\ Same(PolyValue(Minus(p, q, k), x), PolyValue(p, x) - PolyValue(q, x))
<1> DEFINE r == Minus(p, q, k)
           c == Coefs(p)
           d == Coefs(q)
           e == Coefs(r)
<1>1. /\ c \in Coefficients /\ d \in Coefficients
      /\ \A i \in Nat : c[i] = At(p, i + 1) /\ d[i] = At(q, i + 1)
  BY CoefsAre
<1>2. Len(r) = k /\ \A i \in 1 .. k : r[i] = (At(p, i) - At(q, i)) % Modulus
  BY MinusIs
<1>3. \A i \in 1 .. k : At(p, i) \in Int /\ At(q, i) \in Int
  <2> SUFFICES ASSUME NEW i \in 1 .. k PROVE At(p, i) \in Int /\ At(q, i) \in Int
    OBVIOUS
  <2> DEFINE j == i - 1
  <2>1. j \in Nat /\ j + 1 = i
    OBVIOUS
  <2>2. c[j] = At(p, i) /\ d[j] = At(q, i)
    BY <1>1, <2>1
  <2>3. c[j] \in Int /\ d[j] \in Int
    BY <1>1, <2>1 DEF Coefficients
  <2> QED BY <2>2, <2>3
<1>4. r \in Seq(Field)
  <2>1. \A i \in 1 .. k : r[i] \in Field
    <3> SUFFICES ASSUME NEW i \in 1 .. k PROVE r[i] \in Field
      OBVIOUS
    <3>1. At(p, i) - At(q, i) \in Int
      BY <1>3
    <3> QED BY <1>2, <3>1, Remainder
  <2>2. r = [i \in 1 .. k |-> r[i]]
    BY DEF Minus
  <2> HIDE DEF r
  <2>3. r \in [1 .. k -> Field]
    BY <2>1, <2>2
  <2> QED BY <2>3, SequenceIs
<1>5. r \in Seq(Int)
  BY <1>4, FieldsAreNumbers
<1> HIDE DEF r, c, d
<1>6. e \in Coefficients /\ \A i \in Nat : e[i] = At(r, i + 1)
  BY <1>5, CoefsAre
<1> HIDE DEF e
<1>7. \A i \in 0 .. k-1 : Same(e[i], 1 * c[i] + (-1) * d[i])
  <2> SUFFICES ASSUME NEW i \in 0 .. k-1 PROVE Same(e[i], 1 * c[i] + (-1) * d[i])
    OBVIOUS
  <2>1. i \in Nat /\ i + 1 \in 1 .. k
    OBVIOUS
  <2>2. e[i] = r[i + 1]
    BY <1>2, <1>6, <2>1 DEF At
  <2> DEFINE a == c[i]
             b == d[i]
  <2>3. a = At(p, i + 1) /\ b = At(q, i + 1) /\ a \in Int /\ b \in Int
    BY <1>1, <2>1 DEF Coefficients
  <2>4. e[i] = (a - b) % Modulus
    BY <1>2, <2>1, <2>2, <2>3
  <2> HIDE DEF a, b
  <2>5. 1 * a + (-1) * b = a - b /\ a - b \in Int
    BY <2>3
  <2> QED BY <2>4, <2>5, Remainder DEF a, b
<1> DEFINE v == Evaluation(c, x, k)
           w == Evaluation(d, x, k)
<1>8. Same(Evaluation(e, x, k), 1 * v + (-1) * w)
  <2>1. -1 \in Int /\ 1 \in Int
    OBVIOUS
  <2> QED BY <1>1, <1>6, <1>7, <2>1, EvaluationCombines
<1>9. v \in Int /\ w \in Int
  BY <1>1, EvaluationSteps
<1>10. v = PolyValue(p, x) /\ w = PolyValue(q, x)
  BY PolyValueOfMore DEF c, d
<1>11. Evaluation(e, x, k) = PolyValue(r, x)
  BY <1>2 DEF PolyValue, e
<1> HIDE DEF v, w
<1>12. 1 * v + (-1) * w = v - w
  BY <1>9
<1> QED BY <1>2, <1>4, <1>8, <1>10, <1>11, <1>12 DEF r

Doubled(u, k) == u = [e \in 0 .. k |-> IF 2 ^ e >= k THEN 2 ^ e ELSE u[e + 1]]

\* The size of a domain is the least power of two that holds what it is asked for.
LEMMA NextPowerOfTwoIs ==
    ASSUME NEW k \in Nat
    PROVE  \E d \in Nat : /\ NextPowerOfTwo(k) = 2 ^ d /\ 2 ^ d \in Nat /\ k <= 2 ^ d
                          /\ d <= k /\ \A c \in Nat : k <= 2 ^ c => d <= c
<1> DEFINE D(e) == {d \in Nat : d >= e /\ 2 ^ d >= k}
           L(e) == CHOOSE d \in D(e) : \A c \in D(e) : d <= c
           h == [e \in 0 .. k |-> 2 ^ L(e)]
           f == CHOOSE u : Doubled(u, k)
<1>1. NextPowerOfTwo(k) = f[0]
  BY DEF NextPowerOfTwo, Doubled
<1>2. \A d \in Nat : 2 ^ d \in Nat
  BY PowerStep
<1>3. k < 2 ^ k
  BY PowerExceeds
<1>4. ASSUME NEW e \in 0 .. k
      PROVE  L(e) \in D(e) /\ \A c \in D(e) : L(e) <= c
  <2>1. D(e) \in SUBSET Nat
    OBVIOUS
  <2>2. k \in D(e)
    BY <1>2, <1>3
  <2> HIDE DEF D
  <2>3. \E d \in D(e) : \A c \in D(e) : d <= c
    <3>1. D(e) # {}
      BY <2>2
    <3> QED BY <2>1, <3>1, LeastNatural
  <2> QED BY <2>3, Zenon
<1>5. Doubled(h, k)
  <2> DEFINE g == [e \in 0 .. k |-> IF 2 ^ e >= k THEN 2 ^ e ELSE h[e + 1]]
  <2>0. h = [e \in 0 .. k |-> h[e]] /\ \A e \in 0 .. k : h[e] = 2 ^ L(e)
    <3> HIDE DEF L
    <3> QED OBVIOUS
  <2> HIDE DEF h, L
  <2>1. \A e \in 0 .. k : h[e] = g[e]
    <3> SUFFICES ASSUME NEW e \in 0 .. k
                 PROVE  h[e] = IF 2 ^ e >= k THEN 2 ^ e ELSE h[e + 1]
      OBVIOUS
    <3>1. CASE 2 ^ e >= k
      <4>1. e \in D(e)
        BY <3>1
      <4>2. L(e) \in D(e) /\ L(e) <= e
        <5> HIDE DEF D
        <5> QED BY <1>4, <4>1
      <4>3. L(e) \in Nat /\ L(e) >= e
        BY <4>2
      <4>4. L(e) = e
        BY <4>2, <4>3
      <4> QED BY <2>0, <3>1, <4>4
    <3>2. CASE ~ (2 ^ e >= k)
      <4>1. e # k
        BY <1>2, <1>3, <3>2
      <4>2. e + 1 \in 0 .. k
        BY <4>1
      <4>3. D(e) = D(e + 1)
        <5>1. ASSUME NEW d \in Nat, d >= e, 2 ^ d >= k
              PROVE  d >= e + 1
          <6>1. d # e
            BY <3>2, <5>1
          <6> QED BY <5>1, <6>1
        <5>2. ASSUME NEW d \in Nat, d >= e + 1
              PROVE  d >= e
          BY <5>2
        <5>3. \A d : d \in D(e) <=> d \in D(e + 1)
          BY <5>1, <5>2
        <5> QED BY <5>3
      <4>4. L(e) = L(e + 1)
        <5> HIDE DEF D
        <5> QED BY <4>3 DEF L
      <4> QED BY <2>0, <3>2, <4>2, <4>4
    <3> QED BY <3>1, <3>2
  <2>2. g = [e \in 0 .. k |-> g[e]]
    OBVIOUS
  <2> HIDE DEF g
  <2>3. h = g
    BY <2>0, <2>1, <2>2
  <2> QED BY <2>3 DEF g, Doubled
<1>6. Doubled(f, k)
  <2> HIDE DEF h
  <2> QED BY <1>5, Zenon
<1> HIDE DEF f
<1>7. \A e \in 0 .. k : f[e] = IF 2 ^ e >= k THEN 2 ^ e ELSE f[e + 1]
  BY <1>6 DEF Doubled
<1> DEFINE S == {m \in Nat : m <= k => f[k - m] = h[k - m]}
<1>8. \A e \in 0 .. k : h[e] = IF 2 ^ e >= k THEN 2 ^ e ELSE h[e + 1]
  <2> HIDE DEF h
  <2> QED BY <1>5 DEF Doubled
<1>9. h[0] = 2 ^ L(0)
  <2> HIDE DEF L
  <2> QED OBVIOUS
<1> HIDE DEF h
<1>10. 0 \in S
  <2>1. k - 0 = k /\ k \in 0 .. k /\ 2 ^ k >= k
    BY <1>2, <1>3
  <2> QED BY <1>7, <1>8, <2>1
<1>11. \A m \in Nat : m \in S => m + 1 \in S
  <2> SUFFICES ASSUME NEW m \in Nat, m \in S, m + 1 <= k
               PROVE  f[k - (m + 1)] = h[k - (m + 1)]
    OBVIOUS
  <2> DEFINE e == k - (m + 1)
  <2>1. e \in 0 .. k /\ e + 1 = k - m
    OBVIOUS
  <2>2. f[e + 1] = h[e + 1]
    BY <2>1
  <2> HIDE DEF e
  <2>3. f[e] = h[e]
    BY <1>7, <1>8, <2>1, <2>2
  <2> QED BY <2>3 DEF e
<1>12. f[0] = h[0]
  <2>1. k \in S
    <3> HIDE DEF S
    <3> QED BY <1>10, <1>11, Reaches
  <2>2. k - k = 0
    OBVIOUS
  <2> QED BY <2>1, <2>2
<1>13. L(0) \in D(0) /\ \A c \in D(0) : L(0) <= c
  BY <1>4
<1> DEFINE d == L(0)
<1> HIDE DEF L
<1>14. d \in Nat /\ 2 ^ d >= k /\ \A c \in Nat : k <= 2 ^ c => d <= c
  <2>1. \A c \in Nat : k <= 2 ^ c => c \in D(0)
    BY <1>2
  <2> QED BY <1>13, <2>1
<1> HIDE DEF d, D
<1>15. d <= k /\ 2 ^ d \in Nat
  BY <1>2, <1>3, <1>14
<1>16. NextPowerOfTwo(k) = 2 ^ d
  BY <1>1, <1>9, <1>12 DEF d
<1> QED BY <1>14, <1>15, <1>16

-----------------------------------------------------------------------------
(* Sums that are counted from one.                                         *)

Runs(u, t, n) == \A i \in 0 .. n : u[i] = IF i = 0 THEN 0 ELSE u[i - 1] + t[i]

LEMMA RunExists ==
    ASSUME NEW n \in Nat, NEW t, \A i \in 1 .. n : t[i] \in Int
    PROVE  \E u : u = [i \in 0 .. n |-> u[i]] /\ Runs(u, t, n)
<1> DEFINE x == [i \in 0 .. n |-> t[i + 1]]
<1>1. \A i \in 0 .. n-1 : x[i] = t[i + 1] /\ x[i] \in Int
  OBVIOUS
<1> HIDE DEF x
<1>2. Summands(x, n)
  BY <1>1 DEF Summands
<1>3. PICK u : Sums(u, x, n)
  BY <1>2, SumsExist
<1>4. Runs(u, t, n)
  <2> SUFFICES ASSUME NEW i \in 0 .. n PROVE u[i] = IF i = 0 THEN 0 ELSE u[i - 1] + t[i]
    BY DEF Runs
  <2>1. CASE i = 0
    BY <1>3, <2>1 DEF Sums
  <2>2. CASE i # 0
    <3>1. i \in 1 .. n /\ i - 1 \in 0 .. n-1 /\ (i - 1) + 1 = i
      BY <2>2
    <3>2. x[i - 1] = t[i]
      BY <1>1, <3>1
    <3> QED BY <1>3, <2>2, <3>1, <3>2 DEF Sums
  <2> QED BY <2>1, <2>2
<1>5. u = [i \in 0 .. n |-> u[i]]
  BY <1>3 DEF Sums
<1> QED BY <1>4, <1>5

LEMMA RunIsSum ==
    ASSUME NEW n \in Nat, NEW t, NEW x, \A i \in 1 .. n : t[i] \in Int /\ x[i - 1] = t[i],
           NEW u, Runs(u, t, n)
    PROVE  Summands(x, n) /\ u[n] = SumTo(x, n) /\ u[n] \in Int
<1>1. \A i \in 0 .. n-1 : x[i] \in Int
  <2> SUFFICES ASSUME NEW i \in 0 .. n-1 PROVE x[i] \in Int
    OBVIOUS
  <2>1. i + 1 \in 1 .. n /\ (i + 1) - 1 = i
    OBVIOUS
  <2> QED BY <2>1
<1>2. Summands(x, n)
  BY <1>1 DEF Summands
<1>3. PICK w : Sums(w, x, n) /\ SumTo(x, n) = w[n]
  BY <1>2, SumToIs
<1> DEFINE S == {m \in Nat : m <= n => u[m] = w[m]}
<1>4. 0 \in S
  BY <1>3 DEF Sums, Runs
<1>5. \A m \in Nat : m \in S => m + 1 \in S
  <2> SUFFICES ASSUME NEW m \in Nat, m \in S, m + 1 <= n PROVE u[m + 1] = w[m + 1]
    OBVIOUS
  <2>1. m + 1 \in 1 .. n /\ (m + 1) - 1 = m /\ m + 1 \in 0 .. n /\ m + 1 # 0
    OBVIOUS
  <2>2. u[m] = w[m]
    BY <2>1
  <2>3. u[m + 1] = u[m] + t[m + 1]
    BY <2>1 DEF Runs
  <2>4. w[m + 1] = w[m] + x[m] /\ x[m] = t[m + 1]
    BY <1>3, <2>1 DEF Sums
  <2> QED BY <2>2, <2>3, <2>4
<1>6. n \in S
  <2> HIDE DEF S
  <2> QED BY <1>4, <1>5, Reaches
<1>7. w[n] \in Int
  BY <1>3 DEF Sums
<1> QED BY <1>2, <1>3, <1>6, <1>7

LEMMA RemainderIs ==
    ASSUME NEW a \in Int, NEW s \in Nat \ {0}, NEW q \in Int, NEW r \in 0 .. s - 1, a = s * q + r
    PROVE  a % s = r
<1> DEFINE u == a % s
           v == a \div s
           d == v - q
<1>1. u \in 0 .. s - 1 /\ v \in Int /\ a = s * v + u
  OBVIOUS
<1> HIDE DEF u, v
<1>2. d \in Int /\ v = q + d
  BY <1>1
<1> HIDE DEF d
<1>3. s * v = s * q + s * d /\ s * d \in Int /\ s * q \in Int
  BY <1>2
<1>4. s * d = r - u
  BY <1>1, <1>3
<1>5. ~ (d >= 1)
  <2> SUFFICES ASSUME d >= 1 PROVE FALSE
    OBVIOUS
  <2>1. s * d >= s
    BY <1>2
  <2> QED BY <1>1, <1>4, <2>1
<1>6. ~ (d <= -1)
  <2> SUFFICES ASSUME d <= -1 PROVE FALSE
    OBVIOUS
  <2>1. s * d <= -s
    BY <1>2
  <2> QED BY <1>1, <1>4, <2>1
<1>7. d = 0
  BY <1>2, <1>5, <1>6
<1>8. s * 0 = 0
  OBVIOUS
<1> QED BY <1>1, <1>4, <1>7, <1>8 DEF u

Folded(u, p, q, k, size) ==
    u = [i \in 0 .. Len(p) |->
          IF i = 0 THEN 0 ELSE u[i - 1] + p[i] * At(q, ((k - i) % size) + 1)]

\* Over a domain that holds the product, nothing wraps.
LEMMA FoldedIs ==
    ASSUME NEW p \in Seq(Int), NEW q \in Seq(Int), q # <<>>, NEW size \in Nat,
           Len(p) + Len(q) <= size + 1, NEW k \in Nat, k + 1 < Len(p) + Len(q),
           NEW f, f = CHOOSE u : Folded(u, p, q, k + 1, size)
    PROVE  f[Len(p)] = Convolved(Coefs(p), Coefs(q), Len(p))[k] /\ f[Len(p)] \in Int
<1> DEFINE n == Len(p)
           m == Len(q)
           c == Coefs(p)
           d == Coefs(q)
           x == ProductTerms(c, d, k)
           t == [i \in 1 .. n |-> p[i] * At(q, (((k + 1) - i) % size) + 1)]
<1>1. n \in Nat /\ m \in Nat \ {0} /\ \A i \in 1 .. n : p[i] \in Int
  OBVIOUS
<1>2. /\ c \in Coefficients /\ \A i \in Nat : c[i] = IF i < n THEN p[i + 1] ELSE 0
      /\ d \in Coefficients /\ \A i \in Nat : d[i] = IF i < m THEN q[i + 1] ELSE 0
      /\ \A i \in Nat : d[i] = At(q, i + 1)
  BY CoefsAre
<1>3. \A j \in Nat : x[j] = c[j] * (IF k < j THEN 0 ELSE d[k - j])
  BY DEF ProductTerms
<1>4. Convolved(c, d, n)[k] = SumTo(x, n)
  BY DEF Convolved
<1>5. \A i \in 1 .. n : t[i] = p[i] * At(q, (((k + 1) - i) % size) + 1)
  OBVIOUS
<1> HIDE DEF t, c, d, x
<1>6. ASSUME NEW i \in 1 .. n
      PROVE  t[i] \in Int /\ x[i - 1] = t[i]
  <2> DEFINE j == i - 1
             r == ((k + 1) - i) % size
             a == p[i]
  <2>1. j \in Nat /\ j < n /\ j + 1 = i /\ i \in Nat
    BY <1>1
  <2>2. c[j] = a /\ a \in Int
    BY <1>1, <1>2, <2>1
  <2> HIDE DEF n, m
  <2>3. k + 1 < n + m /\ n + m <= size + 1
    BY DEF n, m
  <2>4. CASE j <= k
    <3>1. (k + 1) - i = k - j /\ k - j \in Nat /\ ~ (k < j)
      BY <2>1, <2>4
    <3>2. k - j < size
      BY <1>1, <2>1, <2>3, <3>1
    <3>3. r = k - j
      <4>1. size \in Nat \ {0} /\ k - j \in 0 .. size - 1 /\ k - j \in Int
        BY <3>1, <3>2
      <4>2. k - j = size * 0 + (k - j)
        BY <4>1
      <4> QED BY <3>1, <4>1, <4>2, 0 \in Int, RemainderIs
    <3>4. At(q, r + 1) = d[k - j] /\ d[k - j] \in Int
      BY <1>2, <3>1, <3>3 DEF Coefficients
    <3>5. t[i] = a * d[k - j]
      BY <1>5, <3>4
    <3>6. x[j] = a * d[k - j]
      BY <1>3, <2>1, <2>2, <3>1
    <3> HIDE DEF a
    <3> QED BY <2>2, <3>4, <3>5, <3>6
  <2>5. CASE j > k
    <3> DEFINE e == j - k
    <3>1. e \in Nat /\ e >= 1 /\ (k + 1) - i = -e
      BY <2>1, <2>5
    <3>2. e < size /\ e <= n - 1 - k
      <4>1. e <= n - 1 - k
        BY <1>1, <2>1
      <4>2. n <= size
        BY <1>1, <2>3
      <4> QED BY <1>1, <3>1, <4>1, <4>2
    <3>3. r = size - e
      <4> HIDE DEF e
      <4>1. -e = size * (-1) + (size - e) /\ size - e \in 0 .. size - 1 /\ size > 0
        BY <3>1, <3>2
      <4>2. -e \in Int /\ -1 \in Int /\ size \in Nat \ {0}
        BY <3>1, <4>1
      <4>3. (-e) % size = size - e
        BY <4>1, <4>2, RemainderIs
      <4> QED BY <3>1, <4>3
    <3>4. r \in Nat /\ ~ (r < m)
      <4>1. m <= size + 1 - n /\ e <= n - 1 - k
        BY <1>1, <2>3, <3>2
      <4> HIDE DEF r, e
      <4>2. size - e \in Nat /\ size - e >= size - n + 1 + k
        BY <1>1, <3>1, <3>2, <4>1
      <4> QED BY <1>1, <3>3, <4>1, <4>2
    <3>5. At(q, r + 1) = 0
      <4> HIDE DEF r
      <4> QED BY <1>2, <3>4
    <3>6. t[i] = a * 0
      BY <1>5, <3>5
    <3>7. x[j] = a * 0
      BY <1>3, <2>1, <2>2, <2>5
    <3> HIDE DEF a
    <3> QED BY <2>2, <3>6, <3>7
  <2> QED BY <1>1, <2>1, <2>4, <2>5
<1>7. PICK w : w = [i \in 0 .. n |-> w[i]] /\ Runs(w, t, n)
  BY <1>1, <1>6, RunExists
<1>8. Folded(w, p, q, k + 1, size)
  <2> DEFINE e == [i \in 0 .. n |->
                    IF i = 0 THEN 0 ELSE w[i - 1] + p[i] * At(q, (((k + 1) - i) % size) + 1)]
  <2>1. \A i \in 0 .. n : w[i] = e[i]
    <3> SUFFICES ASSUME NEW i \in 0 .. n
                 PROVE  w[i] = IF i = 0 THEN 0
                               ELSE w[i - 1] + p[i] * At(q, (((k + 1) - i) % size) + 1)
      OBVIOUS
    <3>1. i # 0 => i \in 1 .. n
      BY <1>1
    <3>2. w[i] = IF i = 0 THEN 0 ELSE w[i - 1] + t[i]
      BY <1>7 DEF Runs
    <3> QED BY <1>5, <3>1, <3>2
  <2>2. e = [i \in 0 .. n |-> e[i]]
    OBVIOUS
  <2> HIDE DEF e
  <2>3. w = e
    BY <1>7, <2>1, <2>2
  <2> QED BY <2>3 DEF e, Folded
<1>9. Folded(f, p, q, k + 1, size)
  BY <1>8, Zenon
<1>10. Runs(f, t, n)
  <2> SUFFICES ASSUME NEW i \in 0 .. n PROVE f[i] = IF i = 0 THEN 0 ELSE f[i - 1] + t[i]
    BY DEF Runs
  <2>1. i # 0 => i \in 1 .. n
    BY <1>1
  <2>2. f[i] = IF i = 0 THEN 0 ELSE f[i - 1] + p[i] * At(q, (((k + 1) - i) % size) + 1)
    BY <1>9 DEF Folded
  <2> QED BY <1>5, <2>1, <2>2
<1>11. f[n] = SumTo(x, n) /\ f[n] \in Int
  BY <1>1, <1>6, <1>10, RunIsSum
<1> QED BY <1>4, <1>11 DEF c, d

LEMMA PolyMulConvolves ==
    ASSUME NEW p \in Seq(Int), NEW q \in Seq(Int), p # <<>>, q # <<>>
    PROVE  /\ PolyMul(p, q) \in Seq(Field) /\ Len(PolyMul(p, q)) = Len(p) + Len(q) - 1
           /\ \A k \in 0 .. Len(p) + Len(q) - 2 :
                Same(Coefs(PolyMul(p, q))[k], Convolved(Coefs(p), Coefs(q), Len(p))[k])
<1> DEFINE n == Len(p) + Len(q) - 1
           size == NextPowerOfTwo(n)
           f(k) == CHOOSE u : Folded(u, p, q, k, size)
           C(k) == (f(k)[Len(p)]) % Modulus
           y == [k \in 1 .. size |-> C(k)]
           c == Coefs(p)
           d == Coefs(q)
           z == PolyMul(p, q)
           e == Coefs(z)
<1>1. Len(p) \in Nat \ {0} /\ Len(q) \in Nat \ {0} /\ n \in Nat
  OBVIOUS
<1>2. size \in Nat /\ n <= size
  BY <1>1, NextPowerOfTwoIs
<1>3. z = SubSeq(y, 1, n)
  BY DEF PolyMul, Folded
<1>4. ASSUME NEW k \in 1 .. n
      PROVE  C(k) \in Field /\ Same(C(k), Convolved(c, d, Len(p))[k - 1])
  <2> DEFINE j == k - 1
  <2>1. j \in Nat /\ j + 1 = k /\ j + 1 < Len(p) + Len(q) /\ Len(p) + Len(q) <= size + 1
    <3> HIDE DEF size
    <3> QED BY <1>1, <1>2
  <2> HIDE DEF size
  <2>2. f(k)[Len(p)] = Convolved(c, d, Len(p))[j] /\ f(k)[Len(p)] \in Int
    <3> DEFINE g == f(k)
    <3>1. g = CHOOSE u : Folded(u, p, q, j + 1, size)
      BY <2>1
    <3> HIDE DEF g, j
    <3> QED BY <1>2, <2>1, <3>1, FoldedIs DEF g
  <2> HIDE DEF f
  <2> QED BY <2>2, Remainder
<1> HIDE DEF C, size
<1>5. z \in Seq(Field) /\ Len(z) = n /\ \A k \in 1 .. n : z[k] = C(k)
  <2> HIDE DEF n, z
  <2>1. Len(z) = n /\ z = [k \in 1 .. n |-> z[k]] /\ \A k \in 1 .. n : z[k] = C(k)
    <3> HIDE DEF y
    <3>1. z = [k \in 1 .. n |-> y[k]] /\ Len(z) = n
      BY <1>1, <1>3
    <3>2. \A k \in 1 .. n : k \in 1 .. size
      BY <1>1, <1>2
    <3>3. \A k \in 1 .. size : y[k] = C(k)
      BY DEF y
    <3> QED BY <3>1, <3>2, <3>3
  <2>2. z \in [1 .. n -> Field]
    BY <1>4, <2>1
  <2> QED BY <1>1, <2>1, <2>2, SequenceIs
<1> HIDE DEF z, y
<1>6. z \in Seq(Int)
  BY <1>5, FieldsAreNumbers
<1>7. /\ c \in Coefficients /\ d \in Coefficients /\ e \in Coefficients
      /\ \A i \in Nat : d[i] = IF i < Len(q) THEN q[i + 1] ELSE 0
      /\ \A i \in Nat : e[i] = IF i < Len(z) THEN z[i + 1] ELSE 0
  BY <1>6, CoefsAre
<1> HIDE DEF e, c, d
<1>8. \A k \in 0 .. n-1 : Same(e[k], Convolved(c, d, Len(p))[k])
  <2> SUFFICES ASSUME NEW k \in 0 .. n-1 PROVE Same(e[k], Convolved(c, d, Len(p))[k])
    OBVIOUS
  <2> DEFINE i == k + 1
  <2>1. k \in Nat /\ i \in 1 .. n /\ i - 1 = k /\ k < n
    BY <1>1
  <2> HIDE DEF i, n
  <2>2. e[k] = C(i)
    BY <1>5, <1>7, <2>1 DEF i
  <2> QED BY <1>4, <2>1, <2>2
<1>9. n - 1 = Len(p) + Len(q) - 2
  BY <1>1
<1> QED BY <1>5, <1>8, <1>9 DEF c, d, e, z

\* Polynomials are multiplied: the transforms are over a domain large enough.
THEOREM PolyMulValue ==
    ASSUME NEW p \in Seq(Int), NEW q \in Seq(Int), NEW x \in Int, p # <<>>, q # <<>>
    PROVE  /\ PolyMul(p, q) \in Seq(Field) /\ Len(PolyMul(p, q)) = Len(p) + Len(q) - 1
           /\ Same(PolyValue(PolyMul(p, q), x), PolyValue(p, x) * PolyValue(q, x))
<1> DEFINE n == Len(p) + Len(q) - 1
           c == Coefs(p)
           d == Coefs(q)
           z == PolyMul(p, q)
           e == Coefs(z)
<1>1. Len(p) \in Nat \ {0} /\ Len(q) \in Nat \ {0} /\ n \in Nat /\ n - 1 = Len(p) + Len(q) - 2
  OBVIOUS
<1>2. z \in Seq(Field) /\ Len(z) = n /\ \A k \in 0 .. n-1 : Same(e[k], Convolved(c, d, Len(p))[k])
  BY <1>1, PolyMulConvolves
<1> HIDE DEF z
<1>3. z \in Seq(Int)
  BY <1>2, FieldsAreNumbers
<1>4. /\ c \in Coefficients /\ d \in Coefficients /\ e \in Coefficients
      /\ \A i \in Nat : d[i] = IF i < Len(q) THEN q[i + 1] ELSE 0
  BY <1>3, CoefsAre
<1> HIDE DEF e, c, d
<1>5. Same(Evaluation(e, x, n), Evaluation(c, x, Len(p)) * Evaluation(d, x, Len(q)))
  <2>1. \A i \in Nat : i >= Len(q) => d[i] = 0
    BY <1>1, <1>4
  <2>2. Len(p) + Len(q) <= n + 1
    BY <1>1
  <2>3. Len(p) \in Nat /\ Len(q) \in Nat
    OBVIOUS
  <2> HIDE DEF n
  <2> QED BY <1>1, <1>2, <1>4, <2>1, <2>2, <2>3, EvaluationMultiplies
<1> QED BY <1>2, <1>5 DEF PolyValue, c, d, e, z

-----------------------------------------------------------------------------
(* Powers, and polynomials at a multiple of a point.                       *)

Raises(u, x, k) == u = [e \in 0 .. k |-> IF e = 0 THEN 1 ELSE (u[e - 1] * x) % Modulus]

LEMMA PowersAgree ==
    ASSUME NEW x \in Int, NEW y \in Int, Same(x, y), NEW k \in Nat
    PROVE  Same(PowerOf(x, k), PowerOf(y, k))
<1> DEFINE S == {m \in Nat : Same(PowerOf(x, m), PowerOf(y, m))}
<1>1. 0 \in S
  BY PowerStarts, 1 \in Int, SameItself
<1>2. \A m \in Nat : m \in S => m + 1 \in S
  <2> SUFFICES ASSUME NEW m \in Nat, Same(PowerOf(x, m), PowerOf(y, m))
               PROVE  Same(PowerOf(x, m + 1), PowerOf(y, m + 1))
    OBVIOUS
  <2> QED BY PowerStarts, SameProduct
<1>3. k \in S
  <2> HIDE DEF S
  <2> QED BY <1>1, <1>2, Reaches
<1> QED BY <1>3

\* Equal residues, equal values.
LEMMA ValuesAgree ==
    ASSUME NEW p \in Seq(Int), NEW x \in Int, NEW y \in Int, Same(x, y)
    PROVE  Same(PolyValue(p, x), PolyValue(p, y))
<1> DEFINE c == Coefs(p)
           n == Len(p)
           s == Terms(c, x)
           t == Terms(c, y)
<1>1. c \in Coefficients /\ n \in Nat
  BY CoefsAre
<1> HIDE DEF c, n
<1>2. ASSUME NEW i \in 0 .. n-1
      PROVE  Same(s[i], 1 * t[i] + 0 * t[i])
  <2> DEFINE a == c[i]
             q == PowerOf(x, i)
             r == PowerOf(y, i)
  <2>0. i \in Nat
    BY <1>1
  <2>1. i \in Nat /\ a \in Int /\ q \in Int /\ r \in Int
    BY <1>1, <2>0, PowerStarts DEF Coefficients
  <2>2. s[i] = a * q /\ t[i] = a * r
    BY <1>1, <2>1, TermsAre
  <2>3. Same(q, r)
    BY <2>1, PowersAgree
  <2> HIDE DEF a, q, r
  <2>4. Same(a * q, a * r)
    BY <2>1, <2>3, SameItself, SameProduct
  <2>5. 1 * (a * r) + 0 * (a * r) = a * r
    BY <2>1
  <2> QED BY <2>2, <2>4, <2>5
<1>3. Summands(s, n) /\ Summands(t, n)
  BY <1>1, TermsAre
<1> HIDE DEF s, t
<1>4. Same(SumTo(s, n), 1 * SumTo(t, n) + 0 * SumTo(t, n)) /\ SumTo(t, n) \in Int
  BY <1>1, <1>2, <1>3, 0 \in Int, 1 \in Int, SumsCombine
<1>5. 1 * SumTo(t, n) + 0 * SumTo(t, n) = SumTo(t, n)
  BY <1>4
<1> QED BY <1>4, <1>5 DEF s, t, c, n, PolyValue, Evaluation

LEMMA ResizedSame ==
    ASSUME NEW k \in Nat, NEW y \in [1 .. k -> Field]
    PROVE  /\ Resized(y, k) \in Seq(Field) /\ Len(Resized(y, k)) = k
           /\ \A i \in 1 .. k : Resized(y, k)[i] = y[i]
<1>1. Len(y) = k
  BY SequenceIs
<1>2. /\ Len(Resized(y, k)) = k
      /\ \A i \in 1 .. k : Resized(y, k)[i] = At(y, i)
  BY ResizedIs
<1>3. \A i \in 1 .. k : Resized(y, k)[i] = y[i]
  BY <1>1, <1>2 DEF At
<1>4. Resized(y, k) = [i \in 1 .. k |-> Resized(y, k)[i]]
  BY DEF Resized
<1> DEFINE r == Resized(y, k)
<1> HIDE DEF r
<1>5. r \in [1 .. k -> Field]
  BY <1>3, <1>4 DEF r
<1>6. r \in Seq(Field)
  BY <1>5, SequenceIs
<1> QED BY <1>2, <1>3, <1>6 DEF r

-----------------------------------------------------------------------------
(* Geometric sums.                                                         *)

AllOnes == [i \in Nat |-> 1]

\* The geometric sum.
LEMMA GeometricSum ==
    ASSUME NEW x \in Int, NEW n \in Nat
    PROVE  /\ Evaluation(AllOnes, x, n) \in Int
           /\ (x - 1) * Evaluation(AllOnes, x, n) = PowerOf(x, n) - 1
           /\ x = 1 => Evaluation(AllOnes, x, n) = n
<1> DEFINE E(m) == Evaluation(AllOnes, x, m)
           P(m) == PowerOf(x, m)
           S == {m \in Nat : (x - 1) * E(m) = P(m) - 1 /\ (x = 1 => E(m) = m /\ P(m) = 1)}
<1>1. AllOnes \in Coefficients /\ \A m \in Nat : AllOnes[m] = 1
  BY DEF AllOnes, Coefficients
<1>2. \A m \in Nat : E(m) \in Int /\ P(m) \in Int /\ P(m + 1) = P(m) * x
  BY <1>1, EvaluationSteps, PowerStarts
<1>3. \A m \in Nat : E(m + 1) = E(m) + P(m)
  <2> SUFFICES ASSUME NEW m \in Nat PROVE E(m + 1) = E(m) + P(m)
    OBVIOUS
  <2>1. E(m + 1) = E(m) + AllOnes[m] * P(m)
    BY <1>1, EvaluationSteps
  <2>2. AllOnes[m] * P(m) = P(m)
    BY <1>1, <1>2
  <2> QED BY <2>1, <2>2
<1>4. E(0) = 0 /\ P(0) = 1
  BY <1>1, 0 \in Nat, EvaluationSteps, PowerStarts
<1> HIDE DEF E, P
<1>5. 0 \in S
  <2>1. (x - 1) * 0 = 0
    OBVIOUS
  <2> QED BY <1>4, <2>1
<1>6. \A m \in Nat : m \in S => m + 1 \in S
  <2> SUFFICES ASSUME NEW m \in Nat, m \in S
               PROVE  (x - 1) * E(m + 1) = P(m + 1) - 1
                      /\ (x = 1 => E(m + 1) = m + 1 /\ P(m + 1) = 1)
    OBVIOUS
  <2> DEFINE a == E(m)
             b == P(m)
  <2>1. a \in Int /\ b \in Int /\ (x - 1) * a = b - 1 /\ (x = 1 => a = m /\ b = 1)
    BY <1>2
  <2>2. E(m + 1) = a + b /\ P(m + 1) = b * x
    BY <1>2, <1>3
  <2> HIDE DEF a, b
  <2>3. (x - 1) * (a + b) = (x - 1) * a + (x - 1) * b /\ (x - 1) * b = b * x - b
    BY <2>1
  <2>4. (x - 1) * (a + b) = b * x - 1
    BY <2>1, <2>3
  <2>5. x = 1 => b * x = b
    BY <2>1
  <2> QED BY <2>1, <2>2, <2>4, <2>5
<1>7. n \in S
  <2> HIDE DEF S
  <2> QED BY <1>5, <1>6, Reaches
<1> QED BY <1>2, <1>7 DEF E, P

-----------------------------------------------------------------------------
(* Long division.                                                          *)

LEMMA TrimmedValue ==
    ASSUME NEW p \in Seq(Field), NEW x \in Int
    PROVE  PolyValue(Trimmed(p), x) = PolyValue(p, x)
<1> DEFINE t == Trimmed(p)
           n == Len(p)
<1>1. t \in Seq(Field) /\ Len(t) \in 0 .. n /\ \A i \in Nat : At(t, i) = At(p, i)
  BY TrimmedIs
<1>2. n \in Nat
  OBVIOUS
<1> HIDE DEF t, n
<1>3. t \in Seq(Int) /\ p \in Seq(Int)
  BY <1>1, FieldsAreNumbers
<1>4. Coefs(t) = Coefs(p)
  <2>1. \A i \in Nat : At(t, i + 1) = At(p, i + 1)
    BY <1>1
  <2> QED BY <2>1 DEF Coefs
<1>5. PolyValue(t, x) = Evaluation(Coefs(t), x, n) /\ PolyValue(p, x) = Evaluation(Coefs(p), x, n)
  <2>1. Len(t) <= n
    BY <1>1, <1>2
  <2> QED BY <1>2, <1>3, <2>1, PolyValueOfMore DEF PolyValue, n
<1> QED BY <1>4, <1>5 DEF t

\* A multiple of the divisor, moved up.
LEMMA MultipleValue ==
    ASSUME NEW den \in Seq(Int), NEW q \in Int, NEW d \in Nat, NEW x \in Int
    PROVE  /\ Multiple(q, den, d) \in Seq(Int) /\ Len(Multiple(q, den, d)) = d + Len(den)
           /\ Same(PolyValue(Multiple(q, den, d), x), PowerOf(x, d) * (q * PolyValue(den, x)))
<1> DEFINE n == Len(den)
           y == Multiple(q, den, d)
           c == Coefs(den)
           s == [i \in Nat |-> q * c[i]]
           e == Coefs(y)
<1>1. n \in Nat /\ \A i \in 1 .. n : den[i] \in Int
  OBVIOUS
<1>2. c \in Coefficients /\ \A i \in Nat : c[i] = IF i < n THEN den[i + 1] ELSE 0
  BY CoefsAre
<1>3. y = [i \in 1 .. d + n |-> IF i > d THEN q * den[i - d] ELSE 0]
  BY DEF Multiple
<1> HIDE DEF n, y, c, e
<1>4. y \in Seq(Int) /\ Len(y) = d + n
  <2>1. \A i \in 1 .. d + n : (IF i > d THEN q * den[i - d] ELSE 0) \in Int
    <3> SUFFICES ASSUME NEW i \in 1 .. d + n, i > d PROVE q * den[i - d] \in Int
      OBVIOUS
    <3>1. i - d \in 1 .. n
      BY <1>1
    <3>2. den[i - d] \in Int
      BY <1>1, <3>1
    <3> QED BY <3>2
  <2>2. y \in [1 .. d + n -> Int]
    BY <1>3, <2>1
  <2> QED BY <1>1, <2>2, SequenceIs
<1>5. e \in Coefficients /\ \A i \in Nat : e[i] = IF i < d + n THEN y[i + 1] ELSE 0
  BY <1>4, CoefsAre DEF e
<1>6. s \in Coefficients /\ \A i \in Nat : s[i] = q * c[i]
  BY <1>2 DEF Coefficients
<1> HIDE DEF s
<1>7. MovedUp(s, e, d)
  <2> SUFFICES ASSUME NEW i \in Nat PROVE e[i] = IF i < d THEN 0 ELSE s[i - d]
    BY DEF MovedUp
  <2>1. CASE i < d
    <3>1. i < d + n /\ i + 1 \in 1 .. d + n /\ ~ (i + 1 > d)
      BY <1>1, <2>1
    <3> QED BY <1>3, <1>5, <2>1, <3>1
  <2>2. CASE i >= d /\ i < d + n
    <3>1. i + 1 \in 1 .. d + n /\ i + 1 > d /\ i - d \in Nat /\ i - d < n
          /\ (i + 1) - d = (i - d) + 1 /\ ~ (i < d)
      BY <1>1, <2>2
    <3>2. e[i] = q * den[(i - d) + 1]
      BY <1>3, <1>5, <2>2, <3>1
    <3>3. s[i - d] = q * den[(i - d) + 1]
      BY <1>2, <1>6, <3>1
    <3> QED BY <3>1, <3>2, <3>3
  <2>3. CASE i >= d + n
    <3>1. i - d \in Nat /\ ~ (i - d < n) /\ ~ (i < d) /\ ~ (i < d + n)
      BY <1>1, <2>3
    <3>2. s[i - d] = q * 0
      BY <1>2, <1>6, <3>1
    <3> QED BY <1>5, <3>1, <3>2
  <2> QED BY <1>1, <2>1, <2>2, <2>3
<1> DEFINE v == Evaluation(c, x, n)
           w == Evaluation(s, x, n)
           p == PowerOf(x, d)
<1>8. Same(w, q * v + 0 * v)
  <2>1. \A i \in 0 .. n-1 : Same(s[i], q * c[i] + 0 * c[i])
    <3> SUFFICES ASSUME NEW i \in 0 .. n-1 PROVE Same(s[i], q * c[i] + 0 * c[i])
      OBVIOUS
    <3>1. i \in Nat
      OBVIOUS
    <3> DEFINE a == c[i]
    <3>2. a \in Int /\ s[i] = q * a
      BY <1>2, <1>6, <3>1 DEF Coefficients
    <3> HIDE DEF a
    <3>3. q * a + 0 * a = q * a /\ q * a \in Int
      BY <3>2
    <3> QED BY <3>2, <3>3, SameItself DEF a
  <2> QED BY <1>1, <1>2, <1>6, <2>1, 0 \in Int, EvaluationCombines
<1>9. Evaluation(e, x, d + n) = p * w /\ v \in Int /\ w \in Int /\ p \in Int
  <2>1. Evaluation(e, x, d + n) = p * w
    BY <1>1, <1>5, <1>6, <1>7, EvaluationShifts
  <2>2. v \in Int /\ w \in Int
    BY <1>1, <1>2, <1>6, EvaluationSteps
  <2> QED BY <2>1, <2>2, PowerStarts
<1> HIDE DEF v, w, p
<1>10. Same(p * w, p * (q * v))
  <2>1. q * v + 0 * v = q * v /\ q * v \in Int
    BY <1>9
  <2> QED BY <1>8, <1>9, <2>1, SameItself, SameProduct
<1> QED BY <1>4, <1>9, <1>10 DEF PolyValue, v, p, n, y, c, e

OfLength(n) == {p \in Seq(Field) : Len(p) = n}

Divisor(den) == den \in Seq(Field) /\ Len(den) >= 1 /\ den[Len(den)] # 0

\* What is left of the dividend, from one coefficient of the quotient to the next.
Lowered(above, den, d, back, n) ==
    LET q == (At(above, d + Len(den)) * back) % Modulus
    IN  << Minus(above, Multiple(q, den, d), n), q >>

LEMMA LoweredIs ==
    ASSUME NEW den, Divisor(den), NEW n \in Nat, NEW d \in Nat, d + Len(den) <= n,
           NEW above \in OfLength(n), NEW back \in Field, NEW x \in Int
    PROVE  LET l == Lowered(above, den, d, back, n)
           IN  /\ l \in OfLength(n) \X Field
               /\ Same(PolyValue(l[1], x),
                       PolyValue(above, x) - PowerOf(x, d) * (l[2] * PolyValue(den, x)))
<1> DEFINE k == d + Len(den)
           q == (At(above, k) * back) % Modulus
           y == Multiple(q, den, d)
           z == Minus(above, y, n)
<1>1. den \in Seq(Int) /\ above \in Seq(Int) /\ Len(above) = n
  BY FieldsAreNumbers DEF Divisor, OfLength
<1>2. q \in Field /\ q \in Int
  <2>1. At(above, k) \in Int
    BY <1>1 DEF At
  <2>2. At(above, k) * back \in Int
    BY <2>1, InField
  <2> DEFINE a == At(above, k) * back
  <2> HIDE DEF a
  <2>3. a % Modulus \in Field
    BY <2>2, Remainder DEF a
  <2> QED BY <2>3, InField DEF a
<1>3. Lowered(above, den, d, back, n) = <<z, q>>
  BY DEF Lowered
<1> HIDE DEF q, k
<1>4. /\ y \in Seq(Int) /\ Len(y) = d + Len(den)
      /\ Same(PolyValue(y, x), PowerOf(x, d) * (q * PolyValue(den, x)))
  BY <1>1, <1>2, MultipleValue
<1> HIDE DEF y
<1>5. /\ z \in Seq(Field) /\ Len(z) = n
      /\ Same(PolyValue(z, x), PolyValue(above, x) - PolyValue(y, x))
  <2>1. Len(y) <= n /\ Len(above) <= n
    BY <1>1, <1>4
  <2> HIDE DEF z
  <2> QED BY <1>1, <1>4, <2>1, MinusValue DEF z
<1> HIDE DEF z
<1> DEFINE a == PolyValue(above, x)
           b == PolyValue(y, x)
           c == PolyValue(den, x)
           p == PowerOf(x, d)
           w == PolyValue(z, x)
<1>6. a \in Int /\ b \in Int /\ c \in Int /\ p \in Int /\ w \in Int
  BY <1>1, <1>4, <1>5, FieldsAreNumbers, PolyValueIsNumber, PowerStarts
<1> HIDE DEF a, b, c, p, w
<1>7. p * (q * c) \in Int
  BY <1>2, <1>6
<1>8. Same(a - b, a - p * (q * c))
  BY <1>4, <1>6, <1>7, SameItself, SameDifference DEF b, c, p
<1>9. Same(w, a - b)
  BY <1>5 DEF a, b, w
<1>10. Same(w, a - p * (q * c))
  <2>1. a - b \in Int /\ a - p * (q * c) \in Int
    BY <1>6, <1>7
  <2> QED BY <1>6, <1>8, <1>9, <2>1, SameOn
<1> QED BY <1>2, <1>3, <1>5, <1>10 DEF OfLength, a, c, p, w

Divides(f, num, den, n, steps, back) ==
    f = [d \in 0 .. steps |->
          IF d = steps THEN <<num, 0>> ELSE Lowered(f[d + 1][1], den, d, back, n)]

LEMMA DividesExists ==
    ASSUME NEW den, Divisor(den), NEW n \in Nat, NEW num \in OfLength(n), NEW steps \in Nat,
           steps + Len(den) <= n + 1, NEW back \in Field
    PROVE  \E f \in [0 .. steps -> OfLength(n) \X Field] : Divides(f, num, den, n, steps, back)
<1> DEFINE V == OfLength(n) \X Field
           g == [q \in (1 .. steps) \X V |-> Lowered(q[2][1], den, steps - q[1], back, n)]
<1>1. \A i \in 1 .. steps : \A v \in V : g[<<i, v>>] = Lowered(v[1], den, steps - i, back, n)
  OBVIOUS
<1>2. ASSUME NEW d \in 0 .. steps - 1, NEW v \in V
      PROVE  Lowered(v[1], den, d, back, n) \in V
  <2>1. Len(den) \in Nat
    BY DEF Divisor
  <2>2. d \in Nat /\ d + Len(den) <= n
    BY <2>1
  <2>3. v[1] \in OfLength(n)
    OBVIOUS
  <2> HIDE DEF V
  <2>4. Lowered(v[1], den, d, back, n) \in OfLength(n) \X Field
    BY <2>2, <2>3, 0 \in Int, LoweredIs
  <2> QED BY <2>4 DEF V
<1> HIDE DEF g
<1>3. Steps(g, V, steps)
  <2> SUFFICES ASSUME NEW i \in 1 .. steps, NEW v \in V PROVE g[<<i, v>>] \in V
    BY DEF Steps
  <2>1. steps - i \in 0 .. steps - 1
    OBVIOUS
  <2> HIDE DEF V
  <2> QED BY <1>1, <1>2, <2>1
<1>4. <<num, 0>> \in V
  BY ModulusIs
<1> HIDE DEF V
<1>5. PICK h \in [0 .. steps -> V] : Iterated(h, <<num, 0>>, g, steps)
  BY <1>3, <1>4, Iterates
<1> DEFINE f == [d \in 0 .. steps |-> h[steps - d]]
           e == [d \in 0 .. steps |->
                  IF d = steps THEN <<num, 0>> ELSE Lowered(f[d + 1][1], den, d, back, n)]
<1>6. \A d \in 0 .. steps : f[d] = h[steps - d] /\ f[d] \in V
  <2> SUFFICES ASSUME NEW d \in 0 .. steps PROVE f[d] = h[steps - d] /\ f[d] \in V
    OBVIOUS
  <2>1. steps - d \in 0 .. steps
    OBVIOUS
  <2> QED BY <2>1
<1>7. f \in [0 .. steps -> V]
  BY <1>6
<1> HIDE DEF f
<1>8. \A d \in 0 .. steps : f[d] = e[d]
  <2> SUFFICES ASSUME NEW d \in 0 .. steps
               PROVE  f[d] = IF d = steps THEN <<num, 0>>
                             ELSE Lowered(f[d + 1][1], den, d, back, n)
    OBVIOUS
  <2>1. CASE d = steps
    <3>1. steps - d = 0
      BY <2>1
    <3> QED BY <1>5, <1>6, <2>1, <3>1 DEF Iterated
  <2>2. CASE d # steps
    <3> DEFINE i == steps - d
    <3>1. i \in 1 .. steps /\ d + 1 \in 0 .. steps /\ steps - (d + 1) = i - 1 /\ steps - i = d
      BY <2>2
    <3>2. f[d] = h[i] /\ f[d + 1] = h[i - 1] /\ h[i - 1] \in V
      BY <1>6, <3>1
    <3> HIDE DEF i
    <3>3. h[i] = g[<<i, h[i - 1]>>]
      BY <1>5, <3>1 DEF Iterated
    <3>4. g[<<i, h[i - 1]>>] = Lowered(f[d + 1][1], den, d, back, n)
      BY <1>1, <3>1, <3>2
    <3> QED BY <2>2, <3>2, <3>3, <3>4
  <2> QED BY <2>1, <2>2
<1>9. e = [d \in 0 .. steps |-> e[d]] /\ f = [d \in 0 .. steps |-> f[d]]
  BY <1>7
<1>10. f = e
  <2> HIDE DEF e
  <2> QED BY <1>8, <1>9
<1>11. Divides(f, num, den, n, steps, back)
  BY <1>10 DEF Divides
<1> QED BY <1>7, <1>11 DEF V

LEMMA DividesIs ==
    ASSUME NEW den, Divisor(den), NEW n \in Nat, NEW num \in OfLength(n), NEW steps \in Nat,
           steps + Len(den) <= n + 1, NEW back \in Field,
           NEW f, Divides(f, num, den, n, steps, back), NEW x \in Int
    PROVE  LET t == [d \in 1 .. steps |-> f[d - 1][2]]
           IN  /\ t \in Seq(Field) /\ Len(t) = steps /\ f[0][1] \in OfLength(n)
               /\ Same(PolyValue(num, x),
                       PolyValue(t, x) * PolyValue(den, x) + PolyValue(f[0][1], x))
<1> DEFINE V == OfLength(n) \X Field
           t == [d \in 1 .. steps |-> f[d - 1][2]]
           v == PolyValue(den, x)
           P(d) == PowerOf(x, d)
           In(m) == f[steps - m] \in V
           S == {m \in Nat : m <= steps => In(m)}
<1>1. \A d \in 0 .. steps : f[d] = IF d = steps THEN <<num, 0>>
                                   ELSE Lowered(f[d + 1][1], den, d, back, n)
  BY DEF Divides
<1>2. Len(den) \in Nat /\ den \in Seq(Int) /\ num \in Seq(Int)
  BY FieldsAreNumbers DEF Divisor, OfLength
<1>3. ASSUME NEW d \in 0 .. steps - 1, f[d + 1] \in V
      PROVE  /\ f[d] \in V
             /\ Same(PolyValue(f[d][1], x), PolyValue(f[d + 1][1], x) - P(d) * (f[d][2] * v))
  <2>1. d \in Nat /\ d + Len(den) <= n /\ d \in 0 .. steps /\ d # steps
    BY <1>2
  <2>2. f[d] = Lowered(f[d + 1][1], den, d, back, n)
    BY <1>1, <2>1
  <2>3. f[d + 1][1] \in OfLength(n)
    BY <1>3
  <2> DEFINE a == f[d + 1][1]
             l == f[d]
  <2> HIDE DEF a, l, V, v, P
  <2>4. /\ l \in OfLength(n) \X Field
        /\ Same(PolyValue(l[1], x), PolyValue(a, x) - PowerOf(x, d) * (l[2] * PolyValue(den, x)))
    BY <2>1, <2>2, <2>3, LoweredIs DEF a, l
  <2> QED BY <2>4 DEF a, l, V, v, P
<1>4. f[steps] = <<num, 0>> /\ f[steps] \in V
  BY <1>1, ModulusIs
<1> HIDE DEF V
<1>5. 0 \in S
  <2>1. steps - 0 = steps
    OBVIOUS
  <2> QED BY <1>4, <2>1
<1>6. \A m \in Nat : m \in S => m + 1 \in S
  <2> SUFFICES ASSUME NEW m \in Nat, m \in S, m + 1 <= steps PROVE f[steps - (m + 1)] \in V
    OBVIOUS
  <2> DEFINE d == steps - (m + 1)
  <2>1. d \in 0 .. steps - 1 /\ d + 1 = steps - m /\ m <= steps
    OBVIOUS
  <2>2. f[d + 1] \in V
    BY <2>1
  <2> HIDE DEF d
  <2>3. f[d] \in V
    BY <1>3, <2>1, <2>2
  <2> QED BY <2>3 DEF d
<1>7. \A d \in 0 .. steps : f[d] \in V
  <2> SUFFICES ASSUME NEW d \in 0 .. steps PROVE f[d] \in V
    OBVIOUS
  <2>1. steps - d \in Nat /\ steps - d <= steps /\ steps - (steps - d) = d
    OBVIOUS
  <2>2. steps - d \in S
    <3> HIDE DEF S
    <3> QED BY <1>5, <1>6, <2>1, Reaches
  <2> QED BY <2>1, <2>2
<1>8. \A d \in 0 .. steps : f[d][1] \in OfLength(n) /\ f[d][2] \in Field
  BY <1>7 DEF V
<1>9. t \in Seq(Field) /\ Len(t) = steps /\ \A d \in 1 .. steps : t[d] = f[d - 1][2]
  <2>1. \A d \in 1 .. steps : d - 1 \in 0 .. steps
    OBVIOUS
  <2>2. t \in [1 .. steps -> Field]
    BY <1>8, <2>1
  <2>3. t \in Seq(Field) /\ Len(t) = steps
    <3> HIDE DEF t
    <3> QED BY <2>2, SequenceIs
  <2> QED BY <2>3
<1> HIDE DEF t, v
<1>10. Coefs(t) \in Coefficients /\ \A i \in Nat : Coefs(t)[i] = IF i < steps THEN t[i + 1] ELSE 0
  BY <1>9, FieldsAreNumbers, CoefsAre
<1> DEFINE c == Coefs(t)
           E(d) == Evaluation(c, x, d)
           L(d) == PolyValue(f[d][1], x)
           w == PolyValue(num, x)
           U == {m \in Nat : m <= steps => Same(w, (E(steps) - E(steps - m)) * v + L(steps - m))}
<1> HIDE DEF c
<1>11. /\ v \in Int /\ w \in Int
       /\ \A d \in Nat : P(d) \in Int /\ E(d) \in Int /\ E(d + 1) = E(d) + c[d] * P(d)
       /\ \A d \in 0 .. steps : L(d) \in Int
  <2>1. v \in Int /\ w \in Int
    BY <1>2, PolyValueIsNumber DEF v
  <2>2. \A d \in Nat : P(d) \in Int /\ E(d) \in Int /\ E(d + 1) = E(d) + c[d] * P(d)
    BY <1>10, EvaluationSteps, PowerStarts DEF c
  <2>3. \A d \in 0 .. steps : f[d][1] \in Seq(Int)
    BY <1>8, FieldsAreNumbers DEF OfLength
  <2> QED BY <2>1, <2>2, <2>3, PolyValueIsNumber
<1>12. ASSUME NEW d \in 0 .. steps - 1
       PROVE  c[d] \in Int /\ Same(L(d), L(d + 1) - P(d) * (c[d] * v))
  <2>1. d + 1 \in 0 .. steps /\ d + 1 \in 1 .. steps /\ (d + 1) - 1 = d /\ d \in Nat /\ d < steps
    OBVIOUS
  <2>2. c[d] = f[d][2]
    BY <1>9, <1>10, <2>1 DEF c
  <2>3. c[d] \in Int
    BY <1>10, <2>1 DEF c, Coefficients
  <2>4. f[d + 1] \in V
    BY <1>7, <2>1
  <2> QED BY <1>3, <2>2, <2>3, <2>4
<1> HIDE DEF P, E, L, w
<1>13. 0 \in U
  <2>1. steps - 0 = steps /\ L(steps) = w
    BY <1>4 DEF L, w
  <2>2. (E(steps) - E(steps)) * v + w = w
    <3>1. E(steps) \in Int
      BY <1>11
    <3>2. E(steps) - E(steps) = 0
      BY <3>1
    <3>3. 0 * v + w = w
      BY <1>11
    <3> QED BY <3>2, <3>3
  <2>3. Same(w, w)
    BY <1>11, SameItself
  <2> QED BY <2>1, <2>2, <2>3
<1>14. \A m \in Nat : m \in U => m + 1 \in U
  <2> SUFFICES ASSUME NEW m \in Nat, m \in U, m + 1 <= steps
               PROVE  Same(w, (E(steps) - E(steps - (m + 1))) * v + L(steps - (m + 1)))
    OBVIOUS
  <2> DEFINE d == steps - (m + 1)
             A == (E(steps) - E(d + 1)) * v
             B == (E(steps) - E(d)) * v
             q == P(d) * (c[d] * v)
  <2>1. d \in 0 .. steps - 1 /\ d + 1 = steps - m /\ m <= steps /\ d \in Nat /\ d + 1 \in 0 .. steps
        /\ d \in 0 .. steps /\ d + 1 \in Nat
    OBVIOUS
  <2>2. Same(w, A + L(d + 1))
    BY <2>1
  <2> HIDE DEF d
  <2>3. c[d] \in Int /\ Same(L(d), L(d + 1) - q)
    BY <1>12, <2>1
  <2>4. /\ P(d) \in Int /\ E(d) \in Int /\ E(d + 1) \in Int /\ E(steps) \in Int
        /\ L(d) \in Int /\ L(d + 1) \in Int /\ E(d + 1) = E(d) + c[d] * P(d) /\ v \in Int /\ w \in Int
    BY <1>11, <2>1
  <2>5. q \in Int /\ A \in Int /\ B \in Int
    <3>1. c[d] * v \in Int
      BY <2>3, <2>4
    <3>2. q \in Int
      BY <2>4, <3>1
    <3>3. E(steps) - E(d + 1) \in Int /\ E(steps) - E(d) \in Int
      BY <2>4
    <3>4. A \in Int /\ B \in Int
      BY <2>4, <3>3
    <3> QED BY <3>2, <3>4
  <2>6. B = A + q
    <3> DEFINE r == c[d]
               p == P(d)
               a == E(d)
               z == E(steps)
    <3>1. r \in Int /\ p \in Int /\ a \in Int /\ z \in Int
      BY <2>3, <2>4
    <3>2. A = (z - (a + r * p)) * v /\ B = (z - a) * v /\ q = p * (r * v)
      BY <2>4
    <3> HIDE DEF r, p, a, z, A, B, q
    <3>3. (z - (a + r * p)) * v = (z - a) * v - (r * p) * v /\ (r * p) * v = p * (r * v)
      BY <2>4, <3>1
    <3> QED BY <2>5, <3>2, <3>3
  <2> DEFINE y == L(d + 1)
             z == L(d)
  <2>7. y \in Int /\ z \in Int /\ Same(z, y - q) /\ Same(w, A + y)
    BY <2>2, <2>3, <2>4
  <2> HIDE DEF q, A, B, y, z
  <2>8. /\ y - q \in Int /\ B + (y - q) = A + y
        /\ A + y \in Int /\ B + z \in Int /\ w \in Int
    BY <2>4, <2>5, <2>6, <2>7
  <2>9. Same(B, B)
    BY <2>5, SameItself
  <2>10. Same(B + z, B + (y - q))
    BY <2>5, <2>7, <2>8, <2>9, SameSum
  <2>11. Same(A + y, B + z)
    BY <2>8, <2>10, SameBack
  <2>12. Same(w, B + z)
    BY <2>7, <2>8, <2>11, SameOn
  <2> QED BY <2>12 DEF d, B, z
<1>15. Same(w, (E(steps) - E(0)) * v + L(0))
  <2>1. steps \in U
    <3> HIDE DEF U
    <3> QED BY <1>13, <1>14, Reaches
  <2>2. steps - steps = 0
    OBVIOUS
  <2> QED BY <2>1, <2>2
<1>16. E(0) = 0 /\ E(steps) = PolyValue(t, x)
  BY <1>9, <1>10, EvaluationSteps DEF E, c, PolyValue
<1>17. (E(steps) - 0) * v = E(steps) * v
  BY <1>11
<1> QED BY <1>8, <1>9, <1>15, <1>16, <1>17 DEF t, v, w, L

LEMMA LeftIsDivides ==
    ASSUME NEW u, NEW num, NEW den, NEW steps, NEW back
    PROVE  Left(u, num, den, steps, back) <=> Divides(u, num, den, Len(num), steps, back)
BY DEF Left, Divides, Lowered, Multiple

\* The values of a quotient and a remainder are those of a division, at every
\* point: divide_with_q_and_r of the two operands' polynomials.
THEOREM DivisionHolds ==
    ASSUME NEW num \in Seq(Field), NEW den, Divisor(den), NEW x \in Int
    PROVE  LET qr == DivideWithQAndR(num, den)
           IN  /\ qr[1] \in Seq(Field) /\ qr[2] \in Seq(Field)
               /\ Len(qr[1]) = 0 \/ Len(qr[1]) + Len(den) <= Len(num) + 1
               /\ Same(PolyValue(num, x),
                       PolyValue(qr[1], x) * PolyValue(den, x) + PolyValue(qr[2], x))
<1> DEFINE n == Len(num)
           steps == Len(num) - Len(den) + 1
           back  == FieldInverse(den[Len(den)])
           f == CHOOSE u : Left(u, num, den, steps, back)
           t == [d \in 1 .. steps |-> f[d - 1][2]]
           qr == DivideWithQAndR(num, den)
           v == PolyValue(den, x)
           w == PolyValue(num, x)
           e == <<>>
<1>1. qr = CASE Trimmed(num) = <<>> -> << <<>>, <<>> >>
             [] Trimmed(num) # <<>> /\ Len(num) < Len(den) -> << <<>>, num >>
             [] OTHER -> << Trimmed(t), Trimmed(f[0][1]) >>
  BY Zenon DEF DivideWithQAndR, Left
<1>2. n \in Nat /\ Len(den) \in Nat /\ Len(den) >= 1 /\ num \in OfLength(n)
  BY DEF Divisor, OfLength
<1>3. v \in Int /\ w \in Int /\ e \in Seq(Field) /\ Len(e) = 0
  <2>1. v \in Int /\ w \in Int
    BY FieldsAreNumbers, PolyValueIsNumber DEF Divisor
  <2> QED BY <2>1
<1>4. PolyValue(e, x) = 0
  <2>1. e \in Seq(Int)
    OBVIOUS
  <2>2. PolyValue(e, x) = Evaluation(Coefs(e), x, 0)
    BY <1>3 DEF PolyValue
  <2> HIDE DEF e
  <2> QED BY <2>1, <2>2, CoefsAre, EvaluationSteps
<1>5. 0 * v = 0 /\ 0 + w = w /\ 0 + 0 = 0 /\ Same(w, w)
  BY <1>3, SameItself
<1>6. CASE Trimmed(num) = e
  <2>1. qr[1] = e /\ qr[2] = e
    <3> HIDE DEF qr, t, f
    <3>1. qr = << <<>>, <<>> >>
      BY <1>1, <1>6
    <3> QED BY <3>1
  <2>2. w = 0
    BY <1>4, <1>6, TrimmedValue
  <2> HIDE DEF qr, e, v, w
  <2>3. Same(w, PolyValue(qr[1], x) * v + PolyValue(qr[2], x))
    BY <1>4, <1>5, <2>1, <2>2
  <2> QED BY <1>3, <2>1, <2>3 DEF qr, v, w
<1>7. CASE Trimmed(num) # e /\ Len(num) < Len(den)
  <2>1. qr[1] = e /\ qr[2] = num
    BY <1>1, <1>7
  <2> HIDE DEF qr, e, v
  <2>3. Same(w, PolyValue(qr[1], x) * v + PolyValue(qr[2], x))
    BY <1>4, <1>5, <2>1
  <2> QED BY <1>3, <2>1, <2>3 DEF qr, v, w
<1>8. CASE Trimmed(num) # e /\ ~ (Len(num) < Len(den))
  <2>1. qr[1] = Trimmed(t) /\ qr[2] = Trimmed(f[0][1])
    BY <1>1, <1>8
  <2>2. steps \in Nat /\ steps + Len(den) <= n + 1
    BY <1>2, <1>8
  <2>3. back \in Field
    <3>1. den[Len(den)] \in Field /\ den[Len(den)] # 0
      BY <1>2 DEF Divisor
    <3> QED BY <3>1, FieldInverseIs
  <2> HIDE DEF qr, steps, back
  <2>4. Divides(f, num, den, n, steps, back)
    <3> HIDE DEF n
    <3>1. \E h : Divides(h, num, den, n, steps, back)
      BY <1>2, <2>2, <2>3, DividesExists
    <3>2. \E h : Left(h, num, den, steps, back)
      BY <3>1, LeftIsDivides DEF n
    <3>3. Left(f, num, den, steps, back)
      BY <3>2, Zenon
    <3> HIDE DEF f
    <3> QED BY <3>3, LeftIsDivides DEF n
  <2> HIDE DEF f, n
  <2>5. /\ t \in Seq(Field) /\ Len(t) = steps /\ f[0][1] \in OfLength(n)
        /\ Same(w, PolyValue(t, x) * v + PolyValue(f[0][1], x))
    BY <1>2, <2>2, <2>3, <2>4, DividesIs
  <2> HIDE DEF t, v, w
  <2>6. f[0][1] \in Seq(Field)
    BY <2>5 DEF OfLength
  <2>7. /\ qr[1] \in Seq(Field) /\ qr[2] \in Seq(Field) /\ Len(qr[1]) \in 0 .. steps
    BY <2>1, <2>5, <2>6, TrimmedIs
  <2>8. PolyValue(qr[1], x) = PolyValue(t, x) /\ PolyValue(qr[2], x) = PolyValue(f[0][1], x)
    BY <2>1, <2>5, <2>6, TrimmedValue
  <2>9. Len(qr[1]) + Len(den) <= n + 1
    BY <1>2, <2>2, <2>7
  <2>10. Same(w, PolyValue(qr[1], x) * v + PolyValue(qr[2], x))
    BY <2>5, <2>8
  <2> QED BY <2>7, <2>9, <2>10 DEF qr, v, w, n
<1> QED BY <1>6, <1>7, <1>8

\* Divided without a remainder, a polynomial is a product.
LEMMA DividedExactly ==
    ASSUME NEW num \in Seq(Field), NEW den, Divisor(den), NEW x \in Int,
           DivideWithQAndR(num, den)[2] = <<>>
    PROVE  Same(PolyValue(num, x), PolyValue(DivideWithQAndR(num, den)[1], x) * PolyValue(den, x))
<1> DEFINE q == DivideWithQAndR(num, den)[1]
           v == PolyValue(den, x)
           e == <<>>
<1>1. q \in Seq(Field) /\ Same(PolyValue(num, x), PolyValue(q, x) * v + PolyValue(e, x))
  BY DivisionHolds
<1>2. PolyValue(e, x) = 0
  <2>1. e \in Seq(Int) /\ Len(e) = 0
    OBVIOUS
  <2>2. PolyValue(e, x) = Evaluation(Coefs(e), x, 0)
    BY <2>1 DEF PolyValue
  <2> HIDE DEF e
  <2> QED BY <2>1, <2>2, CoefsAre, EvaluationSteps
<1>3. v \in Int /\ PolyValue(q, x) \in Int
  BY <1>1, FieldsAreNumbers, PolyValueIsNumber DEF Divisor
<1> HIDE DEF q, v, e
<1>4. PolyValue(q, x) * v + 0 = PolyValue(q, x) * v
  BY <1>3
<1> QED BY <1>1, <1>2, <1>4 DEF q, v

-----------------------------------------------------------------------------
(* A polynomial and what is computed at a point in its place.              *)

\* p has at most k coefficients, and the value v at x.
Stands(p, x, v, k) ==
    /\ p \in Seq(Field) /\ Len(p) \in 1 .. k /\ v \in Int
    /\ Same(PolyValue(p, x), v)

LEMMA StandsAs ==
    ASSUME NEW x \in Int, NEW p, NEW v, NEW k \in Nat, NEW w \in Int, NEW l \in Nat, k <= l,
           Stands(p, x, v, k), Same(v, w)
    PROVE  Stands(p, x, w, l)
<1>1. p \in Seq(Field) /\ Len(p) \in 1 .. l /\ v \in Int /\ Same(PolyValue(p, x), v)
  BY DEF Stands
<1>2. PolyValue(p, x) \in Int
  BY <1>1, FieldsAreNumbers, PolyValueIsNumber
<1>3. Same(PolyValue(p, x), w)
  BY <1>1, <1>2, SameOn
<1> QED BY <1>1, <1>3 DEF Stands

LEMMA LongerStands ==
    ASSUME NEW x \in Int, NEW p, NEW v, NEW k \in Nat, NEW l \in Nat, k <= l, Stands(p, x, v, k)
    PROVE  Stands(p, x, v, l)
<1>1. v \in Int /\ Same(v, v)
  BY SameItself DEF Stands
<1> QED BY <1>1, StandsAs

LEMMA ReducedStands ==
    ASSUME NEW x \in Int, NEW p, NEW v, NEW k \in Nat, Stands(p, x, v, k)
    PROVE  Stands(p, x, v % Modulus, k)
<1>1. v \in Int
  BY DEF Stands
<1>2. v % Modulus \in Field /\ Same(v % Modulus, v)
  BY <1>1, Remainder
<1>3. v % Modulus \in Int
  BY <1>2, InField
<1>4. Same(v, v % Modulus)
  BY <1>1, <1>2, <1>3, SameBack
<1> QED BY <1>3, <1>4, StandsAs

LEMMA ProductStands ==
    ASSUME NEW x \in Int, NEW k \in Nat, NEW l \in Nat, NEW p, NEW v, Stands(p, x, v, k),
           NEW q, NEW w, Stands(q, x, w, l)
    PROVE  Stands(PolyMul(p, q), x, v * w, k + l - 1)
<1> DEFINE a == PolyValue(p, x)
           b == PolyValue(q, x)
           c == PolyValue(PolyMul(p, q), x)
<1>1. /\ p \in Seq(Int) /\ Len(p) \in 1 .. k /\ v \in Int /\ Same(a, v)
      /\ q \in Seq(Int) /\ Len(q) \in 1 .. l /\ w \in Int /\ Same(b, w)
  BY FieldsAreNumbers DEF Stands
<1>2. p # <<>> /\ q # <<>>
  BY <1>1
<1>3. /\ PolyMul(p, q) \in Seq(Field) /\ Len(PolyMul(p, q)) = Len(p) + Len(q) - 1 /\ Same(c, a * b)
  BY <1>1, <1>2, PolyMulValue
<1>4. Len(PolyMul(p, q)) \in 1 .. k + l - 1
  BY <1>1, <1>3
<1>5. a \in Int /\ b \in Int /\ c \in Int
  BY <1>1, <1>3, FieldsAreNumbers, PolyValueIsNumber
<1> HIDE DEF a, b, c
<1>6. Same(a * b, v * w) /\ a * b \in Int /\ v * w \in Int
  BY <1>1, <1>5, SameProduct
<1>7. Same(c, v * w)
  BY <1>3, <1>5, <1>6, SameOn
<1> QED BY <1>3, <1>4, <1>6, <1>7 DEF Stands, c

LEMMA ConstantStands ==
    ASSUME NEW x \in Int, NEW c \in Field, NEW k \in Nat \ {0}
    PROVE  Stands(<<c>>, x, c, k)
<1> DEFINE p == <<c>>
<1>1. p \in Seq(Field) /\ Len(p) = 1 /\ p[1] = c
  OBVIOUS
<1>2. c \in Int
  BY InField
<1> HIDE DEF p
<1>3. p \in Seq(Int)
  BY <1>1, FieldsAreNumbers
<1>4. Coefs(p) \in Coefficients /\ Coefs(p)[0] = c
  <2>1. 0 \in Nat /\ 0 < 1 /\ 0 + 1 = 1
    OBVIOUS
  <2> QED BY <1>1, <1>3, <2>1, CoefsAre
<1>5. PolyValue(p, x) = Evaluation(Coefs(p), x, 0 + 1)
  BY <1>1 DEF PolyValue
<1>6. Evaluation(Coefs(p), x, 0) = 0 /\ PowerOf(x, 0) = 1
      /\ Evaluation(Coefs(p), x, 0 + 1) = Evaluation(Coefs(p), x, 0) + Coefs(p)[0] * PowerOf(x, 0)
  <2>1. PowerOf(x, 0) = 1
    BY PowerStarts
  <2>2. 0 \in Nat
    OBVIOUS
  <2> QED BY <1>4, <2>1, <2>2, EvaluationSteps
<1>7. 0 + c * 1 = c
  BY <1>2
<1>8. PolyValue(p, x) = c
  BY <1>4, <1>5, <1>6, <1>7
<1> QED BY <1>1, <1>2, <1>8, SameItself DEF Stands, p

LEMMA FirstOf ==
    ASSUME NEW S, NEW x \in Seq(S), NEW l \in Nat, l <= Len(x)
    PROVE  /\ SubSeq(x, 1, l) \in Seq(S) /\ Len(SubSeq(x, 1, l)) = l
           /\ \A i \in 1 .. l : SubSeq(x, 1, l)[i] = x[i]
OBVIOUS

-----------------------------------------------------------------------------
(* Roots of unity.                                                         *)

LEMMA SameFactor ==
    ASSUME NEW a \in Int, NEW b \in Int, Same(a * b, 0), ~ Same(a, 0)
    PROVE  Same(b, 0)
<1> DEFINE c == a % Modulus
<1>1. c \in Field /\ c \in Int /\ Same(c, a)
  BY Remainder, InField
<1> HIDE DEF c
<1>2. c # 0
  <2> SUFFICES ASSUME c = 0 PROVE FALSE
    OBVIOUS
  <2> QED BY <1>1, SameBack
<1>3. Same(c * b, a * b) /\ c * b \in Int /\ a * b \in Int
  <2>1. Same(b, b)
    BY SameItself
  <2>2. c * b \in Int /\ a * b \in Int
    BY <1>1
  <2> QED BY <1>1, <2>1, <2>2, SameProduct
<1>4. Same(c * b, c * 0)
  <2>1. Same(c * b, 0)
    BY <1>3, 0 \in Int, SameOn
  <2> QED BY <1>1, <2>1
<1> QED BY <1>1, <1>2, <1>4, 0 \in Int, Cancel

LEMMA PowersOfPowers ==
    ASSUME NEW z \in Int, NEW k \in Nat, NEW m \in Nat
    PROVE  PowerOf(PowerOf(z, k), m) = PowerOf(z, k * m)
<1> DEFINE y == PowerOf(z, k)
           S == {i \in Nat : PowerOf(y, i) = PowerOf(z, k * i)}
<1>1. y \in Int
  BY PowerStarts
<1>2. 0 \in S
  <2>1. k * 0 = 0
    OBVIOUS
  <2> HIDE DEF y
  <2> QED BY <1>1, <2>1, PowerStarts
<1>3. \A i \in Nat : i \in S => i + 1 \in S
  <2> SUFFICES ASSUME NEW i \in Nat, PowerOf(y, i) = PowerOf(z, k * i)
               PROVE  PowerOf(y, i + 1) = PowerOf(z, k * (i + 1))
    OBVIOUS
  <2> DEFINE l == k * i
  <2>1. l \in Nat /\ k * (i + 1) = l + k
    OBVIOUS
  <2> HIDE DEF l
  <2>2. PowerOf(z, l + k) = PowerOf(z, l) * PowerOf(z, k)
    BY <2>1, PowersAdd
  <2>3. PowerOf(y, i + 1) = PowerOf(y, i) * y
    <3> HIDE DEF y
    <3> QED BY <1>1, PowerStarts
  <2> QED BY <2>1, <2>2, <2>3 DEF l
<1>4. \A i \in Nat : i \in S
  <2> HIDE DEF S
  <2> QED BY <1>2, <1>3, Reaches
<1> QED BY <1>4

\* The powers of y below y^n are different, y^n is one, and z is its inverse.
Root(y, z, n) ==
    /\ y \in Int /\ z \in Int /\ n \in Nat \ {0} /\ n < Modulus
    /\ Same(z * y, 1) /\ Same(PowerOf(y, n), 1)
    /\ \A d \in 1 .. n-1 : ~ Same(PowerOf(y, d), 1)

LEMMA OneToAny ==
    ASSUME NEW k \in Nat
    PROVE  PowerOf(1, k) = 1
<1> DEFINE S == {i \in Nat : PowerOf(1, i) = 1}
<1>1. 0 \in S
  BY 1 \in Int, PowerStarts
<1>2. \A i \in Nat : i \in S => i + 1 \in S
  <2> SUFFICES ASSUME NEW i \in Nat, PowerOf(1, i) = 1 PROVE PowerOf(1, i + 1) = 1
    OBVIOUS
  <2>1. PowerOf(1, i + 1) = PowerOf(1, i) * 1
    BY 1 \in Int, PowerStarts
  <2> QED BY <2>1
<1>3. \A i \in Nat : i \in S
  <2> HIDE DEF S
  <2> QED BY <1>1, <1>2, Reaches
<1> QED BY <1>3

LEMMA PowersCancel ==
    ASSUME NEW y \in Int, NEW z \in Int, Same(z * y, 1), NEW k \in Nat
    PROVE  /\ PowerOf(z, k) \in Int /\ PowerOf(y, k) \in Int
           /\ Same(PowerOf(z, k) * PowerOf(y, k), 1)
<1>1. PowerOf(z, k) \in Int /\ PowerOf(y, k) \in Int
  BY PowerStarts
<1>2. PowerOf(z * y, k) = PowerOf(z, k) * PowerOf(y, k)
  BY PowersMultiply
<1>3. Same(PowerOf(z * y, k), PowerOf(1, k))
  <2>1. z * y \in Int /\ 1 \in Int
    OBVIOUS
  <2> QED BY <2>1, PowersAgree
<1> QED BY <1>1, <1>2, <1>3, OneToAny

\* The inverse of a root is a root.
LEMMA RootBack ==
    ASSUME NEW y, NEW z, NEW n, Root(y, z, n)
    PROVE  Root(z, y, n)
<1> USE DEF Root
<1>1. ASSUME NEW d \in Nat
      PROVE  Same(PowerOf(z, d), 1) <=> Same(PowerOf(y, d), 1)
  <2> DEFINE a == PowerOf(z, d)
             b == PowerOf(y, d)
  <2>1. a \in Int /\ b \in Int /\ Same(a * b, 1)
    BY PowersCancel
  <2> HIDE DEF a, b
  <2>2. a * b \in Int /\ a * 1 = a /\ 1 * b = b /\ Same(1, a * b)
    BY <2>1, SameBack, 1 \in Int
  <2>3. ASSUME Same(a, 1) PROVE Same(b, 1)
    <3>1. Same(a * b, 1 * b)
      BY <2>1, <2>3, SameItself, SameProduct, 1 \in Int
    <3>2. Same(1, b)
      BY <2>1, <2>2, <3>1, SameOn, 1 \in Int
    <3> QED BY <2>1, <3>2, SameBack, 1 \in Int
  <2>4. ASSUME Same(b, 1) PROVE Same(a, 1)
    <3>1. Same(a * b, a * 1)
      BY <2>1, <2>4, SameItself, SameProduct, 1 \in Int
    <3>2. Same(1, a)
      BY <2>1, <2>2, <3>1, SameOn, 1 \in Int
    <3> QED BY <2>1, <3>2, SameBack, 1 \in Int
  <2> QED BY <2>3, <2>4 DEF a, b
<1>2. Same(y * z, 1)
  <2>1. y * z = z * y
    OBVIOUS
  <2> QED BY <2>1
<1>3. Same(PowerOf(z, n), 1)
  BY <1>1
<1>4. \A d \in 1 .. n-1 : ~ Same(PowerOf(z, d), 1)
  BY <1>1
<1> QED BY <1>2, <1>3, <1>4

\* The sum of the powers of a power of the root.
LEMMA Orthogonal ==
    ASSUME NEW y, NEW z, NEW n, Root(y, z, n), NEW i \in 0 .. n-1, NEW j \in 0 .. n-1
    PROVE  LET s == Evaluation(AllOnes, PowerOf(z, i) * PowerOf(y, j), n)
           IN  s \in Int /\ Same(s, IF i = j THEN n ELSE 0)
<1> DEFINE u == PowerOf(z, i) * PowerOf(y, j)
           s == Evaluation(AllOnes, u, n)
<1>0. /\ y \in Int /\ z \in Int /\ n \in Nat \ {0} /\ n \in Int /\ Same(z * y, 1)
      /\ Same(PowerOf(y, n), 1) /\ i \in Nat /\ j \in Nat
  BY DEF Root
<1>1. PowerOf(z, i) \in Int /\ PowerOf(y, j) \in Int /\ u \in Int
  <2>1. PowerOf(z, i) \in Int /\ PowerOf(y, j) \in Int
    BY <1>0, PowerStarts
  <2> QED BY <2>1
<1>2. s \in Int /\ (u - 1) * s = PowerOf(u, n) - 1
  <2> HIDE DEF u
  <2> QED BY <1>0, <1>1, GeometricSum
<1>3. CASE i = j
  <2>1. Same(u, 1)
    BY <1>0, <1>3, PowersCancel
  <2> HIDE DEF u
  <2>2. AllOnes \in Coefficients /\ \A k \in 0 .. n-1 : AllOnes[k] = 1
    BY DEF AllOnes, Coefficients
  <2>3. \A k \in 0 .. n-1 : Same(AllOnes[k], AllOnes[k] * PowerOf(u, k))
    <3> SUFFICES ASSUME NEW k \in 0 .. n-1 PROVE Same(1, 1 * PowerOf(u, k))
      BY <2>2
    <3>0. k \in Nat
      BY <1>0
    <3>1. k \in Nat /\ PowerOf(u, k) \in Int /\ Same(PowerOf(u, k), PowerOf(1, k))
      BY <1>1, <2>1, <3>0, PowerStarts, PowersAgree, 1 \in Int
    <3>2. Same(1, PowerOf(u, k))
      BY <3>1, OneToAny, SameBack, 1 \in Int
    <3>3. 1 * PowerOf(u, k) = PowerOf(u, k)
      BY <3>1
    <3> QED BY <3>2, <3>3
  <2>4. Same(Evaluation(AllOnes, 1, n), Evaluation(AllOnes, u * 1, n))
    BY <1>0, <1>1, <2>2, <2>3, EvaluationScales, 1 \in Int
  <2>5. u * 1 = u /\ Evaluation(AllOnes, 1, n) = n
    BY <1>0, <1>1, GeometricSum, 1 \in Int
  <2>6. Same(s, n)
    BY <1>0, <1>2, <2>4, <2>5, SameBack
  <2> QED BY <1>2, <1>3, <2>6 DEF u
<1>4. CASE i # j
  <2>1. ~ Same(u, 1)
    <3> SUFFICES ASSUME Same(u, 1) PROVE FALSE
      OBVIOUS
    <3>1. CASE i < j
      <4> DEFINE d == j - i
                 a == PowerOf(z, i)
                 b == PowerOf(y, i)
                 c == PowerOf(y, d)
      <4>1. d \in Nat /\ d \in 1 .. n-1 /\ j = i + d
        BY <1>0, <3>1
      <4>2. /\ PowerOf(y, j) = b * c /\ a \in Int /\ b \in Int /\ c \in Int /\ Same(a * b, 1)
            /\ ~ Same(c, 1)
        <5> HIDE DEF d
        <5>1. PowerOf(y, i + d) = PowerOf(y, i) * PowerOf(y, d)
          BY <1>0, <4>1, PowersAdd
        <5>2. PowerOf(y, d) \in Int
          BY <1>0, <4>1, PowerStarts
        <5>3. ~ Same(PowerOf(y, d), 1)
          BY <4>1 DEF Root
        <5> QED BY <1>0, <4>1, <5>1, <5>2, <5>3, PowersCancel
      <4>3. u = a * (b * c)
        BY <4>2
      <4> HIDE DEF a, b, c, d, u
      <4>4. a * (b * c) = (a * b) * c /\ (a * b) * c \in Int /\ a * b \in Int /\ 1 * c = c
        BY <4>2
      <4>5. Same((a * b) * c, 1 * c)
        BY <4>2, <4>4, SameItself, SameProduct, 1 \in Int
      <4>6. Same(c, u)
        BY <4>2, <4>3, <4>4, <4>5, SameBack, 1 \in Int
      <4> QED BY <1>1, <4>2, <4>6, SameOn, 1 \in Int
    <3>2. CASE j < i
      <4> DEFINE d == i - j
                 a == PowerOf(z, j)
                 b == PowerOf(y, j)
                 c == PowerOf(z, d)
      <4>1. d \in Nat /\ d \in 1 .. n-1 /\ i = j + d
        BY <1>0, <3>2
      <4>2. /\ PowerOf(z, i) = a * c /\ a \in Int /\ b \in Int /\ c \in Int /\ Same(a * b, 1)
            /\ ~ Same(c, 1)
        <5> HIDE DEF d
        <5>1. PowerOf(z, j + d) = PowerOf(z, j) * PowerOf(z, d)
          BY <1>0, <4>1, PowersAdd
        <5>2. PowerOf(z, d) \in Int
          BY <1>0, <4>1, PowerStarts
        <5>3. ~ Same(PowerOf(z, d), 1)
          BY <4>1, RootBack DEF Root
        <5> QED BY <1>0, <4>1, <5>1, <5>2, <5>3, PowersCancel
      <4>3. u = (a * c) * b
        BY <4>2
      <4> HIDE DEF a, b, c, d, u
      <4>4. (a * c) * b = (a * b) * c /\ (a * b) * c \in Int /\ a * b \in Int /\ 1 * c = c
        BY <4>2
      <4>5. Same((a * b) * c, 1 * c)
        BY <4>2, <4>4, SameItself, SameProduct, 1 \in Int
      <4>6. Same(c, u)
        BY <4>2, <4>3, <4>4, <4>5, SameBack, 1 \in Int
      <4> QED BY <1>1, <4>2, <4>6, SameOn, 1 \in Int
    <3> QED BY <1>0, <1>4, <3>1, <3>2
  <2>2. Same(PowerOf(u, n), 1)
    <3> DEFINE a == PowerOf(z, i)
               b == PowerOf(y, j)
    <3>1. PowerOf(u, n) = PowerOf(a, n) * PowerOf(b, n)
      BY <1>0, <1>1, PowersMultiply
    <3>2. Same(PowerOf(a, n), 1)
      <4>1. PowerOf(a, n) = PowerOf(z, n * i)
        <5>1. PowerOf(a, n) = PowerOf(z, i * n)
          BY <1>0, PowersOfPowers
        <5>2. i * n = n * i
          BY <1>0
        <5> QED BY <5>1, <5>2
      <4>2. PowerOf(z, n * i) = PowerOf(PowerOf(z, n), i)
        BY <1>0, PowersOfPowers
      <4>3. Same(PowerOf(z, n), 1) /\ PowerOf(z, n) \in Int
        BY <1>0, RootBack, PowerStarts DEF Root
      <4>4. Same(PowerOf(PowerOf(z, n), i), PowerOf(1, i))
        BY <1>0, <4>3, PowersAgree, 1 \in Int
      <4> QED BY <1>0, <4>1, <4>2, <4>4, OneToAny
    <3>3. Same(PowerOf(b, n), 1)
      <4>1. PowerOf(b, n) = PowerOf(y, n * j)
        <5>1. PowerOf(b, n) = PowerOf(y, j * n)
          BY <1>0, PowersOfPowers
        <5>2. j * n = n * j
          BY <1>0
        <5> QED BY <5>1, <5>2
      <4>2. PowerOf(y, n * j) = PowerOf(PowerOf(y, n), j)
        BY <1>0, PowersOfPowers
      <4>3. Same(PowerOf(y, n), 1) /\ PowerOf(y, n) \in Int
        BY <1>0, PowerStarts
      <4>4. Same(PowerOf(PowerOf(y, n), j), PowerOf(1, j))
        BY <1>0, <4>3, PowersAgree, 1 \in Int
      <4> QED BY <1>0, <4>1, <4>2, <4>4, OneToAny
    <3>4. PowerOf(a, n) \in Int /\ PowerOf(b, n) \in Int
      BY <1>0, <1>1, PowerStarts
    <3> HIDE DEF a, b, u
    <3>5. Same(PowerOf(a, n) * PowerOf(b, n), 1 * 1)
      BY <3>2, <3>3, <3>4, SameProduct, 1 \in Int
    <3> QED BY <3>1, <3>5
  <2>3. PowerOf(u, n) \in Int
    BY <1>0, <1>1, PowerStarts
  <2> HIDE DEF u
  <2>4. Same((u - 1) * s, 0)
    <3> DEFINE v == PowerOf(u, n)
    <3>1. v \in Int /\ Same(v, 1)
      BY <2>2, <2>3
    <3> HIDE DEF v
    <3>2. Same(v - 1, 1 - 1)
      BY <3>1, SameItself, SameDifference, 1 \in Int
    <3> QED BY <1>2, <3>2 DEF v
  <2>5. ~ Same(u - 1, 0)
    <3> SUFFICES ASSUME Same(u - 1, 0) PROVE FALSE
      OBVIOUS
    <3>1. u - 1 \in Int /\ (u - 1) + 1 = u /\ 0 + 1 = 1
      BY <1>1
    <3>2. Same((u - 1) + 1, 0 + 1)
      BY <3>1, SameItself, SameSum, 0 \in Int, 1 \in Int
    <3> QED BY <2>1, <3>1, <3>2
  <2>6. Same(s, 0)
    <3>1. u - 1 \in Int
      BY <1>1
    <3> HIDE DEF s
    <3> QED BY <1>2, <2>4, <2>5, <3>1, SameFactor
  <2> QED BY <1>2, <1>4, <2>6 DEF u
<1> QED BY <1>3, <1>4

NoCoefficients == [i \in Nat |-> 0]

LEMMA NothingIsZero ==
    ASSUME NEW c \in Coefficients, NEW x \in Int, NEW k \in Nat, \A i \in 0 .. k-1 : Same(c[i], 0)
    PROVE  Same(Evaluation(c, x, k), 0)
<1>1. NoCoefficients \in Coefficients /\ \A i \in 0 .. k-1 : NoCoefficients[i] = 0
  BY DEF NoCoefficients, Coefficients
<1>2. Evaluation(NoCoefficients, x, k) = 0
  <2>1. Evaluation(NoCoefficients, x, k) = Evaluation(NoCoefficients, x, 0)
    BY <1>1, 0 \in Nat, 0 <= k, EvaluationOfMore
  <2> QED BY <1>1, <2>1, 0 \in Nat, EvaluationSteps
<1>3. \A i \in 0 .. k-1 : Same(c[i], 0 * NoCoefficients[i] + 0 * NoCoefficients[i])
  BY <1>1
<1>4. Same(Evaluation(c, x, k), 0 * Evaluation(NoCoefficients, x, k) + 0 * Evaluation(NoCoefficients, x, k))
  BY <1>1, <1>3, 0 \in Int, EvaluationCombines
<1> QED BY <1>2, <1>4

\* The transform over the powers of z, and back over those of y.
LEMMA TransformedBack ==
    ASSUME NEW y, NEW z, NEW n, Root(y, z, n), NEW f \in Coefficients, NEW g \in Coefficients,
           \A k \in 0 .. n-1 : Same(g[k], Evaluation(f, PowerOf(z, k), n)), NEW j \in 0 .. n-1
    PROVE  Same(Evaluation(g, PowerOf(y, j), n), n * f[j])
<1> DEFINE x == PowerOf(y, j)
           G(m) == [k \in Nat |-> Evaluation(f, PowerOf(z, k), m)]
           Q(m) == Same(Evaluation(G(m), x, n), IF j < m THEN n * f[j] ELSE 0)
           S == {m \in Nat : m <= n => Q(m)}
<1>0. y \in Int /\ z \in Int /\ n \in Nat \ {0} /\ n \in Int /\ j \in Nat /\ f[j] \in Int
  BY DEF Root, Coefficients
<1>1. x \in Int
  BY <1>0, PowerStarts
<1>2. ASSUME NEW m \in Nat
      PROVE  /\ G(m) \in Coefficients
             /\ \A k \in Nat : G(m)[k] = Evaluation(f, PowerOf(z, k), m) /\ G(m)[k] \in Int
  <2>1. \A k \in Nat : Evaluation(f, PowerOf(z, k), m) \in Int
    <3> SUFFICES ASSUME NEW k \in Nat PROVE Evaluation(f, PowerOf(z, k), m) \in Int
      OBVIOUS
    <3>1. PowerOf(z, k) \in Int
      BY <1>0, PowerStarts
    <3> QED BY <3>1, EvaluationSteps
  <2> QED BY <2>1 DEF Coefficients
<1> HIDE DEF x
<1>3. 0 \in S
  <2>1. \A k \in 0 .. n-1 : Same(G(0)[k], 0)
    <3> SUFFICES ASSUME NEW k \in 0 .. n-1 PROVE Same(G(0)[k], 0)
      OBVIOUS
    <3>1. k \in Nat /\ PowerOf(z, k) \in Int
      <4>1. k \in Nat
        BY <1>0
      <4> QED BY <1>0, <4>1, PowerStarts
    <3>2. Evaluation(f, PowerOf(z, k), 0) = 0
      BY <3>1, 0 \in Nat, EvaluationSteps
    <3> QED BY <3>1, <3>2, 0 \in Int, SameItself
  <2>2. Same(Evaluation(G(0), x, n), 0)
    <3> DEFINE h == G(0)
    <3>1. h \in Coefficients
      BY <1>2, 0 \in Nat
    <3>2. \A k \in 0 .. n-1 : Same(h[k], 0)
      BY <2>1
    <3> HIDE DEF h
    <3>3. Same(Evaluation(h, x, n), 0)
      BY <1>0, <1>1, <3>1, <3>2, NothingIsZero
    <3> QED BY <3>3 DEF h
  <2>3. ~ j < 0
    BY <1>0
  <2> QED BY <2>2, <2>3
<1>4. \A m \in Nat : m \in S => m + 1 \in S
  <2> SUFFICES ASSUME NEW m \in Nat, m + 1 <= n, Q(m) PROVE Q(m + 1)
    <3> HIDE DEF Q
    <3>1. \A m \in Nat : m + 1 <= n => m <= n
      BY <1>0
    <3> QED BY <3>1
  <2> DEFINE c == [k \in Nat |-> PowerOf(PowerOf(z, m), k)]
             b == f[m]
             g0 == G(m)
             g1 == G(m + 1)
             e0 == Evaluation(g0, x, n)
             e1 == Evaluation(g1, x, n)
             w == Evaluation(AllOnes, PowerOf(z, m) * PowerOf(y, j), n)
  <2>1. PowerOf(z, m) \in Int /\ b \in Int /\ m + 1 \in Nat /\ m \in 0 .. n-1
    BY <1>0, PowerStarts DEF Coefficients
  <2>2. c \in Coefficients
    BY <2>1, PowerStarts DEF Coefficients
  <2>3. g0 \in Coefficients /\ g1 \in Coefficients
    BY <1>2, <2>1
  <2>4. \A k \in 0 .. n-1 : g1[k] = 1 * g0[k] + b * c[k]
    <3> SUFFICES ASSUME NEW k \in 0 .. n-1 PROVE g1[k] = 1 * g0[k] + b * c[k]
      OBVIOUS
    <3>1. k \in Nat
      BY <1>0
    <3> DEFINE p == PowerOf(z, k)
               ev == Evaluation(f, p, m)
               q == PowerOf(p, m)
    <3>2. p \in Int
      BY <1>0, <3>1, PowerStarts
    <3>3. Evaluation(f, p, m + 1) = ev + b * q /\ ev \in Int
      <4> HIDE DEF p
      <4> QED BY <3>2, EvaluationSteps
    <3>4. q = PowerOf(PowerOf(z, m), k)
      <4>1. q = PowerOf(z, k * m)
        BY <1>0, <3>1, PowersOfPowers
      <4>2. PowerOf(PowerOf(z, m), k) = PowerOf(z, m * k)
        BY <1>0, <3>1, PowersOfPowers
      <4>3. k * m = m * k
        BY <3>1
      <4> QED BY <4>1, <4>2, <4>3
    <3>5. g0[k] = ev /\ g1[k] = Evaluation(f, p, m + 1) /\ c[k] = q
      BY <2>1, <3>1, <3>4
    <3> HIDE DEF ev, p, q, g0, g1, c, b
    <3>6. 1 * ev = ev
      BY <3>3
    <3> QED BY <3>3, <3>5, <3>6
  <2>5. \A k \in 0 .. n-1 : Same(g1[k], 1 * g0[k] + b * c[k])
    <3> SUFFICES ASSUME NEW k \in 0 .. n-1 PROVE Same(g1[k], 1 * g0[k] + b * c[k])
      OBVIOUS
    <3>1. k \in Nat
      BY <1>0
    <3>2. g1[k] \in Int
      BY <2>3, <3>1 DEF Coefficients
    <3> HIDE DEF g0, g1, c, b
    <3> QED BY <2>4, <3>2, SameItself
  <2>6. /\ e0 \in Int /\ e1 \in Int /\ Evaluation(c, x, n) \in Int
        /\ Same(e1, 1 * e0 + b * Evaluation(c, x, n))
    <3> HIDE DEF g0, g1, c, b
    <3>1. n \in Nat
      BY <1>0
    <3>2. Same(Evaluation(g1, x, n), 1 * Evaluation(g0, x, n) + b * Evaluation(c, x, n))
      BY <1>1, <2>1, <2>2, <2>3, <2>5, <3>1, 1 \in Int, EvaluationCombines
    <3> QED BY <1>1, <2>2, <2>3, <3>1, <3>2, EvaluationSteps
  <2>7. Same(Evaluation(c, x, n), w)
    <3>1. AllOnes \in Coefficients /\ \A k \in Nat : AllOnes[k] = 1
      BY DEF AllOnes, Coefficients
    <3>2. \A k \in 0 .. n-1 : Same(c[k], AllOnes[k] * PowerOf(PowerOf(z, m), k))
      <4> SUFFICES ASSUME NEW k \in 0 .. n-1
                   PROVE  Same(c[k], AllOnes[k] * PowerOf(PowerOf(z, m), k))
        OBVIOUS
      <4>1. k \in Nat
        BY <1>0
      <4>2. PowerOf(PowerOf(z, m), k) \in Int
        BY <2>1, <4>1, PowerStarts
      <4>3. 1 * PowerOf(PowerOf(z, m), k) = PowerOf(PowerOf(z, m), k)
        BY <4>2
      <4>4. c[k] = PowerOf(PowerOf(z, m), k)
        BY <4>1
      <4> QED BY <3>1, <4>1, <4>2, <4>3, <4>4, SameItself
    <3> HIDE DEF c
    <3>3. n \in Nat
      BY <1>0
    <3> QED BY <1>1, <2>1, <2>2, <3>1, <3>2, <3>3, EvaluationScales DEF x
  <2>8. w \in Int /\ Same(w, IF m = j THEN n ELSE 0)
    BY <2>1, Orthogonal
  <2> DEFINE v == IF m = j THEN n ELSE 0
             r == IF j < m THEN n * f[j] ELSE 0
             ec == Evaluation(c, x, n)
  <2>9. v \in Int /\ r \in Int /\ 1 * e0 = e0
    BY <1>0, <2>6
  <2>10. Same(e0, r)
    OBVIOUS
  <2>11. e0 \in Int /\ e1 \in Int /\ ec \in Int /\ Same(e1, 1 * e0 + b * ec) /\ Same(ec, w)
         /\ w \in Int /\ Same(w, v) /\ b \in Int
    BY <2>1, <2>6, <2>7, <2>8
  <2>12. r + b * v = IF j < m + 1 THEN n * f[j] ELSE 0
    <3>1. CASE m = j
      <4>1. b * n = n * f[j] /\ n * f[j] \in Int
        BY <1>0, <3>1
      <4> QED BY <1>0, <3>1, <4>1
    <3>2. CASE m # j
      <4>1. b * v = 0 /\ (j < m <=> j < m + 1)
        BY <1>0, <2>1, <3>2
      <4> QED BY <2>9, <4>1
    <3> QED BY <3>1, <3>2
  <2> HIDE DEF v, r, ec, b, e0, e1, w
  <2>13. Same(e1, r + b * v)
    <3>1. Same(ec, v)
      BY <2>9, <2>11, SameOn
    <3>2. Same(b * ec, b * v) /\ b * ec \in Int /\ b * v \in Int
      <4>1. Same(b, b)
        BY <2>11, SameItself
      <4>2. Same(b * ec, b * v)
        BY <2>9, <2>11, <3>1, <4>1, SameProduct
      <4>3. b * ec \in Int
        BY <2>11
      <4>4. b * v \in Int
        BY <2>9, <2>11
      <4> QED BY <4>2, <4>3, <4>4
    <3>3. Same(e0 + b * ec, r + b * v)
      BY <2>9, <2>10, <2>11, <3>2, SameSum
    <3>4. e0 + b * ec \in Int /\ r + b * v \in Int
      BY <2>9, <2>11, <3>2
    <3> QED BY <2>9, <2>11, <3>3, <3>4, SameOn
  <2> QED BY <2>12, <2>13 DEF e1
<1>5. \A m \in Nat : m \in S
  <2> HIDE DEF S
  <2> QED BY <1>3, <1>4, Reaches
<1>6. Same(Evaluation(G(n), x, n), n * f[j])
  <2>1. n \in S /\ n <= n /\ j < n
    BY <1>0, <1>5
  <2> QED BY <2>1
<1>7. Same(Evaluation(g, x, n), Evaluation(G(n), x, n))
  <2> DEFINE h == G(n)
  <2>1. h \in Coefficients
    BY <1>0, <1>2
  <2>2. \A k \in 0 .. n-1 : Same(g[k], 1 * h[k] + 0 * h[k])
    <3> SUFFICES ASSUME NEW k \in 0 .. n-1 PROVE Same(g[k], 1 * h[k] + 0 * h[k])
      OBVIOUS
    <3>1. k \in Nat
      BY <1>0
    <3>2. h[k] = Evaluation(f, PowerOf(z, k), n) /\ h[k] \in Int
      BY <1>0, <1>2, <3>1
    <3> HIDE DEF h
    <3>3. 1 * h[k] + 0 * h[k] = h[k]
      BY <3>2
    <3> QED BY <3>2, <3>3
  <2> HIDE DEF h
  <2>3. Evaluation(h, x, n) \in Int
    BY <1>0, <1>1, <2>1, EvaluationSteps
  <2>4. Same(Evaluation(g, x, n), 1 * Evaluation(h, x, n) + 0 * Evaluation(h, x, n))
    BY <1>0, <1>1, <2>1, <2>2, 0 \in Int, 1 \in Int, EvaluationCombines
  <2>5. 1 * Evaluation(h, x, n) + 0 * Evaluation(h, x, n) = Evaluation(h, x, n)
    BY <2>3
  <2> QED BY <2>4, <2>5 DEF h
<1>8. Evaluation(g, x, n) \in Int /\ Evaluation(G(n), x, n) \in Int /\ n * f[j] \in Int
  <2> DEFINE h == G(n)
  <2>1. h \in Coefficients
    BY <1>0, <1>2
  <2> HIDE DEF h
  <2>2. Evaluation(h, x, n) \in Int /\ Evaluation(g, x, n) \in Int
    BY <1>0, <1>1, <2>1, EvaluationSteps
  <2>3. n * f[j] \in Int
    BY <1>0
  <2> QED BY <2>2, <2>3 DEF h
<1> QED BY <1>6, <1>7, <1>8, SameOn DEF x

\* A polynomial with more roots than coefficients is nothing.
LEMMA RootsOfNothing ==
    ASSUME NEW y, NEW z, NEW n, Root(y, z, n), NEW p \in Seq(Field), Len(p) <= n,
           \A k \in 0 .. n-1 : Same(PolyValue(p, PowerOf(y, k)), 0)
    PROVE  \A i \in 1 .. Len(p) : p[i] = 0
<1> DEFINE f == Coefs(p)
<1>0. /\ p \in Seq(Int) /\ Len(p) \in Nat /\ n \in Nat \ {0} /\ n \in Int /\ y \in Int /\ z \in Int
      /\ n < Modulus /\ Root(z, y, n)
  <2>1. Root(z, y, n)
    BY RootBack
  <2>2. p \in Seq(Int) /\ Len(p) \in Nat
    BY FieldsAreNumbers
  <2> QED BY <2>1, <2>2 DEF Root
<1>1. /\ f \in Coefficients
      /\ \A i \in Nat : f[i] = IF i < Len(p) THEN p[i + 1] ELSE 0
  BY <1>0, CoefsAre
<1>2. NoCoefficients \in Coefficients /\ \A k \in Nat : NoCoefficients[k] = 0
  BY DEF NoCoefficients, Coefficients
<1>3. ASSUME NEW k \in 0 .. n-1
      PROVE  Same(NoCoefficients[k], Evaluation(f, PowerOf(y, k), n))
  <2>1. k \in Nat
    BY <1>0
  <2>2. PowerOf(y, k) \in Int
    BY <1>0, <2>1, PowerStarts
  <2>3. Evaluation(f, PowerOf(y, k), n) = PolyValue(p, PowerOf(y, k))
    BY <1>0, <2>2, PolyValueOfMore
  <2>4. PolyValue(p, PowerOf(y, k)) \in Int /\ Same(PolyValue(p, PowerOf(y, k)), 0)
    BY <1>0, <2>2, PolyValueIsNumber
  <2>5. Same(0, PolyValue(p, PowerOf(y, k)))
    BY <2>4, SameBack, 0 \in Int
  <2> QED BY <1>2, <2>1, <2>3, <2>5
<1> SUFFICES ASSUME NEW i \in 1 .. Len(p) PROVE p[i] = 0
  OBVIOUS
<1> DEFINE j == i - 1
<1>4. j \in 0 .. n-1 /\ j \in Nat /\ j < Len(p) /\ j + 1 = i
  BY <1>0
<1> HIDE DEF f, j
<1>5. PowerOf(z, j) \in Int
  BY <1>0, <1>4, PowerStarts
<1>6. Same(Evaluation(NoCoefficients, PowerOf(z, j), n), n * f[j])
  BY <1>0, <1>1, <1>2, <1>3, <1>4, TransformedBack
<1>7. Same(Evaluation(NoCoefficients, PowerOf(z, j), n), 0)
  <2>1. \A k \in 0 .. n-1 : Same(NoCoefficients[k], 0)
    <3> SUFFICES ASSUME NEW k \in 0 .. n-1 PROVE Same(NoCoefficients[k], 0)
      OBVIOUS
    <3>1. k \in Nat
      BY <1>0
    <3> QED BY <1>2, <3>1, 0 \in Int, SameItself
  <2> QED BY <1>0, <1>2, <1>5, <2>1, NothingIsZero
<1>8. p[i] \in Field /\ p[i] \in Int /\ f[j] = p[i]
  BY <1>0, <1>1, <1>4, InField
<1> DEFINE e == Evaluation(NoCoefficients, PowerOf(z, j), n)
           v == p[i]
<1>9. e \in Int
  BY <1>0, <1>2, <1>5, EvaluationSteps
<1>10. n * v \in Int
  BY <1>0, <1>8
<1> HIDE DEF e, v
<1>11. Same(n * v, 0)
  <2>1. Same(e, n * v) /\ Same(e, 0)
    BY <1>6, <1>7, <1>8 DEF e, v
  <2> QED BY <1>9, <1>10, <2>1, SameBack, SameOn, 0 \in Int
<1>12. ~ Same(n, 0)
  <2>1. n \in Field /\ 0 \in Field /\ n # 0
    BY <1>0, ModulusIs DEF Field
  <2> QED BY <2>1, SameIsEqual
<1>13. v \in Int /\ v \in Field
  BY <1>8 DEF v
<1>14. Same(v, 0)
  BY <1>0, <1>11, <1>12, <1>13, SameFactor
<1> QED BY <1>13, <1>14, ModulusIs, SameIsEqual DEF v

-----------------------------------------------------------------------------
(* The order of a root that is a power of two.                             *)

\* No odd number but one divides a power of two.
LEMMA OddFactor ==
    ASSUME NEW e \in Nat, NEW q \in Nat, q % 2 = 1, NEW g \in Nat, g * q = 2 ^ e
    PROVE  q = 1
<1> DEFINE Q(d) == \A h \in Nat : h * q = 2 ^ d => q = 1
           S == {d \in Nat : Q(d)}
<1>1. 0 \in S
  <2> SUFFICES ASSUME NEW h \in Nat, h * q = 2 ^ 0 PROVE q = 1
    OBVIOUS
  <2>1. h * q = 1
    OBVIOUS
  <2>2. CASE q = 0 \/ h = 0
    BY <2>1, <2>2
  <2>3. CASE q >= 2 /\ h >= 1
    <3>1. h * q >= 1 * q
      BY <2>3
    <3> QED BY <2>1, <2>3, <3>1
  <2> QED BY <2>2, <2>3
<1>2. \A d \in Nat : d \in S => d + 1 \in S
  <2> SUFFICES ASSUME NEW d \in Nat, Q(d) PROVE Q(d + 1)
    <3> HIDE DEF Q
    <3> QED OBVIOUS
  <2> SUFFICES ASSUME NEW h \in Nat, h * q = 2 ^ (d + 1) PROVE q = 1
    OBVIOUS
  <2> DEFINE c == 2 ^ d
             a == q \div 2
             b == c - h * a
  <2>1. c \in Nat /\ h * q = 2 * c
    BY PowerStep
  <2> HIDE DEF c
  <2>2. a \in Nat /\ q = 2 * a + 1
    OBVIOUS
  <2> HIDE DEF a
  <2>3. h * a \in Nat /\ h * q = 2 * (h * a) + h
    <3>1. h * (2 * a + 1) = h * (2 * a) + h * 1
      BY <2>2
    <3>2. h * (2 * a) = 2 * (h * a) /\ h * 1 = h /\ h * a \in Nat
      BY <2>2
    <3> QED BY <2>2, <3>1, <3>2
  <2>4. h = 2 * b /\ b \in Nat
    <3> DEFINE t == h * a
    <3>1. t \in Nat /\ 2 * c = 2 * t + h
      BY <2>1, <2>3
    <3> HIDE DEF t
    <3>2. h = 2 * (c - t) /\ c - t \in Nat
      BY <2>1, <3>1
    <3> QED BY <3>2 DEF t
  <2> HIDE DEF b
  <2>5. b * q = c
    <3>1. (2 * b) * q = 2 * (b * q) /\ b * q \in Nat
      BY <2>4
    <3> QED BY <2>1, <2>4, <3>1
  <2> QED BY <2>4, <2>5 DEF c
<1>3. \A d \in Nat : d \in S
  <2> HIDE DEF S
  <2> QED BY <1>1, <1>2, Reaches
<1> QED BY <1>3

\* The generator has the order of the domain: it is a power of two, and half of
\* it makes -1, not 1.
LEMMA OrderIsPowerOfTwo ==
    ASSUME NEW w \in Int, NEW e \in Nat, Same(PowerOf(w, 2 ^ e), -1), Modulus > 2,
           NEW g \in Nat \ {0}, Same(PowerOf(w, g), 1)
    PROVE  2 ^ (e + 1) <= g
<1> DEFINE D == {k \in Nat \ {0} : Same(PowerOf(w, k), 1)}
           half == 2 ^ e
           n == 2 ^ (e + 1)
<1>1. half \in Nat \ {0} /\ n = 2 * half /\ n \in Nat /\ n = half + half
  BY PowerStep
<1>2. Same(PowerOf(w, half), -1) /\ PowerOf(w, half) \in Int /\ -1 \in Int
  BY <1>1, PowerStarts
<1>3. Same(PowerOf(w, n), 1)
  <2> DEFINE p == PowerOf(w, half)
  <2>1. PowerOf(w, half + half) = p * p
    <3> HIDE DEF half
    <3> QED BY <1>1, PowersAdd
  <2>2. p \in Int /\ Same(p, -1)
    BY <1>2
  <2> HIDE DEF p, half, n
  <2>3. Same(p * p, (-1) * (-1))
    BY <1>2, <2>2, SameProduct
  <2>4. (-1) * (-1) = 1
    OBVIOUS
  <2> QED BY <1>1, <2>1, <2>3, <2>4
<1>4. PICK k \in D : \A l \in D : k <= l
  <2>1. g \in D /\ D \in SUBSET Nat
    OBVIOUS
  <2> HIDE DEF D
  <2> QED BY <2>1, LeastNatural
<1>5. k \in Nat \ {0} /\ Same(PowerOf(w, k), 1) /\ k <= g /\ PowerOf(w, k) \in Int
  <2>1. k \in Nat \ {0}
    BY <1>4
  <2> QED BY <1>4, <2>1, PowerStarts
<1> DEFINE q == n \div k
           r == n % k
<1> HIDE DEF half, n
<1>6. q \in Nat /\ r \in 0 .. k-1 /\ n = k * q + r
  BY <1>1, <1>5
<1> HIDE DEF q, r
<1>7. ASSUME NEW i \in Nat
      PROVE  Same(PowerOf(w, k * i), 1) /\ PowerOf(w, k * i) \in Int
  <2>1. PowerOf(PowerOf(w, k), i) = PowerOf(w, k * i)
    BY <1>5, PowersOfPowers
  <2>2. Same(PowerOf(PowerOf(w, k), i), PowerOf(1, i))
    BY <1>5, 1 \in Int, PowersAgree
  <2>3. k * i \in Nat
    BY <1>5
  <2> QED BY <2>1, <2>2, <2>3, OneToAny, PowerStarts
<1>8. r = 0
  <2> SUFFICES ASSUME r # 0 PROVE FALSE
    OBVIOUS
  <2> DEFINE l == k * q
             a == PowerOf(w, l)
             b == PowerOf(w, r)
  <2>1. l \in Nat /\ r \in Nat \ {0} /\ r < k /\ n = l + r
    BY <1>5, <1>6
  <2>2. a \in Int /\ Same(a, 1)
    BY <1>6, <1>7
  <2> HIDE DEF l
  <2>3. b \in Int /\ PowerOf(w, n) = a * b
    BY <2>1, PowerStarts, PowersAdd
  <2> HIDE DEF a, b
  <2>4. Same(a * b, 1 * b)
    BY <2>2, <2>3, SameItself, SameProduct, 1 \in Int
  <2>5. 1 * b = b /\ a * b \in Int
    BY <2>2, <2>3
  <2>6. Same(b, a * b)
    BY <2>3, <2>4, <2>5, SameBack
  <2>7. Same(b, 1)
    BY <1>3, <2>3, <2>5, <2>6, SameOn, 1 \in Int
  <2>8. r \in D
    BY <2>1, <2>7 DEF b
  <2> HIDE DEF D
  <2> QED BY <1>4, <1>5, <2>1, <2>8
<1>9. n = k * q /\ n = 2 ^ (e + 1)
  BY <1>5, <1>6, <1>8 DEF n
<1>10. CASE q % 2 = 1
  <2>1. q = 1
    <3>1. e + 1 \in Nat
      OBVIOUS
    <3> QED BY <1>5, <1>6, <1>9, <1>10, <3>1, OddFactor
  <2>2. n = k
    BY <1>5, <1>9, <2>1
  <2> QED BY <1>5, <1>9, <2>2
<1>11. CASE q % 2 # 1
  <2> DEFINE h == q \div 2
  <2>1. h \in Nat /\ q = 2 * h
    BY <1>6, <1>11
  <2> HIDE DEF h
  <2>2. half = k * h
    <3>1. k * (2 * h) = 2 * (k * h) /\ k * h \in Nat
      BY <1>5, <2>1
    <3> QED BY <1>1, <1>9, <2>1, <3>1
  <2>3. Same(PowerOf(w, half), 1)
    BY <1>7, <2>1, <2>2
  <2>4. Same(1, -1)
    BY <1>2, <2>3, SameBack, SameOn, 1 \in Int
  <2>5. Same(1 + 1, -1 + 1)
    BY <1>2, <2>4, SameItself, SameSum, 1 \in Int
  <2>6. Same(2, 0)
    <3>1. 1 + 1 = 2 /\ -1 + 1 = 0
      OBVIOUS
    <3> QED BY <2>5, <3>1
  <2>7. 2 \in Field /\ 0 \in Field
    BY ModulusIs DEF Field
  <2>8. 2 = 0
    BY <2>6, <2>7, SameIsEqual
  <2> QED BY <2>8
<1> QED BY <1>10, <1>11

LEMMA PowerWraps ==
    ASSUME NEW z \in Int, NEW n \in Nat \ {0}, Same(PowerOf(z, n), 1), NEW m \in Nat
    PROVE  Same(PowerOf(z, m % n), PowerOf(z, m)) /\ m % n \in Nat
<1> DEFINE q == m \div n
           r == m % n
           l == n * q
           a == PowerOf(z, l)
           b == PowerOf(z, r)
<1>1. q \in Nat /\ r \in Nat /\ m = n * q + r
  OBVIOUS
<1> HIDE DEF q, r
<1>2. l \in Nat /\ m = l + r
  BY <1>1
<1>3. Same(a, 1)
  <2>1. PowerOf(PowerOf(z, n), q) = a
    BY <1>1, PowersOfPowers
  <2>2. PowerOf(z, n) \in Int
    BY PowerStarts
  <2>3. Same(PowerOf(PowerOf(z, n), q), PowerOf(1, q))
    BY <1>1, <2>2, 1 \in Int, PowersAgree
  <2> QED BY <1>1, <2>1, <2>3, OneToAny
<1> HIDE DEF l
<1>4. a \in Int /\ b \in Int /\ PowerOf(z, m) = a * b
  <2>1. a \in Int /\ b \in Int
    BY <1>1, <1>2, PowerStarts
  <2>2. PowerOf(z, l + r) = a * b
    BY <1>1, <1>2, PowersAdd
  <2> QED BY <1>2, <2>1, <2>2
<1> HIDE DEF a, b
<1>5. Same(a * b, 1 * b)
  BY <1>3, <1>4, SameItself, SameProduct, 1 \in Int
<1>6. 1 * b = b /\ a * b \in Int
  BY <1>4
<1>7. Same(b, a * b)
  BY <1>4, <1>5, <1>6, SameBack
<1> QED BY <1>1, <1>4, <1>7 DEF b, r

-----------------------------------------------------------------------------
(* What is zero modulo the prime.                                          *)

LEMMA ZeroRemainder ==
    ASSUME NEW x \in Int
    PROVE  x % Modulus = 0 <=> Same(x, 0)
<1>1. Same(x, 0) <=> x % Modulus = 0 % Modulus
  BY SameRemainder, 0 \in Int
<1>2. 0 % Modulus = 0
  BY ModulusIs
<1> QED BY <1>1, <1>2

LEMMA ZeroProduct ==
    ASSUME NEW x \in Int, NEW y \in Int
    PROVE  Same(x * y, 0) <=> Same(x, 0) \/ Same(y, 0)
<1>1. x * y \in Int /\ 0 * y = 0 /\ x * 0 = 0
  OBVIOUS
<1>2. ASSUME Same(x, 0) PROVE Same(x * y, 0)
  <2>1. Same(x * y, 0 * y)
    BY <1>2, SameItself, SameProduct, 0 \in Int
  <2> QED BY <1>1, <2>1
<1>3. ASSUME Same(y, 0) PROVE Same(x * y, 0)
  <2>1. Same(x * y, x * 0)
    BY <1>3, SameItself, SameProduct, 0 \in Int
  <2> QED BY <1>1, <2>1
<1>4. ASSUME Same(x * y, 0), ~ Same(x, 0) PROVE Same(y, 0)
  BY <1>4, SameFactor
<1> QED BY <1>2, <1>3, <1>4

LEMMA ZeroDifference ==
    ASSUME NEW x \in Field, NEW y \in Field
    PROVE  Same(x - y, 0) <=> x = y
<1>1. x \in Int /\ y \in Int /\ x - y \in Int
  BY InField
<1>2. ASSUME Same(x - y, 0) PROVE x = y
  <2>1. Same((x - y) + y, 0 + y)
    BY <1>1, <1>2, SameItself, SameSum, 0 \in Int
  <2>2. (x - y) + y = x /\ 0 + y = y
    BY <1>1
  <2> QED BY <2>1, <2>2, SameIsEqual
<1>3. x = y => x - y = 0
  BY <1>1
<1> QED BY <1>2, <1>3, SameItself, 0 \in Int

-----------------------------------------------------------------------------
(* Products of numbers that are rearranged.                                *)

Alike(x, y, V, k) ==
    \A v \in V : Cardinality({i \in 1 .. k : x[i] = v}) = Cardinality({i \in 1 .. k : y[i] = v})

Listed(x, V, k) == \A i \in 1 .. k : x[i] \in V

\* Without the last of one, and without one like it of the other, whose place
\* the last takes.
LEMMA AlikeLess ==
    ASSUME NEW n \in Nat, NEW V, NEW x, NEW y, Listed(x, V, n + 1), Listed(y, V, n + 1),
           Alike(x, y, V, n + 1), NEW j \in 1 .. n + 1, y[j] = x[n + 1]
    PROVE  Alike(x, [i \in 1 .. n |-> IF i = j THEN y[n + 1] ELSE y[i]], V, n)
<1> DEFINE l == n + 1
           h == [i \in 1 .. n |-> IF i = j THEN y[l] ELSE y[i]]
           v == x[l]
           w == y[l]
<1>1. \A i \in 1 .. n : h[i] = IF i = j THEN w ELSE y[i]
  OBVIOUS
<1>2. l \in 1 .. n + 1 /\ (\A i \in 1 .. n + 1 : i \in 1 .. n <=> i # l) /\ l \notin 1 .. n
      /\ (\A i \in 1 .. n : i \in 1 .. n + 1)
  OBVIOUS
<1>3. \A S \in SUBSET (1 .. n + 1) : IsFiniteSet(S) /\ Cardinality(S) \in Nat
  <2>1. IsFiniteSet(1 .. n + 1)
    BY FS_Interval
  <2> QED BY <2>1, FS_Subset, FS_CardinalityType
<1> HIDE DEF l, h
<1> SUFFICES ASSUME NEW u \in V
             PROVE  Cardinality({i \in 1 .. n : x[i] = u}) = Cardinality({i \in 1 .. n : h[i] = u})
  BY DEF Alike, h, l
<1> DEFINE A == {i \in 1 .. n + 1 : x[i] = u}
           B == {i \in 1 .. n + 1 : y[i] = u}
           a == {i \in 1 .. n : x[i] = u}
           b == {i \in 1 .. n : h[i] = u}
<1>4. Cardinality(A) = Cardinality(B)
  BY DEF Alike
<1>5. IsFiniteSet(A) /\ IsFiniteSet(B) /\ IsFiniteSet(a) /\ IsFiniteSet(b)
      /\ Cardinality(A) \in Nat /\ Cardinality(B) \in Nat
  <2>1. A \in SUBSET (1 .. n + 1) /\ B \in SUBSET (1 .. n + 1) /\ a \in SUBSET (1 .. n + 1)
        /\ b \in SUBSET (1 .. n + 1)
    BY <1>2
  <2> HIDE DEF A, B, a, b
  <2> QED BY <1>3, <2>1
<1>6. Cardinality(a) = Cardinality(A) - (IF u = v THEN 1 ELSE 0)
  <2>1. CASE u = v
    <3>1. a = A \ {l} /\ l \in A
      BY <1>2, <2>1 DEF v
    <3> HIDE DEF a, A
    <3> QED BY <1>5, <2>1, <3>1, FS_RemoveElement
  <2>2. CASE u # v
    <3>1. a = A
      BY <1>2, <2>2 DEF v
    <3> HIDE DEF a, A
    <3> QED BY <1>5, <2>2, <3>1
  <2> QED BY <2>1, <2>2
<1>7. Cardinality(b) = Cardinality(B) - (IF u = v THEN 1 ELSE 0)
  <2>0. y[j] = v
    BY DEF l
  <2>1. CASE u = v /\ w = u
    <3>1. b = B \ {l} /\ l \in B
      BY <1>1, <1>2, <2>0, <2>1 DEF w
    <3> HIDE DEF b, B
    <3> QED BY <1>5, <2>1, <3>1, FS_RemoveElement
  <2>2. CASE u = v /\ w # u
    <3>1. b = B \ {j} /\ j \in B
      BY <1>1, <1>2, <2>0, <2>2 DEF w
    <3> HIDE DEF b, B
    <3> QED BY <1>5, <2>2, <3>1, FS_RemoveElement
  <2>3. CASE u # v /\ w = u
    <3> DEFINE c == B \ {l}
    <3>1. b = c \cup {j} /\ j \notin c /\ l \in B
      BY <1>1, <1>2, <2>0, <2>3 DEF w
    <3>2. IsFiniteSet(c) /\ Cardinality(c) = Cardinality(B) - 1
      <4> HIDE DEF B
      <4> QED BY <1>5, <3>1, FS_RemoveElement
    <3> HIDE DEF b, B, c
    <3>3. Cardinality(c \cup {j}) = Cardinality(c) + 1
      BY <3>1, <3>2, FS_AddElement
    <3> QED BY <1>5, <2>3, <3>1, <3>2, <3>3
  <2>4. CASE u # v /\ w # u
    <3>1. b = B
      BY <1>1, <1>2, <2>0, <2>4 DEF w
    <3> HIDE DEF b, B
    <3> QED BY <1>5, <2>4, <3>1
  <2> QED BY <2>1, <2>2, <2>3, <2>4
<1> QED BY <1>4, <1>6, <1>7

\* Products of the same factors, and of more of the same.
LEMMA ProductsAlike ==
    ASSUME NEW k \in Nat, NEW l \in Nat, l <= k, NEW x, NEW y, Numbers(x, k), Numbers(y, k),
           ProductOf(x, l) = ProductOf(y, l) \/ l = 0, \A i \in 1 .. k : i > l => x[i] = y[i]
    PROVE  ProductOf(x, k) = ProductOf(y, k)
<1> DEFINE S == {m \in Nat : l <= m /\ m <= k => ProductOf(x, m) = ProductOf(y, m)}
<1>1. /\ Products(CHOOSE u : Products(u, x, 0), x, 0)
      /\ Products(CHOOSE u : Products(u, y, 0), y, 0)
  BY 0 \in Nat, ProductsExist DEF Numbers
<1>2. ProductOf(x, 0) = 1 /\ ProductOf(y, 0) = 1
  BY <1>1 DEF Products, ProductOf
<1>3. 0 \in S
  BY <1>2
<1>4. \A m \in Nat : m \in S => m + 1 \in S
  <2> SUFFICES ASSUME NEW m \in Nat, m \in S, l <= m + 1, m + 1 <= k
               PROVE  ProductOf(x, m + 1) = ProductOf(y, m + 1)
    OBVIOUS
  <2>1. CASE l = m + 1
    BY <2>1
  <2>2. CASE l # m + 1
    <3>1. l <= m /\ m + 1 \in 1 .. k /\ m + 1 > l
      BY <2>2
    <3>2. ProductOf(x, m) = ProductOf(y, m) /\ x[m + 1] = y[m + 1]
      BY <3>1
    <3>3. Numbers(x, m + 1) /\ Numbers(y, m + 1)
      BY <3>1 DEF Numbers
    <3>4. ProductOf(x, m + 1) = ProductOf(x, m) * x[m + 1] /\ ProductOf(y, m + 1) = ProductOf(y, m) * y[m + 1]
      BY <3>3, ProductSteps
    <3> QED BY <3>2, <3>4
  <2> QED BY <2>1, <2>2
<1>5. k \in S
  <2> HIDE DEF S
  <2> QED BY <1>3, <1>4, Reaches
<1> QED BY <1>5

\* What is multiplied up may come in any order.
LEMMA AlikeProducts ==
    ASSUME NEW k \in Nat, NEW V, NEW x, NEW y, Listed(x, V, k), Listed(y, V, k), Alike(x, y, V, k),
           NEW F \in [V -> Int]
    PROVE  ProductOf([i \in 1 .. k |-> F[x[i]]], k) = ProductOf([i \in 1 .. k |-> F[y[i]]], k)
<1> DEFINE Of(r, m) == [i \in 1 .. m |-> F[r[i]]]
           Q(m) == \A r, s : Listed(r, V, m) /\ Listed(s, V, m) /\ Alike(r, s, V, m)
                     => ProductOf(Of(r, m), m) = ProductOf(Of(s, m), m)
           S == {m \in Nat : Q(m)}
<1>1. ASSUME NEW r, NEW m \in Nat, Listed(r, V, m) PROVE Numbers(Of(r, m), m)
  BY <1>1 DEF Numbers, Listed
<1>2. Q(0)
  <2> SUFFICES ASSUME NEW r, NEW s PROVE ProductOf(Of(r, 0), 0) = ProductOf(Of(s, 0), 0)
    OBVIOUS
  <2> DEFINE p == Of(r, 0)
             q == Of(s, 0)
  <2>1. Numbers(p, 0) /\ Numbers(q, 0)
    BY DEF Numbers
  <2> HIDE DEF p, q
  <2>2. /\ Products(CHOOSE u : Products(u, p, 0), p, 0)
        /\ Products(CHOOSE u : Products(u, q, 0), q, 0)
    BY <2>1, 0 \in Nat, ProductsExist
  <2>3. ProductOf(p, 0) = ProductOf(q, 0)
    BY <2>2 DEF Products, ProductOf
  <2> QED BY <2>3 DEF p, q
<1>3. ASSUME NEW n \in Nat, Q(n) PROVE Q(n + 1)
  <2> SUFFICES ASSUME NEW r, NEW s, Listed(r, V, n + 1), Listed(s, V, n + 1), Alike(r, s, V, n + 1)
               PROVE  ProductOf(Of(r, n + 1), n + 1) = ProductOf(Of(s, n + 1), n + 1)
    OBVIOUS
  <2> DEFINE l == n + 1
             p == Of(r, l)
             q == Of(s, l)
             v == r[l]
             w == s[l]
  <2>1. l \in 1 .. l /\ l \in Nat /\ (\A i \in 1 .. n : i \in 1 .. l) /\ v \in V /\ w \in V
    BY DEF Listed
  <2>2. PICK j \in 1 .. l : s[j] = v
    <3> DEFINE A == {i \in 1 .. l : r[i] = v}
               B == {i \in 1 .. l : s[i] = v}
    <3>1. Cardinality(A) = Cardinality(B)
      BY <2>1 DEF Alike
    <3>2. IsFiniteSet(A) /\ IsFiniteSet(B) /\ l \in A
      <4>1. IsFiniteSet(1 .. l)
        BY FS_Interval, <2>1
      <4>2. A \in SUBSET (1 .. l) /\ B \in SUBSET (1 .. l) /\ l \in A
        BY <2>1
      <4> HIDE DEF A, B
      <4> QED BY <4>1, <4>2, FS_Subset
    <3> HIDE DEF A, B
    <3>3. B # {}
      <4>1. Cardinality(A) # 0
        BY <3>2, FS_EmptySet
      <4> QED BY <3>1, <4>1, FS_EmptySet
    <3> QED BY <3>3 DEF B
  <2> DEFINE h == [i \in 1 .. n |-> IF i = j THEN s[l] ELSE s[i]]
  <2>3. Alike(r, h, V, n)
    BY <2>2, AlikeLess
  <2>4. Listed(r, V, n) /\ Listed(h, V, n) /\ Listed(s, V, n)
    BY <2>1 DEF Listed
  <2>5. ProductOf(Of(r, n), n) = ProductOf(Of(h, n), n)
    BY <1>3, <2>3, <2>4
  <2>6. /\ ProductOf(p, n) \in Int /\ ProductOf(q, n) \in Int
        /\ ProductOf(p, l) = ProductOf(p, n) * p[l] /\ ProductOf(q, l) = ProductOf(q, n) * q[l]
        /\ p[l] = F[v] /\ q[l] = F[w] /\ F[v] \in Int /\ F[w] \in Int
    <3>1. Numbers(p, l) /\ Numbers(q, l)
      BY <1>1, <2>1
    <3>2. p[l] = F[v] /\ q[l] = F[w]
      BY <2>1
    <3> HIDE DEF p, q
    <3> QED BY <2>1, <3>1, <3>2, ProductSteps
  <2>7. \A t : Listed(t, V, l) => Numbers(Of(t, l), n) /\ ProductOf(Of(t, l), n) = ProductOf(Of(t, n), n)
    <3> SUFFICES ASSUME NEW t, Listed(t, V, l)
                 PROVE  Numbers(Of(t, l), n) /\ ProductOf(Of(t, l), n) = ProductOf(Of(t, n), n)
      OBVIOUS
    <3> DEFINE c == Of(t, l)
               d == Of(t, n)
    <3>1. \A i \in 1 .. n : c[i] = d[i] /\ c[i] \in Int
      BY <2>1 DEF Listed
    <3> HIDE DEF c, d
    <3>2. Numbers(c, n) /\ Numbers(d, n)
      BY <3>1 DEF Numbers
    <3>3. PICK o \in Nat : o = 0
      OBVIOUS
    <3>4. o <= n /\ (ProductOf(c, o) = ProductOf(d, o) \/ o = 0) /\ \A i \in 1 .. n : i > o => c[i] = d[i]
      BY <3>1, <3>3
    <3>5. ProductOf(c, n) = ProductOf(d, n)
      BY <3>2, <3>4, ProductsAlike
    <3> QED BY <3>2, <3>5 DEF c, d
  <2>8. CASE j = l
    <3>1. \A i \in 1 .. n : h[i] = s[i]
      BY <2>1, <2>8
    <3>2. Of(h, n) = Of(s, n)
      BY <3>1
    <3>3. v = w
      BY <2>2, <2>8
    <3> HIDE DEF h, p, q, v, w
    <3>4. ProductOf(p, n) = ProductOf(q, n)
      BY <2>5, <2>7, <3>2 DEF p, q
    <3> QED BY <2>6, <3>3, <3>4 DEF p, q
  <2>9. CASE j # l
    <3> DEFINE c == Of(s, n)
               d == Of(h, n)
    <3>1. j \in 1 .. n
      BY <2>9
    <3>2. /\ \A i \in 1 .. n : i # j => c[i] = d[i]
          /\ c[j] = F[v] /\ d[j] = F[w]
      BY <2>2, <3>1
    <3>3. Numbers(c, n) /\ Numbers(d, n)
      BY <1>1, <2>4
    <3> HIDE DEF c, d
    <3>4. ProductOf(c, n) * d[j] = ProductOf(d, n) * c[j]
      BY <3>1, <3>2, <3>3, ProductChanged
    <3>5. ProductOf(p, n) = ProductOf(d, n) /\ ProductOf(q, n) = ProductOf(c, n)
      <4> HIDE DEF h
      <4> QED BY <2>5, <2>7 DEF p, q, c, d
    <3> HIDE DEF p, q, v, w
    <3> QED BY <2>6, <3>2, <3>4, <3>5 DEF p, q
  <2> QED BY <2>8, <2>9
<1> HIDE DEF Q, Of
<1>4. k \in S
  <2>1. 0 \in S
    BY <1>2
  <2>2. \A m \in Nat : m \in S => m + 1 \in S
    BY <1>3
  <2> HIDE DEF S
  <2> QED BY <2>1, <2>2, Reaches
<1>5. Q(k)
  BY <1>4
<1> QED BY <1>5 DEF Q, Of

LEMMA ProductIsNumber ==
    ASSUME NEW k \in Nat, NEW x, Numbers(x, k), NEW j \in Nat, j <= k
    PROVE  ProductOf(x, j) \in Int /\ ProductOf(x, 0) = 1
<1>1. Numbers(x, j) /\ Numbers(x, 0)
  BY DEF Numbers
<1>2. /\ Products(CHOOSE u : Products(u, x, j), x, j)
      /\ Products(CHOOSE u : Products(u, x, 0), x, 0)
  BY <1>1, 0 \in Nat, ProductsExist
<1>3. j \in 0 .. j
  OBVIOUS
<1> QED BY <1>2, <1>3 DEF Products, ProductOf

-----------------------------------------------------------------------------
(* Polynomials multiplied as series.                                       *)

\* Zeros behind the first l do not count.
LEMMA SumOfZeros ==
    ASSUME NEW l \in Nat, NEW k \in Nat, l <= k, NEW x, Summands(x, k),
           \A i \in l .. k-1 : x[i] = 0
    PROVE  SumTo(x, k) = SumTo(x, l) /\ SumTo(x, l) \in Int
<1>1. PICK u : Sums(u, x, k) /\ SumTo(x, k) = u[k]
  BY SumToIs
<1>2. Summands(x, l)
  BY DEF Summands
<1>3. PICK v : Sums(v, x, l) /\ SumTo(x, l) = v[l]
  BY <1>2, SumToIs
<1>4. v[l] = u[l] /\ v[l] \in Int
  <2>1. \A i \in 0 .. l-1 : x[i] = x[i]
    OBVIOUS
  <2>2. v[l] = u[l]
    BY <1>1, <1>3, <2>1, SumsAgree
  <2>3. v[l] \in Int
    BY <1>3 DEF Sums
  <2> QED BY <2>2, <2>3
<1> DEFINE S == {m \in Nat : l + m <= k => u[l + m] = u[l]}
<1>5. 0 \in S
  BY l + 0 = l
<1>6. \A m \in Nat : m \in S => m + 1 \in S
  <2> SUFFICES ASSUME NEW m \in Nat, m \in S, l + (m + 1) <= k PROVE u[l + (m + 1)] = u[l]
    OBVIOUS
  <2> DEFINE i == l + (m + 1)
  <2>1. i \in 1 .. k /\ i - 1 = l + m /\ l + m <= k /\ l + m \in l .. k-1
    OBVIOUS
  <2>2. u[l + m] = u[l] /\ x[l + m] = 0
    BY <2>1
  <2> HIDE DEF i
  <2>3. u[i] = u[i - 1] + x[i - 1]
    BY <1>1, <2>1 DEF Sums
  <2>4. u[i] = u[l] + 0 /\ u[l] \in Int
    BY <1>4, <2>1, <2>2, <2>3
  <2> QED BY <2>4 DEF i
<1>7. k - l \in S
  <2>1. k - l \in Nat
    OBVIOUS
  <2> HIDE DEF S
  <2> QED BY <1>5, <1>6, <2>1, Reaches
<1>8. l + (k - l) = k
  OBVIOUS
<1> QED BY <1>1, <1>3, <1>4, <1>7, <1>8

\* The last summand first.
LEMMA SumReversed ==
    ASSUME NEW k \in Nat, NEW x, NEW y, Summands(x, k),
           \A i \in 0 .. k-1 : y[i] = x[(k - 1) - i]
    PROVE  Summands(y, k) /\ SumTo(y, k) = SumTo(x, k) /\ SumTo(x, k) \in Int
<1>1. Summands(y, k)
  <2> SUFFICES ASSUME NEW i \in 0 .. k-1 PROVE y[i] \in Int
    BY DEF Summands
  <2>1. (k - 1) - i \in 0 .. k-1
    OBVIOUS
  <2> QED BY <2>1 DEF Summands
<1>2. PICK u : Sums(u, x, k) /\ SumTo(x, k) = u[k]
  BY SumToIs
<1>3. PICK v : Sums(v, y, k) /\ SumTo(y, k) = v[k]
  BY <1>1, SumToIs
<1> DEFINE Adds(m) == v[m] + u[k - m] = u[k]
           S == {m \in Nat : m <= k => Adds(m)}
<1>4. 0 \in S
  <2>1. v[0] = 0 /\ k - 0 = k /\ u[k] \in Int
    BY <1>2, <1>3 DEF Sums
  <2> QED BY <2>1
<1>5. \A m \in Nat : m \in S => m + 1 \in S
  <2> HIDE DEF Adds
  <2> SUFFICES ASSUME NEW m \in Nat, m \in S, m + 1 <= k PROVE Adds(m + 1)
    OBVIOUS
  <2> DEFINE i == k - m
             j == m + 1
  <2>1. i \in 1 .. k /\ i - 1 = k - j /\ i - 1 = (k - 1) - m /\ m \in 0 .. k-1 /\ m <= k
        /\ j \in 1 .. k /\ j - 1 = m /\ i - 1 \in 0 .. k-1 /\ m \in 0 .. k /\ i \in 0 .. k /\ i - 1 \in 0 .. k
    OBVIOUS
  <2>2. v[m] + u[i] = u[k]
    BY <2>1 DEF Adds
  <2>3. y[m] = x[i - 1]
    BY <2>1
  <2> HIDE DEF i, j
  <2>4. u[i] = u[i - 1] + x[i - 1] /\ v[j] = v[j - 1] + y[j - 1]
    BY <1>2, <1>3, <2>1 DEF Sums
  <2>5. v[j] = v[m] + x[i - 1]
    BY <2>1, <2>3, <2>4
  <2>6. u[i - 1] \in Int /\ x[i - 1] \in Int /\ v[m] \in Int /\ u[k - j] = u[i - 1]
    BY <1>2, <1>3, <2>1 DEF Sums, Summands
  <2> QED BY <2>2, <2>4, <2>5, <2>6 DEF j, Adds
<1>6. Adds(k)
  <2> HIDE DEF Adds
  <2>1. k \in S
    <3> HIDE DEF S
    <3> QED BY <1>4, <1>5, Reaches
  <2> QED BY <2>1
<1>7. k - k = 0 /\ u[0] = 0 /\ v[k] \in Int /\ u[k] \in Int
  BY <1>2, <1>3 DEF Sums
<1> QED BY <1>1, <1>2, <1>3, <1>6, <1>7

\* Zeros before the summands.
LEMMA SumMoved ==
    ASSUME NEW j \in Nat, NEW k \in Nat, NEW x, NEW y, Summands(x, k),
           \A i \in 0 .. j-1 : y[i] = 0, \A i \in 0 .. k-1 : y[j + i] = x[i]
    PROVE  Summands(y, j + k) /\ SumTo(y, j + k) = SumTo(x, k) /\ SumTo(x, k) \in Int
<1>1. Summands(y, j + k)
  <2> SUFFICES ASSUME NEW i \in 0 .. (j + k) - 1 PROVE y[i] \in Int
    BY DEF Summands
  <2>1. CASE i < j
    <3>1. i \in 0 .. j-1
      BY <2>1
    <3> QED BY <3>1
  <2>2. CASE ~ (i < j)
    <3>1. i - j \in 0 .. k-1 /\ j + (i - j) = i
      BY <2>2
    <3> QED BY <3>1 DEF Summands
  <2> QED BY <2>1, <2>2
<1>2. PICK u : Sums(u, x, k) /\ SumTo(x, k) = u[k]
  BY SumToIs
<1>3. PICK v : Sums(v, y, j + k) /\ SumTo(y, j + k) = v[j + k]
  BY <1>1, SumToIs, j + k \in Nat
<1> DEFINE Z == {m \in Nat : m <= j => v[m] = 0}
           S == {m \in Nat : m <= k => v[j + m] = u[m]}
<1>4. 0 \in Z
  BY <1>3 DEF Sums
<1>5. \A m \in Nat : m \in Z => m + 1 \in Z
  <2> SUFFICES ASSUME NEW m \in Nat, m \in Z, m + 1 <= j PROVE v[m + 1] = 0
    OBVIOUS
  <2> DEFINE i == m + 1
  <2>1. i \in 1 .. j + k /\ i - 1 = m /\ m \in 0 .. j-1 /\ m <= j
    OBVIOUS
  <2>2. v[m] = 0 /\ y[m] = 0
    BY <2>1
  <2> HIDE DEF i
  <2>3. v[i] = v[i - 1] + y[i - 1]
    BY <1>3, <2>1 DEF Sums
  <2>4. v[i] = 0 + 0
    BY <2>1, <2>2, <2>3
  <2> QED BY <2>4 DEF i
<1>6. j \in Z
  <2> HIDE DEF Z
  <2> QED BY <1>4, <1>5, Reaches
<1>7. 0 \in S
  <2>1. u[0] = 0 /\ j + 0 = j /\ j <= j
    BY <1>2 DEF Sums
  <2> QED BY <1>6, <2>1
<1>8. \A m \in Nat : m \in S => m + 1 \in S
  <2> SUFFICES ASSUME NEW m \in Nat, m \in S, m + 1 <= k PROVE v[j + (m + 1)] = u[m + 1]
    OBVIOUS
  <2> DEFINE i == m + 1
             h == j + i
  <2>1. i \in 1 .. k /\ i - 1 = m /\ h \in 1 .. j + k /\ h - 1 = j + m /\ m \in 0 .. k-1 /\ m <= k
    OBVIOUS
  <2>2. v[j + m] = u[m] /\ y[j + m] = x[m]
    BY <2>1
  <2> HIDE DEF i, h
  <2>3. u[i] = u[i - 1] + x[i - 1] /\ v[h] = v[h - 1] + y[h - 1]
    BY <1>2, <1>3, <2>1 DEF Sums
  <2>4. v[h] = u[i]
    BY <2>1, <2>2, <2>3
  <2> QED BY <2>4 DEF h, i
<1>9. k \in S
  <2> HIDE DEF S
  <2> QED BY <1>7, <1>8, Reaches
<1>10. u[k] \in Int
  BY <1>2 DEF Sums
<1> QED BY <1>1, <1>2, <1>3, <1>9, <1>10

LEMMA SumsSame ==
    ASSUME NEW k \in Nat, NEW x, NEW y, Summands(x, k), Summands(y, k),
           \A i \in 0 .. k-1 : Same(y[i], x[i])
    PROVE  SumTo(x, k) \in Int /\ SumTo(y, k) \in Int /\ Same(SumTo(y, k), SumTo(x, k))
<1>1. \A i \in 0 .. k-1 : Same(y[i], 1 * x[i] + 0 * x[i])
  <2> SUFFICES ASSUME NEW i \in 0 .. k-1 PROVE Same(y[i], 1 * x[i] + 0 * x[i])
    OBVIOUS
  <2>1. x[i] \in Int
    BY DEF Summands
  <2>2. 1 * x[i] + 0 * x[i] = x[i]
    BY <2>1
  <2> QED BY <2>2
<1>2. /\ SumTo(x, k) \in Int /\ SumTo(y, k) \in Int
      /\ Same(SumTo(y, k), 1 * SumTo(x, k) + 0 * SumTo(x, k))
  BY <1>1, SumsCombine, 0 \in Int, 1 \in Int
<1>3. 1 * SumTo(x, k) + 0 * SumTo(x, k) = SumTo(x, k)
  BY <1>2
<1> QED BY <1>2, <1>3

\* The coefficients of the product of two series.
SeriesProduct(c, d) == [k \in Nat |-> Convolved(c, d, k + 1)[k]]

ProductTerm(c, d, k, j) == c[j] * (IF k < j THEN 0 ELSE d[k - j])

LEMMA ProductTermsAre ==
    ASSUME NEW c \in Coefficients, NEW d \in Coefficients, NEW k \in Nat
    PROVE  /\ \A j \in Nat : ProductTerms(c, d, k)[j] \in Int
           /\ \A j \in Nat : ProductTerms(c, d, k)[j] = ProductTerm(c, d, k, j)
           /\ \A i \in Nat : Summands(ProductTerms(c, d, k), i)
           /\ \A i \in Nat : Convolved(c, d, i)[k] = SumTo(ProductTerms(c, d, k), i)
           /\ \A i \in Nat : Convolved(c, d, i)[k] \in Int
           /\ SeriesProduct(c, d)[k] = SumTo(ProductTerms(c, d, k), k + 1)
           /\ SeriesProduct(c, d)[k] \in Int
<1> DEFINE x == ProductTerms(c, d, k)
<1>1. ASSUME NEW j \in Nat
      PROVE  x[j] = ProductTerm(c, d, k, j) /\ x[j] \in Int
  <2>1. c[j] \in Int /\ (IF k < j THEN 0 ELSE d[k - j]) \in Int
    BY DEF Coefficients
  <2>2. x[j] = c[j] * (IF k < j THEN 0 ELSE d[k - j])
    BY DEF ProductTerms
  <2> QED BY <2>1, <2>2 DEF ProductTerm
<1>2. \A i \in Nat : Convolved(c, d, i)[k] = SumTo(x, i)
  BY DEF Convolved
<1> HIDE DEF x
<1>3. \A i \in Nat : Summands(x, i)
  BY <1>1 DEF Summands
<1>4. \A i \in Nat : Convolved(c, d, i)[k] \in Int
  BY ConvolvedSteps
<1>5. SeriesProduct(c, d)[k] = Convolved(c, d, k + 1)[k] /\ k + 1 \in Nat
  BY DEF SeriesProduct
<1> QED BY <1>1, <1>2, <1>3, <1>4, <1>5 DEF x

LEMMA TimesIs ==
    ASSUME NEW c \in Coefficients, NEW d \in Coefficients
    PROVE  SeriesProduct(c, d) \in Coefficients
<1>1. \A k \in Nat : SeriesProduct(c, d)[k] \in Int
  BY ProductTermsAre
<1> QED BY <1>1 DEF SeriesProduct, Coefficients

LEMMA ConvolvedIs ==
    ASSUME NEW c \in Coefficients, NEW d \in Coefficients, NEW i \in Nat
    PROVE  Convolved(c, d, i) \in Coefficients
<1>1. \A k \in Nat : Convolved(c, d, i)[k] \in Int
  BY ProductTermsAre
<1> QED BY <1>1 DEF Convolved, Coefficients

\* Enough of the terms.
LEMMA TimesOfMore ==
    ASSUME NEW c \in Coefficients, NEW d \in Coefficients, NEW k \in Nat, NEW i \in Nat, k < i
    PROVE  Convolved(c, d, i)[k] = SeriesProduct(c, d)[k]
<1> DEFINE x == ProductTerms(c, d, k)
<1>1. /\ Summands(x, i) /\ Convolved(c, d, i)[k] = SumTo(x, i)
      /\ SeriesProduct(c, d)[k] = SumTo(x, k + 1)
      /\ \A j \in Nat : x[j] = ProductTerm(c, d, k, j)
  BY ProductTermsAre
<1> HIDE DEF x
<1>2. \A j \in k + 1 .. i-1 : x[j] = 0
  <2> SUFFICES ASSUME NEW j \in k + 1 .. i-1 PROVE x[j] = 0
    OBVIOUS
  <2>1. j \in Nat /\ k < j /\ c[j] \in Int
    BY DEF Coefficients
  <2> QED BY <1>1, <2>1 DEF ProductTerm
<1>3. k + 1 \in Nat /\ k + 1 <= i
  OBVIOUS
<1> QED BY <1>1, <1>2, <1>3, SumOfZeros

LEMMA TimesOfFew ==
    ASSUME NEW c \in Coefficients, NEW d \in Coefficients, NEW k \in Nat, NEW l \in Nat,
           \A j \in Nat : j >= l => c[j] = 0
    PROVE  Convolved(c, d, l)[k] = SeriesProduct(c, d)[k]
<1> DEFINE x == ProductTerms(c, d, k)
           i == l + (k + 1)
<1>1. /\ Summands(x, i) /\ Convolved(c, d, i)[k] = SumTo(x, i)
      /\ Convolved(c, d, l)[k] = SumTo(x, l)
      /\ \A j \in Nat : x[j] = ProductTerm(c, d, k, j)
  BY ProductTermsAre, i \in Nat
<1> HIDE DEF x
<1>2. \A j \in l .. i-1 : x[j] = 0
  <2> SUFFICES ASSUME NEW j \in l .. i-1 PROVE x[j] = 0
    OBVIOUS
  <2>1. j \in Nat /\ j >= l /\ (IF k < j THEN 0 ELSE d[k - j]) \in Int
    BY DEF Coefficients
  <2>2. c[j] = 0
    BY <2>1
  <2>3. x[j] = 0 * (IF k < j THEN 0 ELSE d[k - j])
    BY <1>1, <2>1, <2>2 DEF ProductTerm
  <2> QED BY <2>1, <2>3
<1>3. i \in Nat /\ l <= i /\ k < i
  OBVIOUS
<1> HIDE DEF i
<1>4. SumTo(x, i) = SumTo(x, l)
  BY <1>1, <1>2, <1>3, SumOfZeros
<1> QED BY <1>1, <1>3, <1>4, TimesOfMore

\* A coefficient of the product depends on those up to it.
LEMMA TimesLocal ==
    ASSUME NEW c \in Coefficients, NEW d \in Coefficients,
           NEW e \in Coefficients, NEW g \in Coefficients, NEW k \in Nat,
           \A j \in 0 .. k : Same(c[j], e[j]), \A j \in 0 .. k : Same(d[j], g[j])
    PROVE  Same(SeriesProduct(c, d)[k], SeriesProduct(e, g)[k])
<1> DEFINE x == ProductTerms(c, d, k)
           y == ProductTerms(e, g, k)
<1>1. /\ Summands(x, k + 1) /\ Summands(y, k + 1)
      /\ SeriesProduct(c, d)[k] = SumTo(x, k + 1) /\ SeriesProduct(e, g)[k] = SumTo(y, k + 1)
      /\ \A j \in Nat : x[j] = ProductTerm(c, d, k, j)
      /\ \A j \in Nat : y[j] = ProductTerm(e, g, k, j)
  BY ProductTermsAre, k + 1 \in Nat
<1> HIDE DEF x, y
<1>2. \A j \in 0 .. (k + 1) - 1 : Same(x[j], y[j])
  <2> SUFFICES ASSUME NEW j \in 0 .. (k + 1) - 1 PROVE Same(x[j], y[j])
    OBVIOUS
  <2>1. j \in Nat /\ ~ (k < j) /\ k - j \in Nat /\ j \in 0 .. k /\ k - j \in 0 .. k
    OBVIOUS
  <2>2. c[j] \in Int /\ e[j] \in Int /\ d[k - j] \in Int /\ g[k - j] \in Int
    BY <2>1 DEF Coefficients
  <2>3. Same(c[j], e[j]) /\ Same(d[k - j], g[k - j])
    BY <2>1
  <2>4. Same(c[j] * d[k - j], e[j] * g[k - j])
    BY <2>2, <2>3, SameProduct
  <2> QED BY <1>1, <2>1, <2>4 DEF ProductTerm
<1> QED BY <1>1, <1>2, SumsSame, k + 1 \in Nat

LEMMA TimesCombines ==
    ASSUME NEW c \in Coefficients, NEW d \in Coefficients,
           NEW e \in Coefficients, NEW g \in Coefficients, NEW k \in Nat,
           NEW a \in Int, NEW b \in Int,
           \A j \in 0 .. k : Same(e[j], a * c[j] + b * d[j])
    PROVE  Same(SeriesProduct(e, g)[k], a * SeriesProduct(c, g)[k] + b * SeriesProduct(d, g)[k])
<1> DEFINE x == ProductTerms(c, g, k)
           y == ProductTerms(d, g, k)
           z == ProductTerms(e, g, k)
<1>1. /\ Summands(x, k + 1) /\ Summands(y, k + 1) /\ Summands(z, k + 1)
      /\ SeriesProduct(c, g)[k] = SumTo(x, k + 1) /\ SeriesProduct(d, g)[k] = SumTo(y, k + 1)
      /\ SeriesProduct(e, g)[k] = SumTo(z, k + 1)
      /\ \A j \in Nat : x[j] = ProductTerm(c, g, k, j)
      /\ \A j \in Nat : y[j] = ProductTerm(d, g, k, j)
      /\ \A j \in Nat : z[j] = ProductTerm(e, g, k, j)
  BY ProductTermsAre, k + 1 \in Nat
<1> HIDE DEF x, y, z
<1>2. \A j \in 0 .. (k + 1) - 1 : Same(z[j], a * x[j] + b * y[j])
  <2> SUFFICES ASSUME NEW j \in 0 .. (k + 1) - 1 PROVE Same(z[j], a * x[j] + b * y[j])
    OBVIOUS
  <2> DEFINE r == c[j]
             s == d[j]
             w == g[k - j]
  <2>1. j \in Nat /\ ~ (k < j) /\ k - j \in Nat /\ j \in 0 .. k
    OBVIOUS
  <2>2. r \in Int /\ s \in Int /\ w \in Int /\ e[j] \in Int
    BY <2>1 DEF Coefficients
  <2>3. Same(e[j], a * r + b * s)
    BY <2>1
  <2>4. x[j] = r * w /\ y[j] = s * w /\ z[j] = e[j] * w
    BY <1>1, <2>1 DEF ProductTerm
  <2> HIDE DEF r, s, w
  <2>5. a * r + b * s \in Int /\ (a * r + b * s) * w = a * (r * w) + b * (s * w)
    <3>1. a * r \in Int /\ b * s \in Int
      BY <2>2
    <3>2. (a * r + b * s) * w = (a * r) * w + (b * s) * w
      BY <2>2, <3>1
    <3>3. (a * r) * w = a * (r * w) /\ (b * s) * w = b * (s * w)
      BY <2>2
    <3> QED BY <3>1, <3>2, <3>3
  <2>6. Same(w, w)
    BY <2>2, SameItself
  <2>7. Same(e[j] * w, (a * r + b * s) * w)
    BY <2>2, <2>3, <2>5, <2>6, SameProduct
  <2> QED BY <2>4, <2>5, <2>7
<1> QED BY <1>1, <1>2, SumsCombine, k + 1 \in Nat

LEMMA TimesCommutes ==
    ASSUME NEW c \in Coefficients, NEW d \in Coefficients, NEW k \in Nat
    PROVE  SeriesProduct(c, d)[k] = SeriesProduct(d, c)[k]
<1> DEFINE x == ProductTerms(c, d, k)
           y == ProductTerms(d, c, k)
<1>1. /\ Summands(x, k + 1)
      /\ SeriesProduct(c, d)[k] = SumTo(x, k + 1) /\ SeriesProduct(d, c)[k] = SumTo(y, k + 1)
      /\ \A j \in Nat : x[j] = ProductTerm(c, d, k, j)
      /\ \A j \in Nat : y[j] = ProductTerm(d, c, k, j)
  BY ProductTermsAre, k + 1 \in Nat
<1> HIDE DEF x, y
<1>2. \A i \in 0 .. (k + 1) - 1 : y[i] = x[((k + 1) - 1) - i]
  <2> SUFFICES ASSUME NEW i \in 0 .. (k + 1) - 1 PROVE y[i] = x[((k + 1) - 1) - i]
    OBVIOUS
  <2> DEFINE j == k - i
  <2>1. i \in Nat /\ j \in Nat /\ ~ (k < i) /\ ~ (k < j) /\ k - j = i /\ ((k + 1) - 1) - i = j
    OBVIOUS
  <2>2. c[j] \in Int /\ d[i] \in Int
    BY <2>1 DEF Coefficients
  <2>3. y[i] = d[i] * c[j]
    BY <1>1, <2>1 DEF ProductTerm
  <2> HIDE DEF j
  <2>4. x[j] = c[j] * d[i]
    BY <1>1, <2>1 DEF ProductTerm
  <2>5. c[j] * d[i] = d[i] * c[j]
    BY <2>2
  <2> QED BY <2>1, <2>3, <2>4, <2>5
<1> QED BY <1>1, <1>2, SumReversed, k + 1 \in Nat

LEMMA TimesMoved ==
    ASSUME NEW c \in Coefficients, NEW s \in Coefficients, NEW d \in Coefficients,
           NEW i \in Nat, NEW k \in Nat, MovedUp(c, s, i)
    PROVE  SeriesProduct(s, d)[k] = IF k < i THEN 0 ELSE SeriesProduct(c, d)[k - i]
<1> DEFINE y == ProductTerms(s, d, k)
<1>1. /\ Summands(y, k + 1) /\ SeriesProduct(s, d)[k] = SumTo(y, k + 1)
      /\ \A j \in Nat : y[j] = ProductTerm(s, d, k, j)
  BY ProductTermsAre, k + 1 \in Nat
<1> HIDE DEF y
<1>2. ASSUME NEW j \in Nat, j < i PROVE y[j] = 0
  <2>1. s[j] = 0 /\ (IF k < j THEN 0 ELSE d[k - j]) \in Int
    BY <1>2 DEF MovedUp, Coefficients
  <2>2. y[j] = 0 * (IF k < j THEN 0 ELSE d[k - j])
    BY <1>1, <2>1 DEF ProductTerm
  <2> QED BY <2>1, <2>2
<1>3. CASE k < i
  <2>1. \A j \in 0 .. (k + 1) - 1 : y[j] = 0
    BY <1>2, <1>3
  <2>2. SumTo(y, k + 1) = SumTo(y, 0)
    BY <1>1, <2>1, SumOfZeros, 0 \in Nat, k + 1 \in Nat
  <2>3. SumTo(y, 0) = 0
    BY <1>1, SumSteps
  <2> QED BY <1>1, <1>3, <2>2, <2>3
<1>4. CASE ~ (k < i)
  <2> DEFINE l == k - i
             x == ProductTerms(c, d, l)
  <2>1. l \in Nat /\ i + (l + 1) = k + 1 /\ l + 1 \in Nat
    BY <1>4
  <2> HIDE DEF l
  <2>2. /\ Summands(x, l + 1) /\ SeriesProduct(c, d)[l] = SumTo(x, l + 1)
        /\ \A j \in Nat : x[j] = ProductTerm(c, d, l, j)
    BY <2>1, ProductTermsAre
  <2> HIDE DEF x
  <2>3. \A j \in 0 .. i-1 : y[j] = 0
    BY <1>2
  <2>4. \A j \in 0 .. (l + 1) - 1 : y[i + j] = x[j]
    <3> SUFFICES ASSUME NEW j \in 0 .. (l + 1) - 1 PROVE y[i + j] = x[j]
      OBVIOUS
    <3> DEFINE h == i + j
    <3>1. j \in Nat /\ ~ (l < j) /\ h \in Nat /\ ~ (k < h) /\ k - h = l - j /\ h - i = j /\ ~ (h < i)
      BY <2>1
    <3> HIDE DEF h
    <3>2. s[h] = c[j]
      BY <3>1 DEF MovedUp
    <3> QED BY <1>1, <2>2, <3>1, <3>2 DEF ProductTerm, h
  <2>5. SumTo(y, i + (l + 1)) = SumTo(x, l + 1)
    <3> DEFINE h == l + 1
    <3>1. /\ h \in Nat /\ Summands(x, h) /\ \A j \in 0 .. h-1 : y[i + j] = x[j]
      BY <2>1, <2>2, <2>4
    <3> HIDE DEF h
    <3>2. SumTo(y, i + h) = SumTo(x, h)
      BY <2>3, <3>1, SumMoved
    <3> QED BY <3>2 DEF h
  <2> QED BY <1>1, <1>4, <2>1, <2>2, <2>5 DEF l
<1> QED BY <1>3, <1>4

\* (c d) e is c (d e): c is taken term by term.
LEMMA TimesAssociates ==
    ASSUME NEW c \in Coefficients, NEW d \in Coefficients, NEW e \in Coefficients, NEW k \in Nat
    PROVE  Same(SeriesProduct(SeriesProduct(c, d), e)[k], SeriesProduct(c, SeriesProduct(d, e))[k])
<1> DEFINE D == SeriesProduct(d, e)
           C(i) == Convolved(c, d, i)
           L(i, l) == SeriesProduct(C(i), e)[l]
           R(i, l) == Convolved(c, D, i)[l]
           Q(i) == \A l \in Nat : Same(L(i, l), R(i, l))
           S == {i \in Nat : Q(i)}
<1>1. D \in Coefficients /\ \A i \in Nat : C(i) \in Coefficients
  BY TimesIs, ConvolvedIs
<1>2. \A i, l \in Nat : L(i, l) \in Int /\ R(i, l) \in Int
  <2> HIDE DEF D, C
  <2> QED BY <1>1, ProductTermsAre
<1>3. Q(0)
  <2> SUFFICES ASSUME NEW l \in Nat PROVE Same(L(0, l), R(0, l))
    OBVIOUS
  <2>1. C(0) \in Coefficients /\ \A j \in Nat : C(0)[j] = 0
    BY <1>1, ConvolvedSteps, 0 \in Nat
  <2>2. R(0, l) = 0
    BY <1>1, ConvolvedSteps, 0 \in Nat
  <2> DEFINE z == C(0)
  <2>3. Convolved(z, e, 0)[l] = SeriesProduct(z, e)[l]
    <3>1. \A j \in Nat : j >= 0 => z[j] = 0
      BY <2>1
    <3>2. z \in Coefficients
      BY <2>1
    <3> HIDE DEF z
    <3> QED BY <3>1, <3>2, TimesOfFew, 0 \in Nat
  <2>4. Convolved(z, e, 0)[l] = 0
    <3>1. z \in Coefficients
      BY <2>1
    <3> HIDE DEF z
    <3> QED BY <3>1, ConvolvedSteps, 0 \in Nat
  <2>5. L(0, l) = 0
    BY <2>3, <2>4
  <2> HIDE DEF L, R
  <2> QED BY <2>2, <2>5, SameItself, 0 \in Int
<1>4. \A i \in Nat : Q(i) => Q(i + 1)
  <2> SUFFICES ASSUME NEW i \in Nat, Q(i), NEW l \in Nat PROVE Same(L(i + 1, l), R(i + 1, l))
    OBVIOUS
  <2> DEFINE s == [k1 \in Nat |-> IF k1 < i THEN 0 ELSE d[k1 - i]]
             a == c[i]
             w == IF l < i THEN 0 ELSE D[l - i]
  <2>1. s \in Coefficients /\ MovedUp(d, s, i) /\ a \in Int /\ w \in Int /\ i + 1 \in Nat
    BY <1>1 DEF Coefficients, MovedUp
  <2>2. SeriesProduct(s, e)[l] = w
    <3> HIDE DEF s
    <3> QED BY <2>1, TimesMoved
  <2>3. R(i + 1, l) = R(i, l) + a * w
    BY <1>1, ConvolvedSteps
  <2>4. \A j \in 0 .. l : Same(C(i + 1)[j], 1 * C(i)[j] + a * s[j])
    <3> SUFFICES ASSUME NEW j \in 0 .. l PROVE Same(C(i + 1)[j], 1 * C(i)[j] + a * s[j])
      OBVIOUS
    <3>1. j \in Nat
      OBVIOUS
    <3>2. C(i + 1)[j] = C(i)[j] + a * s[j]
      BY <3>1, ConvolvedSteps
    <3>3. C(i)[j] \in Int /\ s[j] \in Int
      BY <1>1, <2>1, <3>1 DEF Coefficients
    <3> DEFINE g == C(i)[j]
               h == C(i + 1)[j]
               r == s[j]
    <3> HIDE DEF g, h, r, a
    <3>4. h = 1 * g + a * r /\ h \in Int
      BY <2>1, <3>2, <3>3 DEF g, h, r
    <3>5. Same(h, h)
      BY <3>4, SameItself
    <3> QED BY <3>4, <3>5 DEF g, h, r
  <2> HIDE DEF s, a, w, C, D, L, R
  <2>5. Same(SeriesProduct(C(i + 1), e)[l], 1 * SeriesProduct(C(i), e)[l] + a * SeriesProduct(s, e)[l])
    BY <1>1, <2>1, <2>4, TimesCombines, 1 \in Int
  <2>6. Same(L(i + 1, l), 1 * L(i, l) + a * w)
    BY <2>2, <2>5 DEF L
  <2>7. L(i, l) \in Int /\ R(i, l) \in Int /\ L(i + 1, l) \in Int /\ R(i + 1, l) \in Int /\ a * w \in Int
    BY <1>2, <2>1
  <2>8. 1 * L(i, l) + a * w = L(i, l) + a * w
    BY <2>7
  <2>9. Same(L(i, l), R(i, l))
    OBVIOUS
  <2>10. Same(L(i, l) + a * w, R(i, l) + a * w)
    BY <2>7, <2>9, SameItself, SameSum
  <2>11. Same(L(i + 1, l), R(i, l) + a * w)
    BY <2>6, <2>7, <2>8, <2>10, SameOn
  <2> QED BY <2>3, <2>11
<1>5. Q(k + 1)
  <2>1. k + 1 \in S
    <3>1. 0 \in S /\ \A i \in Nat : i \in S => i + 1 \in S
      <4> HIDE DEF Q
      <4> QED BY <1>3, <1>4
    <3> HIDE DEF S
    <3> QED BY <3>1, Reaches, k + 1 \in Nat
  <2> QED BY <2>1
<1>6. Same(L(k + 1, k), R(k + 1, k))
  BY <1>5
<1>7. R(k + 1, k) = SeriesProduct(c, D)[k]
  BY DEF SeriesProduct
<1>8. Same(SeriesProduct(SeriesProduct(c, d), e)[k], L(k + 1, k))
  <2> DEFINE z == C(k + 1)
             y == SeriesProduct(c, d)
  <2>1. z \in Coefficients /\ y \in Coefficients
    BY <1>1, TimesIs, k + 1 \in Nat
  <2>2. \A j \in 0 .. k : Same(y[j], z[j])
    <3> SUFFICES ASSUME NEW j \in 0 .. k PROVE Same(y[j], z[j])
      OBVIOUS
    <3>1. j \in Nat /\ j < k + 1 /\ k + 1 \in Nat
      OBVIOUS
    <3>2. z[j] = y[j]
      BY <3>1, TimesOfMore
    <3>3. y[j] \in Int
      BY <2>1, <3>1 DEF Coefficients
    <3> HIDE DEF y, z
    <3> QED BY <3>2, <3>3, SameItself
  <2>3. \A j \in 0 .. k : Same(e[j], e[j])
    <3> SUFFICES ASSUME NEW j \in 0 .. k PROVE Same(e[j], e[j])
      OBVIOUS
    <3>1. e[j] \in Int
      BY DEF Coefficients
    <3> QED BY <3>1, SameItself
  <2> HIDE DEF z, y
  <2>4. Same(SeriesProduct(y, e)[k], SeriesProduct(z, e)[k])
    BY <2>1, <2>2, <2>3, TimesLocal
  <2> QED BY <2>4 DEF y, z
<1>9. SeriesProduct(SeriesProduct(c, d), e)[k] \in Int /\ L(k + 1, k) \in Int /\ R(k + 1, k) \in Int
  BY <1>2, TimesIs, ProductTermsAre, k + 1 \in Nat
<1> HIDE DEF L, R
<1> QED BY <1>6, <1>7, <1>8, <1>9, SameOn

UnitSeries == [i \in Nat |-> IF i = 0 THEN 1 ELSE 0]

LEMMA UnitIs == UnitSeries \in Coefficients
BY DEF UnitSeries, Coefficients

LEMMA TimesUnit ==
    ASSUME NEW d \in Coefficients, NEW k \in Nat
    PROVE  SeriesProduct(UnitSeries, d)[k] = d[k] /\ SeriesProduct(d, UnitSeries)[k] = d[k]
<1> DEFINE u == UnitSeries
<1>1. u \in Coefficients /\ u[0] = 1 /\ \A j \in Nat : j >= 1 => u[j] = 0
  BY UnitIs DEF UnitSeries
<1> HIDE DEF u
<1>2. Convolved(u, d, 1)[k] = SeriesProduct(u, d)[k]
  BY <1>1, TimesOfFew, 1 \in Nat
<1>3. Convolved(u, d, 0 + 1)[k] = Convolved(u, d, 0)[k] + u[0] * (IF k < 0 THEN 0 ELSE d[k - 0])
      /\ Convolved(u, d, 0)[k] = 0
  BY <1>1, ConvolvedSteps, 0 \in Nat
<1>4. ~ (k < 0) /\ k - 0 = k /\ 0 + 1 = 1 /\ d[k] \in Int
  BY DEF Coefficients
<1>5. SeriesProduct(u, d)[k] = d[k]
  BY <1>1, <1>2, <1>3, <1>4
<1>6. SeriesProduct(d, u)[k] = SeriesProduct(u, d)[k]
  BY <1>1, TimesCommutes
<1> QED BY <1>5, <1>6 DEF u

LEMMA ShorterIs ==
    ASSUME NEW S, NEW p \in Seq(S), NEW k \in Nat
    PROVE  /\ Shorter(p, k) \in Seq(S)
           /\ Len(Shorter(p, k)) = (IF Len(p) <= k THEN Len(p) ELSE k)
           /\ \A i \in 1 .. Len(Shorter(p, k)) : Shorter(p, k)[i] = p[i]
<1> DEFINE n == IF Len(p) <= k THEN Len(p) ELSE k
<1>1. n \in Nat /\ n <= Len(p)
  OBVIOUS
<1>2. Shorter(p, k) = SubSeq(p, 1, n)
  BY DEF Shorter
<1> HIDE DEF n
<1>3. /\ SubSeq(p, 1, n) \in Seq(S) /\ Len(SubSeq(p, 1, n)) = n
      /\ \A i \in 1 .. n : SubSeq(p, 1, n)[i] = p[i]
  BY <1>1
<1> QED BY <1>2, <1>3 DEF n

LEMMA ShorterCoefs ==
    ASSUME NEW p \in Seq(Int), NEW k \in Nat
    PROVE  \A i \in Nat : Coefs(Shorter(p, k))[i] = IF i < k THEN Coefs(p)[i] ELSE 0
<1> DEFINE r == Shorter(p, k)
<1>1. /\ r \in Seq(Int) /\ Len(r) = (IF Len(p) <= k THEN Len(p) ELSE k)
      /\ \A i \in 1 .. Len(r) : r[i] = p[i]
  BY ShorterIs
<1> HIDE DEF r
<1>2. Len(p) \in Nat /\ \A i \in Nat : Coefs(p)[i] = IF i < Len(p) THEN p[i + 1] ELSE 0
  BY CoefsAre
<1>3. Len(r) \in Nat /\ \A i \in Nat : Coefs(r)[i] = IF i < Len(r) THEN r[i + 1] ELSE 0
  BY <1>1, CoefsAre
<1> SUFFICES ASSUME NEW i \in Nat PROVE Coefs(r)[i] = IF i < k THEN Coefs(p)[i] ELSE 0
  BY DEF r
<1>4. i < Len(r) <=> (i < k /\ i < Len(p))
  BY <1>1, <1>2
<1>5. CASE i < Len(r)
  <2>1. i + 1 \in 1 .. Len(r)
    BY <1>3, <1>5
  <2> QED BY <1>1, <1>2, <1>3, <1>4, <1>5, <2>1
<1>6. CASE ~ (i < Len(r))
  BY <1>2, <1>3, <1>4, <1>6
<1> QED BY <1>5, <1>6

LEMMA ResizedCoefs ==
    ASSUME NEW S, 0 \in S, S \subseteq Int, NEW p \in Seq(S), NEW k \in Nat
    PROVE  /\ Resized(p, k) \in Seq(S) /\ Len(Resized(p, k)) = k
           /\ \A i \in Nat : Coefs(Resized(p, k))[i] = IF i < k THEN Coefs(p)[i] ELSE 0
<1> DEFINE r == Resized(p, k)
<1>1. Len(r) = k /\ \A i \in 1 .. k : r[i] = At(p, i)
  BY ResizedIs
<1>2. \A i \in 1 .. k : At(p, i) \in S
  BY DEF At
<1>3. r \in Seq(S)
  <2>1. r = [i \in 1 .. k |-> r[i]]
    BY DEF Resized
  <2> HIDE DEF r
  <2>2. r \in [1 .. k -> S]
    BY <1>1, <1>2, <2>1
  <2> QED BY <2>2, SequenceIs
<1> HIDE DEF r
<1>4. p \in Seq(Int) /\ r \in Seq(Int)
  <2>1. \A q \in Seq(S) : q \in Seq(Int)
    <3> SUFFICES ASSUME NEW q \in Seq(S) PROVE q \in Seq(Int)
      OBVIOUS
    <3>1. Len(q) \in Nat /\ q = [i \in 1 .. Len(q) |-> q[i]] /\ \A i \in 1 .. Len(q) : q[i] \in S
      OBVIOUS
    <3>2. \A i \in 1 .. Len(q) : q[i] \in Int
      BY <3>1
    <3> QED BY <3>1, <3>2
  <2> QED BY <1>3, <2>1
<1>5. \A i \in Nat : Coefs(p)[i] = At(p, i + 1)
  BY <1>4, CoefsAre
<1>6. \A i \in Nat : Coefs(r)[i] = IF i < Len(r) THEN r[i + 1] ELSE 0
  BY <1>4, CoefsAre
<1>7. ASSUME NEW i \in Nat
      PROVE  Coefs(r)[i] = IF i < k THEN Coefs(p)[i] ELSE 0
  <2>1. i < k => i + 1 \in 1 .. k
    OBVIOUS
  <2> QED BY <1>1, <1>5, <1>6, <2>1
<1> QED BY <1>1, <1>3, <1>7 DEF r

LEMMA MinusCoefs ==
    ASSUME NEW p \in Seq(Int), NEW q \in Seq(Int), NEW k \in Nat
    PROVE  /\ Minus(p, q, k) \in Seq(Field) /\ Len(Minus(p, q, k)) = k
           /\ \A i \in 0 .. k-1 : Same(Coefs(Minus(p, q, k))[i], Coefs(p)[i] - Coefs(q)[i])
<1> DEFINE r == Minus(p, q, k)
<1>1. Len(r) = k /\ \A i \in 1 .. k : r[i] = (At(p, i) - At(q, i)) % Modulus
  BY MinusIs
<1>2. /\ \A i \in Nat : Coefs(p)[i] = At(p, i + 1) /\ Coefs(p)[i] \in Int
      /\ \A i \in Nat : Coefs(q)[i] = At(q, i + 1) /\ Coefs(q)[i] \in Int
  BY CoefsAre DEF Coefficients
<1>3. ASSUME NEW i \in 0 .. k-1
      PROVE  r[i + 1] \in Field /\ Same(r[i + 1], Coefs(p)[i] - Coefs(q)[i])
  <2>1. i \in Nat /\ i + 1 \in 1 .. k
    OBVIOUS
  <2> DEFINE a == Coefs(p)[i]
             b == Coefs(q)[i]
  <2> HIDE DEF r
  <2>2. a = At(p, i + 1) /\ b = At(q, i + 1) /\ a \in Int /\ b \in Int
    BY <1>2, <2>1
  <2>3. r[i + 1] = (At(p, i + 1) - At(q, i + 1)) % Modulus
    BY <1>1, <2>1
  <2> HIDE DEF a, b
  <2>4. r[i + 1] = (a - b) % Modulus /\ a - b \in Int
    BY <2>2, <2>3
  <2> QED BY <2>4, Remainder DEF a, b
<1>4. r \in Seq(Field)
  <2>1. \A i \in 1 .. k : r[i] \in Field
    <3> SUFFICES ASSUME NEW i \in 1 .. k PROVE r[i] \in Field
      OBVIOUS
    <3>1. i - 1 \in 0 .. k-1 /\ (i - 1) + 1 = i
      OBVIOUS
    <3> HIDE DEF r
    <3>2. r[(i - 1) + 1] \in Field
      BY <1>3, <3>1
    <3> QED BY <3>1, <3>2
  <2>2. r = [i \in 1 .. k |-> r[i]]
    BY DEF Minus
  <2> HIDE DEF r
  <2>3. r \in [1 .. k -> Field]
    BY <2>1, <2>2
  <2> QED BY <2>3, SequenceIs
<1> HIDE DEF r
<1>5. \A i \in Nat : Coefs(r)[i] = IF i < Len(r) THEN r[i + 1] ELSE 0
  BY <1>4, FieldsAreNumbers, CoefsAre
<1>6. \A i \in 0 .. k-1 : i \in Nat /\ i < k
  OBVIOUS
<1> QED BY <1>1, <1>3, <1>4, <1>5, <1>6 DEF r

LEMMA ReverseIs ==
    ASSUME NEW S, NEW p \in Seq(S)
    PROVE  /\ Seqs!Reverse(p) \in Seq(S) /\ Len(Seqs!Reverse(p)) = Len(p)
           /\ \A i \in 1 .. Len(p) : Seqs!Reverse(p)[i] = p[(Len(p) - i) + 1]
<1> DEFINE n == Len(p)
<1>1. n \in Nat /\ \A i \in 1 .. n : p[i] \in S
  OBVIOUS
<1>2. Seqs!Reverse(p) = [i \in 1 .. n |-> p[(n - i) + 1]]
  BY DEF Seqs!Reverse
<1> HIDE DEF n
<1>3. \A i \in 1 .. n : (n - i) + 1 \in 1 .. n
  BY <1>1
<1>4. Seqs!Reverse(p) \in [1 .. n -> S]
  BY <1>1, <1>2, <1>3
<1>5. Seqs!Reverse(p) \in Seq(S) /\ Len(Seqs!Reverse(p)) = n
  BY <1>1, <1>4, SequenceIs
<1> QED BY <1>2, <1>5 DEF n

LEMMA ReverseCoefs ==
    ASSUME NEW p \in Seq(Int)
    PROVE  \A i \in Nat : Coefs(Seqs!Reverse(p))[i]
                          = IF i < Len(p) THEN Coefs(p)[(Len(p) - 1) - i] ELSE 0
<1> DEFINE r == Seqs!Reverse(p)
           n == Len(p)
<1>1. r \in Seq(Int) /\ Len(r) = n /\ \A i \in 1 .. n : r[i] = p[(n - i) + 1]
  BY ReverseIs
<1> HIDE DEF r
<1>2. n \in Nat /\ \A i \in Nat : Coefs(p)[i] = IF i < n THEN p[i + 1] ELSE 0
  BY CoefsAre
<1>3. \A i \in Nat : Coefs(r)[i] = IF i < n THEN r[i + 1] ELSE 0
  BY <1>1, CoefsAre
<1> HIDE DEF n
<1> SUFFICES ASSUME NEW i \in Nat PROVE Coefs(r)[i] = IF i < n THEN Coefs(p)[(n - 1) - i] ELSE 0
  BY DEF r, n
<1>4. CASE i < n
  <2> DEFINE j == (n - 1) - i
  <2>1. i + 1 \in 1 .. n /\ j \in Nat /\ j < n /\ j + 1 = (n - (i + 1)) + 1
    BY <1>2, <1>4
  <2> HIDE DEF j
  <2>2. Coefs(p)[j] = p[j + 1] /\ Coefs(r)[i] = r[i + 1]
    BY <1>2, <1>3, <1>4, <2>1
  <2>3. r[i + 1] = p[j + 1]
    BY <1>1, <2>1
  <2> QED BY <1>4, <2>2, <2>3 DEF j
<1>5. CASE ~ (i < n)
  BY <1>3, <1>5
<1> QED BY <1>4, <1>5

\* All the coefficients of a product.
LEMMA PolyMulCoefs ==
    ASSUME NEW p \in Seq(Int), NEW q \in Seq(Int), p # <<>>, q # <<>>
    PROVE  \A k \in Nat : Same(Coefs(PolyMul(p, q))[k], SeriesProduct(Coefs(p), Coefs(q))[k])
<1> DEFINE c == Coefs(p)
           d == Coefs(q)
           z == PolyMul(p, q)
           n == Len(p)
           m == Len(q)
<1>1. n \in Nat \ {0} /\ m \in Nat \ {0}
  OBVIOUS
<1>2. /\ z \in Seq(Field) /\ Len(z) = n + m - 1
      /\ \A k \in 0 .. n + m - 2 : Same(Coefs(z)[k], Convolved(c, d, n)[k])
  BY PolyMulConvolves
<1> HIDE DEF z
<1>3. /\ c \in Coefficients /\ \A i \in Nat : c[i] = IF i < n THEN p[i + 1] ELSE 0
      /\ d \in Coefficients /\ \A i \in Nat : d[i] = IF i < m THEN q[i + 1] ELSE 0
  BY CoefsAre
<1>4. \A i \in Nat : Coefs(z)[i] = IF i < n + m - 1 THEN z[i + 1] ELSE 0
  BY <1>2, FieldsAreNumbers, CoefsAre
<1> HIDE DEF c, d, n, m
<1> SUFFICES ASSUME NEW k \in Nat PROVE Same(Coefs(z)[k], SeriesProduct(c, d)[k])
  BY DEF z, c, d
<1>5. CASE k < n + m - 1
  <2>1. k \in 0 .. n + m - 2
    BY <1>1, <1>5
  <2>2. \A j \in Nat : j >= n => c[j] = 0
    BY <1>1, <1>3
  <2>3. Convolved(c, d, n)[k] = SeriesProduct(c, d)[k]
    BY <1>1, <1>3, <2>2, TimesOfFew
  <2> QED BY <1>2, <2>1, <2>3
<1>6. CASE ~ (k < n + m - 1)
  <2>1. Coefs(z)[k] = 0
    BY <1>4, <1>6
  <2> DEFINE x == ProductTerms(c, d, k)
  <2>2. /\ Summands(x, k + 1) /\ SeriesProduct(c, d)[k] = SumTo(x, k + 1)
        /\ \A j \in Nat : x[j] = ProductTerm(c, d, k, j)
    BY <1>3, ProductTermsAre, k + 1 \in Nat
  <2> HIDE DEF x
  <2>3. \A j \in 0 .. (k + 1) - 1 : x[j] = 0
    <3> SUFFICES ASSUME NEW j \in 0 .. (k + 1) - 1 PROVE x[j] = 0
      OBVIOUS
    <3>1. j \in Nat /\ ~ (k < j) /\ k - j \in Nat
      OBVIOUS
    <3>2. x[j] = c[j] * d[k - j] /\ c[j] \in Int /\ d[k - j] \in Int
      BY <1>3, <2>2, <3>1 DEF ProductTerm, Coefficients
    <3>3. ~ (j < n) \/ ~ (k - j < m)
      BY <1>1, <1>6, <3>1
    <3>4. c[j] = 0 \/ d[k - j] = 0
      BY <1>3, <3>1, <3>3
    <3>5. CASE c[j] = 0
      BY <3>2, <3>5
    <3>6. CASE d[k - j] = 0
      BY <3>2, <3>6
    <3> QED BY <3>4, <3>5, <3>6
  <2>4. SumTo(x, k + 1) = SumTo(x, 0)
    BY <2>2, <2>3, SumOfZeros, 0 \in Nat, k + 1 \in Nat
  <2>5. SumTo(x, 0) = 0
    BY <2>2, SumSteps
  <2> QED BY <2>1, <2>2, <2>4, <2>5, SameItself, 0 \in Int
<1> QED BY <1>5, <1>6

\* The product of the reversed is the product, reversed.
LEMMA ReversedProduct ==
    ASSUME NEW p \in Seq(Int), NEW q \in Seq(Int), p # <<>>, q # <<>>, NEW k \in Nat, k < Len(p)
    PROVE  SeriesProduct(Coefs(p), Coefs(q))[(Len(p) + Len(q) - 2) - k]
           = SeriesProduct(Coefs(Seqs!Reverse(p)), Coefs(Seqs!Reverse(q)))[k]
<1> DEFINE c == Coefs(p)
           d == Coefs(q)
           e == Coefs(Seqs!Reverse(p))
           g == Coefs(Seqs!Reverse(q))
           n == Len(p)
           m == Len(q)
           l == (n + m - 2) - k
           x == ProductTerms(c, d, l)
           y == ProductTerms(e, g, k)
<1>1. n \in Nat \ {0} /\ m \in Nat \ {0}
  OBVIOUS
<1>2. /\ c \in Coefficients /\ \A i \in Nat : c[i] = IF i < n THEN p[i + 1] ELSE 0
      /\ d \in Coefficients /\ \A i \in Nat : d[i] = IF i < m THEN q[i + 1] ELSE 0
  BY CoefsAre
<1>3. e \in Coefficients /\ g \in Coefficients
  BY ReverseIs, CoefsAre
<1>4. /\ \A i \in Nat : e[i] = IF i < n THEN c[(n - 1) - i] ELSE 0
      /\ \A i \in Nat : g[i] = IF i < m THEN d[(m - 1) - i] ELSE 0
  BY ReverseCoefs
<1> HIDE DEF c, d, e, g, n, m
<1>5. l \in Nat
  BY <1>1 DEF n
<1>6. Convolved(c, d, n)[l] = SeriesProduct(c, d)[l]
  <2>1. \A j \in Nat : j >= n => c[j] = 0
    BY <1>1, <1>2
  <2> HIDE DEF l
  <2> QED BY <1>1, <1>2, <1>5, <2>1, TimesOfFew
<1>7. Convolved(e, g, n)[k] = SeriesProduct(e, g)[k]
  <2>1. k < n
    BY DEF n
  <2> QED BY <1>1, <1>3, <2>1, TimesOfMore
<1>8. /\ Summands(x, n) /\ Convolved(c, d, n)[l] = SumTo(x, n)
      /\ \A j \in Nat : x[j] = ProductTerm(c, d, l, j)
  <2> HIDE DEF l
  <2>1. n \in Nat /\ c \in Coefficients /\ d \in Coefficients /\ l \in Nat
    BY <1>1, <1>2, <1>5
  <2>2. \A j \in Nat : x[j] = ProductTerm(c, d, l, j)
    BY <2>1, ProductTermsAre
  <2>3. \A i \in Nat : Summands(x, i)
    BY <2>1, ProductTermsAre
  <2>4. \A i \in Nat : Convolved(c, d, i)[l] = SumTo(x, i)
    BY <2>1, ProductTermsAre
  <2> QED BY <2>1, <2>2, <2>3, <2>4
<1>9. /\ Convolved(e, g, n)[k] = SumTo(y, n)
      /\ \A j \in Nat : y[j] = ProductTerm(e, g, k, j)
  <2>1. n \in Nat
    BY <1>1
  <2>2. \A j \in Nat : y[j] = ProductTerm(e, g, k, j)
    BY <1>3, ProductTermsAre
  <2>3. \A i \in Nat : Convolved(e, g, i)[k] = SumTo(y, i)
    BY <1>3, ProductTermsAre
  <2> QED BY <2>1, <2>2, <2>3
<1> HIDE DEF x, y
<1>10. \A i \in 0 .. n-1 : y[i] = x[(n - 1) - i]
  <2> SUFFICES ASSUME NEW i \in 0 .. n-1 PROVE y[i] = x[(n - 1) - i]
    OBVIOUS
  <2> DEFINE j == (n - 1) - i
             a == c[j]
  <2>1. i \in Nat /\ j \in Nat /\ i < n /\ l - j = (m - 1) - (k - i) /\ (l < j <=> m - 1 < k - i)
    BY <1>1
  <2>2. e[i] = a /\ a \in Int
    BY <1>2, <1>4, <2>1 DEF Coefficients
  <2> HIDE DEF a, l, j
  <2>3. x[j] = a * (IF l < j THEN 0 ELSE d[l - j])
    BY <1>8, <2>1 DEF ProductTerm, a
  <2>4. y[i] = a * (IF k < i THEN 0 ELSE g[k - i])
    BY <1>9, <2>1, <2>2 DEF ProductTerm
  <2>5. CASE k < i
    <3> DEFINE h == l - j
    <3>1. h \in Nat /\ ~ (l < j) /\ ~ (h < m)
      BY <1>1, <1>5, <2>1, <2>5
    <3> HIDE DEF h
    <3>2. d[h] = 0
      BY <1>2, <3>1
    <3>3. x[j] = a * 0 /\ y[i] = a * 0
      BY <2>3, <2>4, <2>5, <3>1, <3>2 DEF h
    <3> QED BY <3>3 DEF j
  <2>6. CASE ~ (k < i)
    <3> DEFINE h == k - i
    <3>1. h \in Nat /\ (l < j <=> ~ (h < m)) /\ l - j = (m - 1) - h
      BY <1>1, <1>5, <2>1, <2>6
    <3> HIDE DEF h
    <3>2. g[h] = IF l < j THEN 0 ELSE d[l - j]
      BY <1>4, <3>1
    <3> QED BY <2>3, <2>4, <2>6, <3>2 DEF h, j
  <2> QED BY <2>5, <2>6
<1>11. SumTo(y, n) = SumTo(x, n)
  BY <1>1, <1>8, <1>10, SumReversed
<1> QED BY <1>6, <1>7, <1>8, <1>9, <1>11 DEF c, d, e, g, n, m

-----------------------------------------------------------------------------
(* The inverse of a power series, by Newton's iteration.                   *)

\* The first k coefficients of h times f are those of one.
Inverts(h, f, k) == \A i \in 0 .. k-1 : Same(SeriesProduct(Coefs(h), Coefs(f))[i], UnitSeries[i])

\* One round: 2h - h (h f), up to size coefficients.
Refined(h, f, size) ==
    Minus([i \in 1 .. size |-> 2 * At(h, i)],
          Shorter(PolyMul(h, Shorter(PolyMul(h, Resized(f, size)), size)), size), size)

\* If h f = 1 + e, and e begins with zeros, then (2h - h (h f)) f = 1 - e e.
LEMMA NewtonStep ==
    ASSUME NEW c \in Coefficients, NEW d \in Coefficients, NEW g \in Coefficients,
           NEW l \in Nat, NEW k \in Nat, k <= 2 * l,
           \A i \in 0 .. l-1 : Same(SeriesProduct(c, d)[i], UnitSeries[i]),
           \A i \in 0 .. k-1 : Same(g[i], 2 * c[i] - SeriesProduct(c, SeriesProduct(c, d))[i])
    PROVE  \A i \in 0 .. k-1 : Same(SeriesProduct(g, d)[i], UnitSeries[i])
<1> DEFINE u == SeriesProduct(c, d)
           w == SeriesProduct(c, u)
           e == [i \in Nat |-> u[i] - UnitSeries[i]]
<1>1. u \in Coefficients /\ UnitSeries \in Coefficients
  BY TimesIs, UnitIs
<1>2. w \in Coefficients
  <2> HIDE DEF u
  <2> QED BY <1>1, TimesIs
<1>3. e \in Coefficients /\ \A i \in Nat : e[i] = u[i] - UnitSeries[i] /\ u[i] = UnitSeries[i] + e[i]
  <2> HIDE DEF u
  <2>1. \A i \in Nat : u[i] \in Int /\ UnitSeries[i] \in Int
    BY <1>1 DEF Coefficients
  <2> QED BY <2>1 DEF Coefficients
<1>4. \A i \in 0 .. l-1 : Same(e[i], 0)
  <2> SUFFICES ASSUME NEW i \in 0 .. l-1 PROVE Same(e[i], 0)
    OBVIOUS
  <2>1. i \in Nat /\ Same(u[i], UnitSeries[i])
    OBVIOUS
  <2>2. u[i] \in Int /\ UnitSeries[i] \in Int
    BY <1>1, <2>1 DEF Coefficients
  <2> HIDE DEF u, e
  <2>3. Same(u[i] - UnitSeries[i], UnitSeries[i] - UnitSeries[i])
    BY <2>1, <2>2, SameItself, SameDifference
  <2>4. UnitSeries[i] - UnitSeries[i] = 0
    BY <2>2
  <2> QED BY <1>3, <2>1, <2>3, <2>4
<1> HIDE DEF u, w, e
<1> SUFFICES ASSUME NEW i \in 0 .. k-1 PROVE Same(SeriesProduct(g, d)[i], UnitSeries[i])
  OBVIOUS
<1>5. i \in Nat
  OBVIOUS
<1>6. Same(SeriesProduct(g, d)[i], 2 * u[i] + (-1) * SeriesProduct(w, d)[i])
  <2>1. \A j \in 0 .. i : Same(g[j], 2 * c[j] + (-1) * w[j])
    <3> SUFFICES ASSUME NEW j \in 0 .. i PROVE Same(g[j], 2 * c[j] + (-1) * w[j])
      OBVIOUS
    <3>1. j \in Nat /\ j \in 0 .. k-1
      BY <1>5
    <3>2. c[j] \in Int /\ w[j] \in Int
      BY <1>2, <3>1 DEF Coefficients
    <3>3. 2 * c[j] + (-1) * w[j] = 2 * c[j] - w[j]
      BY <3>2
    <3>4. Same(g[j], 2 * c[j] - w[j])
      BY <3>1 DEF w, u
    <3> QED BY <3>3, <3>4
  <2>2. -1 \in Int /\ 2 \in Int
    OBVIOUS
  <2> QED BY <1>2, <1>5, <2>1, <2>2, TimesCombines DEF u
<1>7. Same(SeriesProduct(w, d)[i], SeriesProduct(u, u)[i])
  \* (c u) d = c (u d) = c (d u) = (c d) u
  <2> DEFINE a == SeriesProduct(u, d)
             b == SeriesProduct(d, u)
  <2>1. a \in Coefficients /\ b \in Coefficients
    BY <1>1, TimesIs
  <2>2. Same(SeriesProduct(w, d)[i], SeriesProduct(c, a)[i])
    BY <1>1, <1>5, TimesAssociates DEF w
  <2>3. \A j \in 0 .. i : Same(a[j], b[j])
    <3> SUFFICES ASSUME NEW j \in 0 .. i PROVE Same(a[j], b[j])
      OBVIOUS
    <3>1. j \in Nat
      OBVIOUS
    <3>2. a[j] = b[j]
      BY <1>1, <3>1, TimesCommutes
    <3>3. b[j] \in Int
      BY <2>1, <3>1 DEF Coefficients
    <3> HIDE DEF a, b
    <3> QED BY <3>2, <3>3, SameItself
  <2>4. \A j \in 0 .. i : Same(c[j], c[j])
    <3> SUFFICES ASSUME NEW j \in 0 .. i PROVE Same(c[j], c[j])
      OBVIOUS
    <3>1. c[j] \in Int
      BY DEF Coefficients
    <3> QED BY <3>1, SameItself
  <2>5. Same(SeriesProduct(c, b)[i], SeriesProduct(u, u)[i])
    <3>1. Same(SeriesProduct(SeriesProduct(c, d), u)[i], SeriesProduct(c, b)[i])
      BY <1>1, <1>5, TimesAssociates
    <3>2. SeriesProduct(SeriesProduct(c, d), u)[i] = SeriesProduct(u, u)[i]
      BY DEF u
    <3>3. SeriesProduct(u, u)[i] \in Int
      BY <1>1, <1>5, ProductTermsAre
    <3>4. SeriesProduct(c, b)[i] \in Int
      <4> HIDE DEF b
      <4> QED BY <1>5, <2>1, ProductTermsAre
    <3> QED BY <3>1, <3>2, <3>3, <3>4, SameBack
  <2> HIDE DEF a, b
  <2>6. Same(SeriesProduct(c, a)[i], SeriesProduct(c, b)[i])
    BY <1>5, <2>1, <2>3, <2>4, TimesLocal
  <2>7. /\ SeriesProduct(w, d)[i] \in Int /\ SeriesProduct(c, a)[i] \in Int
        /\ SeriesProduct(c, b)[i] \in Int /\ SeriesProduct(u, u)[i] \in Int
    BY <1>1, <1>2, <1>5, <2>1, ProductTermsAre
  <2>8. Same(SeriesProduct(w, d)[i], SeriesProduct(c, b)[i])
    BY <2>2, <2>6, <2>7, SameOn
  <2> QED BY <2>5, <2>7, <2>8, SameOn
<1>8. Same(SeriesProduct(u, u)[i], UnitSeries[i] + 2 * e[i])
  \* (1 + e) u = u + e u, and e u = e + e e, and e e begins with zeros
  <2> DEFINE r == UnitSeries[i]
             s == e[i]
             y == SeriesProduct(e, u)[i]
             v == SeriesProduct(u, e)[i]
             q == SeriesProduct(e, e)[i]
  <2>1. r \in Int /\ s \in Int /\ u[i] = r + s
    BY <1>1, <1>3, <1>5 DEF Coefficients
  <2>2. y \in Int /\ v \in Int /\ q \in Int /\ SeriesProduct(u, u)[i] \in Int /\ y = v
    BY <1>1, <1>3, <1>5, ProductTermsAre, TimesCommutes
  <2>3. \A j \in 0 .. i : Same(u[j], 1 * UnitSeries[j] + 1 * e[j])
    <3> SUFFICES ASSUME NEW j \in 0 .. i PROVE Same(u[j], 1 * UnitSeries[j] + 1 * e[j])
      OBVIOUS
    <3>1. j \in Nat
      OBVIOUS
    <3>2. UnitSeries[j] \in Int /\ e[j] \in Int /\ u[j] \in Int /\ u[j] = UnitSeries[j] + e[j]
      BY <1>1, <1>3, <3>1 DEF Coefficients
    <3>3. 1 * UnitSeries[j] + 1 * e[j] = u[j]
      BY <3>2
    <3> QED BY <3>2, <3>3, SameItself
  <2>4. Same(SeriesProduct(u, u)[i], 1 * SeriesProduct(UnitSeries, u)[i] + 1 * y)
    BY <1>1, <1>3, <1>5, <2>3, TimesCombines, 1 \in Int
  <2>5. Same(v, 1 * SeriesProduct(UnitSeries, e)[i] + 1 * q)
    BY <1>1, <1>3, <1>5, <2>3, TimesCombines, 1 \in Int
  <2>6. SeriesProduct(UnitSeries, u)[i] = r + s /\ SeriesProduct(UnitSeries, e)[i] = s
    BY <1>1, <1>3, <1>5, <2>1, TimesUnit
  <2>7. Same(q, 0)
    <3> DEFINE x == ProductTerms(e, e, i)
               z == [j \in Nat |-> 0]
    <3>1. /\ Summands(x, i + 1) /\ q = SumTo(x, i + 1)
          /\ \A j \in Nat : x[j] = ProductTerm(e, e, i, j)
      BY <1>3, <1>5, ProductTermsAre, i + 1 \in Nat
    <3> HIDE DEF x
    <3>2. \A j \in 0 .. (i + 1) - 1 : Same(x[j], z[j])
      <4> SUFFICES ASSUME NEW j \in 0 .. (i + 1) - 1 PROVE Same(x[j], 0)
        BY <1>5
      <4>1. j \in Nat /\ ~ (i < j) /\ i - j \in Nat
        BY <1>5
      <4>2. x[j] = e[j] * e[i - j] /\ e[j] \in Int /\ e[i - j] \in Int
        BY <1>3, <3>1, <4>1 DEF ProductTerm, Coefficients
      <4>3. j < l \/ i - j < l
        BY <1>5, <4>1
      <4>4. j < l => j \in 0 .. l-1
        BY <4>1
      <4>5. i - j < l => i - j \in 0 .. l-1
        BY <4>1
      <4>6. Same(e[j], 0) \/ Same(e[i - j], 0)
        BY <1>4, <4>3, <4>4, <4>5
      <4>7. Same(e[j] * e[i - j], 0)
        BY <4>2, <4>6, ZeroProduct
      <4> QED BY <4>2, <4>7
    <3>3. Summands(z, i + 1)
      BY <1>5 DEF Summands
    <3>4. Same(SumTo(x, i + 1), SumTo(z, i + 1))
      <4> HIDE DEF z
      <4> QED BY <1>5, <3>1, <3>2, <3>3, SumsSame, i + 1 \in Nat
    <3>5. SumTo(z, i + 1) = SumTo(z, 0)
      <4>1. \A j \in 0 .. (i + 1) - 1 : z[j] = 0
        BY <1>5
      <4> HIDE DEF z
      <4> QED BY <1>5, <3>3, <4>1, SumOfZeros, 0 \in Nat, i + 1 \in Nat
    <3>6. SumTo(z, 0) = 0
      <4> HIDE DEF z
      <4> QED BY <1>5, <3>3, SumSteps
    <3> QED BY <3>1, <3>4, <3>5, <3>6
  <2> DEFINE p == SeriesProduct(u, u)[i]
  <2> HIDE DEF p, r, s, y, v, q
  <2>8. 1 * (r + s) + 1 * y = (r + s) + y /\ 1 * s + 1 * q = s + q
    BY <2>1, <2>2
  <2>9. Same(p, (r + s) + y) /\ Same(y, s + q) /\ p \in Int
    BY <2>2, <2>4, <2>5, <2>6, <2>8 DEF p, y
  <2>10. Same(s + q, s + 0)
    BY <2>1, <2>2, <2>7, SameItself, SameSum, 0 \in Int
  <2>11. s + 0 = s /\ s + q \in Int /\ r + s \in Int
    BY <2>1, <2>2
  <2>12. Same(y, s)
    BY <2>1, <2>2, <2>9, <2>10, <2>11, SameOn
  <2>13. Same((r + s) + y, (r + s) + s)
    BY <2>1, <2>2, <2>11, <2>12, SameItself, SameSum
  <2>14. (r + s) + s = r + 2 * s /\ (r + s) + s \in Int /\ (r + s) + y \in Int
    BY <2>1, <2>2
  <2>15. Same(p, (r + s) + s)
    BY <2>9, <2>13, <2>14, SameOn
  <2> QED BY <2>14, <2>15 DEF p, r, s
<1> DEFINE r == UnitSeries[i]
           s == e[i]
           p == SeriesProduct(w, d)[i]
           o == SeriesProduct(u, u)[i]
           h == SeriesProduct(g, d)[i]
<1>9. r \in Int /\ s \in Int /\ p \in Int /\ o \in Int /\ h \in Int /\ u[i] = r + s
  BY <1>1, <1>2, <1>3, <1>5, ProductTermsAre DEF Coefficients
<1>10. Same(h, 2 * u[i] + (-1) * p) /\ Same(p, o) /\ Same(o, r + 2 * s)
  BY <1>6, <1>7, <1>8
<1> HIDE DEF r, s, p, o, h
<1>11. r + 2 * s \in Int /\ 2 * (r + s) \in Int /\ 2 * u[i] + (-1) * p = 2 * (r + s) - p
       /\ 2 * (r + s) - (r + 2 * s) = r /\ 2 * (r + s) - p \in Int
  BY <1>9
<1>12. Same(p, r + 2 * s)
  BY <1>9, <1>10, <1>11, SameOn
<1>13. Same(2 * (r + s) - p, 2 * (r + s) - (r + 2 * s))
  BY <1>9, <1>11, <1>12, SameItself, SameDifference
<1>14. Same(h, r)
  BY <1>9, <1>10, <1>11, <1>13, SameOn
<1> QED BY <1>14 DEF h, r

LEMMA LongerThanNothing ==
    ASSUME NEW S, NEW p \in Seq(S)
    PROVE  p # <<>> <=> Len(p) >= 1
OBVIOUS

LEMMA RefinedParts ==
    ASSUME NEW f \in Seq(Field), NEW h \in Seq(Field), h # <<>>, NEW size \in Nat \ {0}
    PROVE  LET F == Resized(f, size)
               once == Shorter(PolyMul(h, F), size)
               twice == Shorter(PolyMul(h, once), size)
               double == [i \in 1 .. size |-> 2 * At(h, i)]
           IN  /\ F \in Seq(Int) /\ F # <<>> /\ \A i \in 0 .. size-1 : Coefs(F)[i] = Coefs(f)[i]
               /\ once \in Seq(Int) /\ once # <<>>
               /\ PolyMul(h, F) \in Seq(Int) /\ PolyMul(h, once) \in Seq(Int)
               /\ \A i \in 0 .. size-1 : Coefs(once)[i] = Coefs(PolyMul(h, F))[i]
               /\ twice \in Seq(Int)
               /\ \A i \in 0 .. size-1 : Coefs(twice)[i] = Coefs(PolyMul(h, once))[i]
               /\ double \in Seq(Int)
               /\ \A i \in 0 .. size-1 : Coefs(double)[i] = 2 * Coefs(h)[i]
<1> DEFINE F == Resized(f, size)
           M == PolyMul(h, F)
           once == Shorter(M, size)
           N == PolyMul(h, once)
           twice == Shorter(N, size)
           double == [i \in 1 .. size |-> 2 * At(h, i)]
<1>1. f \in Seq(Int) /\ h \in Seq(Int) /\ Len(h) >= 1 /\ Len(h) \in Nat
  BY FieldsAreNumbers, LongerThanNothing
<1>2. /\ F \in Seq(Field) /\ F \in Seq(Int) /\ Len(F) = size /\ F # <<>>
      /\ \A i \in Nat : Coefs(F)[i] = IF i < size THEN Coefs(f)[i] ELSE 0
  <2>1. /\ F \in Seq(Field) /\ Len(F) = size
        /\ \A i \in Nat : Coefs(F)[i] = IF i < size THEN Coefs(f)[i] ELSE 0
    BY ModulusIs, InField, ResizedCoefs
  <2> HIDE DEF F
  <2> QED BY <2>1, FieldsAreNumbers, LongerThanNothing
<1> HIDE DEF F
<1>3. M \in Seq(Field) /\ M \in Seq(Int) /\ Len(M) = Len(h) + size - 1
  BY <1>1, <1>2, PolyMulConvolves, FieldsAreNumbers
<1> HIDE DEF M
<1>4. /\ once \in Seq(Int) /\ once # <<>> /\ Len(once) = size
      /\ \A i \in Nat : Coefs(once)[i] = IF i < size THEN Coefs(M)[i] ELSE 0
  <2>1. once \in Seq(Int) /\ Len(once) = IF Len(M) <= size THEN Len(M) ELSE size
    BY <1>3, ShorterIs
  <2>2. \A i \in Nat : Coefs(once)[i] = IF i < size THEN Coefs(M)[i] ELSE 0
    BY <1>3, ShorterCoefs
  <2> HIDE DEF once
  <2>3. Len(once) = size
    BY <1>1, <1>3, <2>1
  <2> QED BY <2>1, <2>2, <2>3, LongerThanNothing
<1> HIDE DEF once
<1>5. N \in Seq(Int)
  BY <1>1, <1>4, PolyMulConvolves, FieldsAreNumbers
<1> HIDE DEF N
<1>6. /\ twice \in Seq(Int)
      /\ \A i \in Nat : Coefs(twice)[i] = IF i < size THEN Coefs(N)[i] ELSE 0
  BY <1>5, ShorterIs, ShorterCoefs
<1> HIDE DEF twice
<1>7. \A i \in Nat : Coefs(h)[i] = At(h, i + 1) /\ At(h, i + 1) \in Int
  <2>1. Coefs(h) \in Coefficients /\ \A i \in Nat : Coefs(h)[i] = At(h, i + 1)
    BY <1>1, CoefsAre
  <2>2. \A i \in Nat : Coefs(h)[i] \in Int
    BY <2>1 DEF Coefficients
  <2> QED BY <2>1, <2>2
<1>8. double \in Seq(Int) /\ Len(double) = size
  <2>1. \A i \in 1 .. size : 2 * At(h, i) \in Int
    <3> SUFFICES ASSUME NEW i \in 1 .. size PROVE 2 * At(h, i) \in Int
      OBVIOUS
    <3>1. i - 1 \in Nat /\ (i - 1) + 1 = i
      OBVIOUS
    <3>2. At(h, (i - 1) + 1) \in Int
      BY <1>7, <3>1
    <3> QED BY <3>1, <3>2
  <2>2. double \in [1 .. size -> Int]
    BY <2>1
  <2> QED BY <2>2, SequenceIs
<1>9. \A i \in 0 .. size-1 : Coefs(double)[i] = 2 * Coefs(h)[i]
  <2> SUFFICES ASSUME NEW i \in 0 .. size-1 PROVE Coefs(double)[i] = 2 * Coefs(h)[i]
    OBVIOUS
  <2>1. i \in Nat /\ i < size /\ i + 1 \in 1 .. size
    OBVIOUS
  <2>2. double[i + 1] = 2 * At(h, i + 1)
    BY <2>1
  <2> HIDE DEF double
  <2>3. Coefs(double)[i] = double[i + 1]
    BY <1>8, <2>1, CoefsAre
  <2> QED BY <1>7, <2>1, <2>2, <2>3
<1> HIDE DEF double
<1>10. \A i \in 0 .. size-1 : i \in Nat /\ i < size
  OBVIOUS
<1>11. /\ \A i \in 0 .. size-1 : Coefs(F)[i] = Coefs(f)[i]
       /\ \A i \in 0 .. size-1 : Coefs(once)[i] = Coefs(M)[i]
       /\ \A i \in 0 .. size-1 : Coefs(twice)[i] = Coefs(N)[i]
  BY <1>2, <1>4, <1>6, <1>10
<1> QED BY <1>2, <1>3, <1>4, <1>5, <1>6, <1>8, <1>9, <1>11 DEF F, M, once, N, twice, double

LEMMA RefinedIs ==
    ASSUME NEW f \in Seq(Field), NEW h \in Seq(Field), h # <<>>, NEW size \in Nat \ {0}
    PROVE  Refined(h, f, size) \in OfLength(size)
<1> DEFINE F == Resized(f, size)
           once == Shorter(PolyMul(h, F), size)
           twice == Shorter(PolyMul(h, once), size)
           double == [i \in 1 .. size |-> 2 * At(h, i)]
<1>1. twice \in Seq(Int) /\ double \in Seq(Int)
  BY RefinedParts
<1>2. Refined(h, f, size) = Minus(double, twice, size)
  BY DEF Refined
<1> HIDE DEF twice, double
<1>3. Minus(double, twice, size) \in Seq(Field) /\ Len(Minus(double, twice, size)) = size
  BY <1>1, MinusCoefs
<1> QED BY <1>2, <1>3 DEF OfLength

\* A round doubles the coefficients that are right.
LEMMA RefinedInverts ==
    ASSUME NEW f \in Seq(Field), NEW h \in Seq(Field), h # <<>>, NEW l \in Nat \ {0},
           Inverts(h, f, l)
    PROVE  Inverts(Refined(h, f, 2 * l), f, 2 * l)
<1> DEFINE size == 2 * l
           F == Resized(f, size)
           M == PolyMul(h, F)
           once == Shorter(M, size)
           N == PolyMul(h, once)
           twice == Shorter(N, size)
           double == [i \in 1 .. size |-> 2 * At(h, i)]
           g == Minus(double, twice, size)
           c == Coefs(h)
           d == Coefs(f)
<1>1. size \in Nat \ {0}
  OBVIOUS
<1>2. /\ F \in Seq(Int) /\ F # <<>> /\ \A i \in 0 .. size-1 : Coefs(F)[i] = d[i]
      /\ once \in Seq(Int) /\ once # <<>> /\ M \in Seq(Int) /\ N \in Seq(Int)
      /\ \A i \in 0 .. size-1 : Coefs(once)[i] = Coefs(M)[i]
      /\ twice \in Seq(Int)
      /\ \A i \in 0 .. size-1 : Coefs(twice)[i] = Coefs(N)[i]
      /\ double \in Seq(Int)
      /\ \A i \in 0 .. size-1 : Coefs(double)[i] = 2 * c[i]
  <2> HIDE DEF size
  <2> QED BY <1>1, RefinedParts
<1>3. Refined(h, f, size) = g
  BY DEF Refined
<1>4. f \in Seq(Int) /\ h \in Seq(Int)
  BY FieldsAreNumbers
<1>5. c \in Coefficients /\ d \in Coefficients
  BY <1>4, CoefsAre
<1> HIDE DEF double, size, F
<1>6. \A i \in Nat : Same(Coefs(M)[i], SeriesProduct(c, Coefs(F))[i])
  BY <1>2, <1>4, PolyMulCoefs
<1> HIDE DEF M
<1>7. \A i \in Nat : Same(Coefs(N)[i], SeriesProduct(c, Coefs(once))[i])
  <2> HIDE DEF once
  <2> QED BY <1>2, <1>4, PolyMulCoefs
<1> HIDE DEF N, once, twice
<1>8. /\ g \in Seq(Field)
      /\ \A i \in 0 .. size-1 : Same(Coefs(g)[i], Coefs(double)[i] - Coefs(twice)[i])
  BY <1>1, <1>2, MinusCoefs
<1> HIDE DEF g
<1>9. /\ Coefs(g) \in Coefficients /\ Coefs(F) \in Coefficients
      /\ Coefs(once) \in Coefficients /\ Coefs(twice) \in Coefficients
      /\ Coefs(M) \in Coefficients /\ Coefs(N) \in Coefficients
  BY <1>2, <1>8, CoefsAre, FieldsAreNumbers
<1> HIDE DEF c, d
<1> DEFINE u == SeriesProduct(c, d)
<1>10. u \in Coefficients
  BY <1>5, TimesIs
<1>11. \A x \in Coefficients : \A i \in Nat : x[i] \in Int /\ Same(x[i], x[i])
  BY SameItself DEF Coefficients
<1>12. ASSUME NEW i \in 0 .. size-1
       PROVE  Same(Coefs(once)[i], u[i])
  <2>1. i \in Nat
    BY <1>1
  <2>2. Same(Coefs(once)[i], SeriesProduct(c, Coefs(F))[i])
    BY <1>2, <1>6, <2>1
  <2>3. \A j \in 0 .. i : Same(c[j], c[j]) /\ Same(Coefs(F)[j], d[j])
    <3> SUFFICES ASSUME NEW j \in 0 .. i PROVE Same(c[j], c[j]) /\ Same(Coefs(F)[j], d[j])
      OBVIOUS
    <3>1. j \in Nat /\ j \in 0 .. size-1
      BY <1>1, <2>1
    <3>2. Coefs(F)[j] = d[j]
      BY <1>2, <3>1
    <3> QED BY <1>5, <1>11, <3>1, <3>2
  <2>4. Same(SeriesProduct(c, Coefs(F))[i], u[i])
    BY <1>5, <1>9, <2>1, <2>3, TimesLocal
  <2>5. Coefs(once)[i] \in Int /\ u[i] \in Int /\ SeriesProduct(c, Coefs(F))[i] \in Int
    <3>1. SeriesProduct(c, Coefs(F))[i] \in Int
      BY <1>5, <1>9, <2>1, ProductTermsAre
    <3> QED BY <1>9, <1>10, <1>11, <2>1, <3>1
  <2> QED BY <2>2, <2>4, <2>5, SameOn
<1> HIDE DEF u
<1>13. ASSUME NEW i \in 0 .. size-1
       PROVE  Same(Coefs(twice)[i], SeriesProduct(c, u)[i])
  <2>1. i \in Nat
    BY <1>1
  <2>2. Same(Coefs(twice)[i], SeriesProduct(c, Coefs(once))[i])
    BY <1>2, <1>7, <2>1
  <2>3. \A j \in 0 .. i : Same(c[j], c[j]) /\ Same(Coefs(once)[j], u[j])
    <3> SUFFICES ASSUME NEW j \in 0 .. i PROVE Same(c[j], c[j]) /\ Same(Coefs(once)[j], u[j])
      OBVIOUS
    <3>1. j \in Nat /\ j \in 0 .. size-1
      BY <1>1, <2>1
    <3> QED BY <1>5, <1>11, <1>12, <3>1
  <2>4. Same(SeriesProduct(c, Coefs(once))[i], SeriesProduct(c, u)[i])
    BY <1>5, <1>9, <1>10, <2>1, <2>3, TimesLocal
  <2>5. Coefs(twice)[i] \in Int /\ SeriesProduct(c, u)[i] \in Int /\ SeriesProduct(c, Coefs(once))[i] \in Int
    BY <1>5, <1>9, <1>10, <1>11, <2>1, ProductTermsAre
  <2> QED BY <2>2, <2>4, <2>5, SameOn
<1>14. \A i \in 0 .. size-1 : Same(Coefs(g)[i], 2 * c[i] - SeriesProduct(c, u)[i])
  <2> SUFFICES ASSUME NEW i \in 0 .. size-1 PROVE Same(Coefs(g)[i], 2 * c[i] - SeriesProduct(c, u)[i])
    OBVIOUS
  <2>1. i \in Nat
    BY <1>1
  <2> DEFINE a == Coefs(g)[i]
             b == Coefs(twice)[i]
             e == SeriesProduct(c, u)[i]
             z == 2 * c[i]
  <2>2. a \in Int /\ b \in Int /\ e \in Int /\ z \in Int
    <3>1. e \in Int
      BY <1>5, <1>10, <2>1, ProductTermsAre
    <3>2. a \in Int /\ b \in Int /\ c[i] \in Int
      BY <1>5, <1>9, <1>11, <2>1
    <3> QED BY <3>1, <3>2
  <2>3. Same(a, z - b) /\ Same(b, e)
    BY <1>2, <1>8, <1>13
  <2> HIDE DEF a, b, e, z
  <2>4. Same(z - b, z - e)
    BY <2>2, <2>3, SameItself, SameDifference
  <2>5. Same(a, z - e)
    <3>1. z - b \in Int /\ z - e \in Int
      BY <2>2
    <3> QED BY <2>2, <2>3, <2>4, <3>1, SameOn
  <2> QED BY <2>5 DEF a, e, z
<1>15. \A i \in 0 .. l-1 : Same(u[i], UnitSeries[i])
  BY DEF Inverts, u, c, d
<1>16. \A i \in 0 .. size-1 : Same(SeriesProduct(Coefs(g), d)[i], UnitSeries[i])
  <2>1. size <= 2 * l /\ size \in Nat /\ l \in Nat
    BY DEF size
  <2> QED BY <1>5, <1>9, <1>14, <1>15, <2>1, NewtonStep DEF u
<1>17. Inverts(g, f, size)
  BY <1>16 DEF Inverts, d
<1> QED BY <1>3, <1>17 DEF size

Newtons(u, f, n) ==
    u = [s \in 0 .. n |-> IF s = 0 THEN <<FieldInverse(f[1])>> ELSE Refined(u[s - 1], f, 2 ^ s)]

LEMMA NewtonsAre ==
    ASSUME NEW f \in Seq(Field), f # <<>>, f[1] # 0, NEW n \in Nat,
           NEW u, u = CHOOSE v : Newtons(v, f, n)
    PROVE  /\ u[0] = <<FieldInverse(f[1])>> /\ FieldInverse(f[1]) \in Field
           /\ \A s \in 1 .. n : u[s] = Refined(u[s - 1], f, 2 ^ s)
<1> DEFINE V == {h \in Seq(Field) : h # <<>>}
           b == <<FieldInverse(f[1])>>
           G == [x \in (1 .. n) \X V |-> Refined(x[2], f, 2 ^ x[1])]
<1>1. f[1] \in Field
  <2>1. 1 \in 1 .. Len(f)
    BY LongerThanNothing
  <2> QED BY <2>1
<1>2. FieldInverse(f[1]) \in Field
  BY <1>1, FieldInverseIs
<1>3. b \in V
  BY <1>2
<1>4. ASSUME NEW i \in 1 .. n, NEW h \in V
      PROVE  G[<<i, h>>] = Refined(h, f, 2 ^ i) /\ G[<<i, h>>] \in V
  <2>1. G[<<i, h>>] = Refined(h, f, 2 ^ i)
    BY <1>4
  <2> DEFINE size == 2 ^ i
             r == Refined(h, f, size)
  <2>2. size \in Nat \ {0}
    BY PowerStep
  <2> HIDE DEF size
  <2>3. r \in OfLength(size)
    BY <2>2, RefinedIs
  <2> HIDE DEF r
  <2>4. r \in Seq(Field) /\ Len(r) >= 1
    BY <2>2, <2>3 DEF OfLength
  <2>5. r \in V
    BY <2>4, LongerThanNothing
  <2> QED BY <2>1, <2>5 DEF r, size
<1> HIDE DEF G, b, V
<1>5. Steps(G, V, n)
  BY <1>4 DEF Steps
<1>6. PICK w \in [0 .. n -> V] : Iterated(w, b, G, n)
  BY <1>3, <1>5, Iterates
<1>7. Newtons(w, f, n)
  <2> DEFINE e == [s \in 0 .. n |-> IF s = 0 THEN <<FieldInverse(f[1])>>
                                     ELSE Refined(w[s - 1], f, 2 ^ s)]
  <2>1. \A s \in 0 .. n : w[s] = e[s]
    <3> SUFFICES ASSUME NEW s \in 0 .. n
                 PROVE  w[s] = IF s = 0 THEN <<FieldInverse(f[1])>>
                               ELSE Refined(w[s - 1], f, 2 ^ s)
      OBVIOUS
    <3>1. CASE s = 0
      BY <1>6, <3>1 DEF Iterated, b
    <3>2. CASE s # 0
      <4>1. s \in 1 .. n /\ s - 1 \in 0 .. n
        BY <3>2
      <4>2. w[s - 1] \in V /\ w[s] = G[<<s, w[s - 1]>>]
        BY <1>6, <4>1 DEF Iterated
      <4> QED BY <1>4, <3>2, <4>1, <4>2
    <3> QED BY <3>1, <3>2
  <2>2. w = [s \in 0 .. n |-> w[s]] /\ e = [s \in 0 .. n |-> e[s]]
    OBVIOUS
  <2> HIDE DEF e
  <2>3. w = e
    BY <2>1, <2>2
  <2> QED BY <2>3 DEF e, Newtons
<1>8. Newtons(u, f, n)
  BY <1>7, Zenon
<1>9. \A s \in 0 .. n : u[s] = IF s = 0 THEN <<FieldInverse(f[1])>> ELSE Refined(u[s - 1], f, 2 ^ s)
  <2> DEFINE e == [s \in 0 .. n |-> IF s = 0 THEN <<FieldInverse(f[1])>>
                                     ELSE Refined(u[s - 1], f, 2 ^ s)]
  <2>1. u = e
    BY <1>8 DEF Newtons
  <2> HIDE DEF e
  <2>2. \A s \in 0 .. n : u[s] = e[s]
    BY <2>1
  <2> QED BY <2>2 DEF e
<1>10. \A s \in 1 .. n : s \in 0 .. n /\ s # 0
  OBVIOUS
<1> QED BY <1>2, <1>9, <1>10

\* After s rounds there are 2^s coefficients, and they are those of 1 / f.
LEMMA NewtonsInvert ==
    ASSUME NEW f \in Seq(Field), f # <<>>, f[1] # 0, NEW n \in Nat,
           NEW u, u = CHOOSE v : Newtons(v, f, n)
    PROVE  \A s \in 0 .. n : u[s] \in OfLength(2 ^ s) /\ Inverts(u[s], f, 2 ^ s)
<1>1. /\ u[0] = <<FieldInverse(f[1])>> /\ FieldInverse(f[1]) \in Field
      /\ \A s \in 1 .. n : u[s] = Refined(u[s - 1], f, 2 ^ s)
  BY NewtonsAre
<1> DEFINE Good(s) == u[s] \in OfLength(2 ^ s) /\ Inverts(u[s], f, 2 ^ s)
           S == {m \in Nat : m <= n => Good(m)}
<1>2. Good(0)
  <2> DEFINE y == FieldInverse(f[1])
             h == <<y>>
             c == Coefs(h)
             d == Coefs(f)
  <2>1. 1 \in 1 .. Len(f) /\ f[1] \in Field /\ Len(f) \in Nat
    BY LongerThanNothing
  <2>2. y \in Field /\ (f[1] * y) % Modulus = 1
    BY <2>1, FieldInverseIs
  <2> HIDE DEF y
  <2>3. h \in Seq(Field) /\ Len(h) = 1 /\ h[1] = y /\ 2 ^ 0 = 1 /\ u[0] = h
    BY <1>1, <2>2 DEF y
  <2> HIDE DEF h
  <2>4. f \in Seq(Int) /\ h \in Seq(Int)
    BY <2>3, FieldsAreNumbers
  <2>5. c \in Coefficients /\ d \in Coefficients /\ c[0] = h[0 + 1] /\ d[0] = f[0 + 1]
    <3>1. 0 \in Nat /\ 0 < Len(f) /\ 0 < Len(h)
      BY <2>1, <2>3
    <3>2. c \in Coefficients /\ d \in Coefficients
      BY <2>4, CoefsAre
    <3>3. c[0] = IF 0 < Len(h) THEN h[0 + 1] ELSE 0
      BY <2>4, <3>1, CoefsAre
    <3>4. d[0] = IF 0 < Len(f) THEN f[0 + 1] ELSE 0
      BY <2>4, <3>1, CoefsAre
    <3> QED BY <3>1, <3>2, <3>3, <3>4
  <2> HIDE DEF c, d
  <2>6. Convolved(c, d, 0 + 1)[0] = Convolved(c, d, 0)[0] + c[0] * (IF 0 < 0 THEN 0 ELSE d[0 - 0])
        /\ Convolved(c, d, 0)[0] = 0
    BY <2>5, ConvolvedSteps, 0 \in Nat
  <2>7. SeriesProduct(c, d)[0] = Convolved(c, d, 0 + 1)[0]
    BY DEF SeriesProduct
  <2>8. y \in Int /\ f[1] \in Int
    BY <2>1, <2>2, InField
  <2>9. c[0] = y /\ d[0 - 0] = f[1] /\ y * f[1] = f[1] * y /\ f[1] * y \in Int
    BY <2>3, <2>5, <2>8
  <2>10. SeriesProduct(c, d)[0] = f[1] * y
    BY <2>6, <2>7, <2>9
  <2>11. Same(f[1] * y, 1)
    <3> DEFINE z == f[1] * y
    <3>1. z \in Int /\ z % Modulus = 1
      BY <2>2, <2>9
    <3> HIDE DEF z
    <3>2. Same(1, z) /\ 1 \in Int
      BY <3>1, Remainder
    <3>3. Same(z, 1)
      BY <3>1, <3>2, SameBack
    <3> QED BY <3>3 DEF z
  <2>12. \A i \in 0 .. 1 - 1 : Same(SeriesProduct(c, d)[i], UnitSeries[i])
    <3>1. \A i \in 0 .. 1 - 1 : i = 0
      OBVIOUS
    <3>2. UnitSeries[0] = 1
      BY DEF UnitSeries
    <3> QED BY <2>10, <2>11, <3>1, <3>2
  <2> QED BY <2>3, <2>12 DEF Inverts, OfLength, c, d
<1>3. \A s \in Nat : s \in S => s + 1 \in S
  <2> HIDE DEF Good
  <2> SUFFICES ASSUME NEW s \in Nat, s \in S, s + 1 <= n PROVE Good(s + 1)
    OBVIOUS
  <2> DEFINE h == u[s]
             l == 2 ^ s
             t == s + 1
  <2>1. Good(s) /\ t \in 1 .. n /\ t - 1 = s
    OBVIOUS
  <2>2. l \in Nat \ {0} /\ 2 ^ t = 2 * l
    BY PowerStep
  <2>3. h \in OfLength(l) /\ Inverts(h, f, l)
    BY <2>1 DEF Good
  <2> HIDE DEF t
  <2>4. u[t] = Refined(h, f, 2 * l)
    BY <1>1, <2>1, <2>2
  <2> HIDE DEF h, l
  <2>5. h \in Seq(Field) /\ h # <<>>
    <3>1. h \in Seq(Field) /\ Len(h) = l
      BY <2>3 DEF OfLength
    <3> QED BY <2>2, <3>1, LongerThanNothing
  <2>6. Inverts(Refined(h, f, 2 * l), f, 2 * l)
    BY <2>2, <2>3, <2>5, RefinedInverts
  <2>7. Refined(h, f, 2 * l) \in OfLength(2 * l)
    <3> DEFINE k == 2 * l
    <3>1. k \in Nat \ {0}
      BY <2>2
    <3> HIDE DEF k
    <3>2. Refined(h, f, k) \in OfLength(k)
      BY <2>5, <3>1, RefinedIs
    <3> QED BY <3>2 DEF k
  <2>8. Good(t)
    BY <2>2, <2>4, <2>6, <2>7 DEF Good
  <2> QED BY <2>8 DEF t
<1> HIDE DEF Good
<1>4. \A s \in Nat : s \in S
  <2>1. 0 \in S
    BY <1>2
  <2> HIDE DEF S
  <2> QED BY <1>3, <2>1, Reaches
<1>5. \A s \in 0 .. n : Good(s)
  BY <1>4
<1> QED BY <1>5 DEF Good

\* poly_inv: as many coefficients of the inverse as are asked for.
THEOREM PolyInvInverts ==
    ASSUME NEW f \in Seq(Field), f # <<>>, f[1] # 0, NEW deg \in Nat \ {0}
    PROVE  PolyInv(f, deg) \in OfLength(deg) /\ Inverts(PolyInv(f, deg), f, deg)
<1> DEFINE g == CHOOSE v : Newtons(v, f, deg)
           rounds == CHOOSE s \in 0 .. deg : 2 ^ s = NextPowerOfTwo(deg)
           k == 2 ^ rounds
           h == g[rounds]
           r == SubSeq(h, 1, deg)
<1>1. PolyInv(f, deg) = r
  BY DEF PolyInv, Newtons, Refined
<1>2. rounds \in 0 .. deg /\ k = NextPowerOfTwo(deg)
  <2>1. PICK d \in Nat : NextPowerOfTwo(deg) = 2 ^ d /\ d <= deg
    BY NextPowerOfTwoIs
  <2>2. d \in 0 .. deg /\ 2 ^ d = NextPowerOfTwo(deg)
    BY <2>1
  <2>3. \E s \in 0 .. deg : 2 ^ s = NextPowerOfTwo(deg)
    BY <2>2
  <2> QED BY <2>3, Zenon
<1>3. k \in Nat /\ deg <= k
  BY <1>2, NextPowerOfTwoIs
<1>4. h \in OfLength(k) /\ Inverts(h, f, k)
  <2>1. \A s \in 0 .. deg : g[s] \in OfLength(2 ^ s) /\ Inverts(g[s], f, 2 ^ s)
    <3>1. deg \in Nat
      OBVIOUS
    <3> HIDE DEF g
    <3>2. g = CHOOSE v : Newtons(v, f, deg)
      BY DEF g
    <3> QED BY <3>1, <3>2, NewtonsInvert
  <2> HIDE DEF g, rounds
  <2> QED BY <1>2, <2>1
<1> HIDE DEF h, k, rounds
<1>5. h \in Seq(Field) /\ Len(h) = k
  BY <1>4 DEF OfLength
<1>6. r = Shorter(h, deg)
  <2>1. Len(h) <= deg => Len(h) = deg
    BY <1>3, <1>5
  <2> QED BY <2>1 DEF Shorter
<1>7. r \in Seq(Field) /\ Len(r) = deg
  <2> HIDE DEF r
  <2>1. r \in Seq(Field) /\ Len(r) = IF Len(h) <= deg THEN Len(h) ELSE deg
    BY <1>5, <1>6, ShorterIs
  <2> QED BY <1>3, <1>5, <2>1
<1>8. \A i \in Nat : Coefs(r)[i] = IF i < deg THEN Coefs(h)[i] ELSE 0
  <2> HIDE DEF r
  <2> QED BY <1>5, <1>6, FieldsAreNumbers, ShorterCoefs
<1> HIDE DEF r
<1> DEFINE c == Coefs(h)
           e == Coefs(r)
           d == Coefs(f)
<1>9. c \in Coefficients /\ d \in Coefficients /\ e \in Coefficients
  BY <1>5, <1>7, FieldsAreNumbers, CoefsAre
<1> HIDE DEF c, d, e
<1>10. \A x \in Coefficients : \A i \in Nat : x[i] \in Int /\ Same(x[i], x[i])
  BY SameItself DEF Coefficients
<1>11. ASSUME NEW i \in 0 .. deg-1
       PROVE  Same(SeriesProduct(e, d)[i], UnitSeries[i])
  <2>1. i \in Nat /\ i \in 0 .. k-1
    BY <1>3
  <2>2. Same(SeriesProduct(c, d)[i], UnitSeries[i])
    BY <1>4, <2>1 DEF Inverts, c, d
  <2>3. \A j \in 0 .. i : Same(e[j], c[j]) /\ Same(d[j], d[j])
    <3> SUFFICES ASSUME NEW j \in 0 .. i PROVE Same(e[j], c[j]) /\ Same(d[j], d[j])
      OBVIOUS
    <3>1. j \in Nat /\ j < deg
      BY <2>1
    <3>2. e[j] = c[j]
      BY <1>8, <3>1 DEF c, e
    <3> QED BY <1>9, <1>10, <3>1, <3>2
  <2>4. Same(SeriesProduct(e, d)[i], SeriesProduct(c, d)[i])
    BY <1>9, <2>1, <2>3, TimesLocal
  <2>5. SeriesProduct(e, d)[i] \in Int /\ SeriesProduct(c, d)[i] \in Int
    BY <1>9, <2>1, ProductTermsAre
  <2>6. UnitSeries[i] \in Int
    BY <1>10, <2>1, UnitIs
  <2> QED BY <2>2, <2>4, <2>5, <2>6, SameOn
<1> QED BY <1>1, <1>7, <1>11 DEF Inverts, OfLength, d, e

-----------------------------------------------------------------------------
(* Division by the inverse of the reversed divisor.                        *)

LEMMA SeriesAre == \A x \in Coefficients : \A i \in Nat : x[i] \in Int /\ Same(x[i], x[i])
BY SameItself DEF Coefficients

\* b inverts d up to k, so (a b) d is a up to k.
LEMMA InverseCancels ==
    ASSUME NEW a \in Coefficients, NEW b \in Coefficients, NEW d \in Coefficients,
           NEW e \in Coefficients, NEW k \in Nat,
           \A i \in 0 .. k : Same(SeriesProduct(b, d)[i], UnitSeries[i]),
           \A i \in 0 .. k : Same(e[i], SeriesProduct(a, b)[i])
    PROVE  Same(SeriesProduct(e, d)[k], a[k])
<1> DEFINE u == SeriesProduct(a, b)
           w == SeriesProduct(b, d)
<1>1. u \in Coefficients /\ w \in Coefficients /\ UnitSeries \in Coefficients
  BY TimesIs, UnitIs
<1>2. \A i \in 0 .. k : i \in Nat
  OBVIOUS
<1>3. Same(SeriesProduct(u, d)[k], SeriesProduct(a, w)[k])
  BY TimesAssociates
<1> HIDE DEF u, w
<1>4. Same(SeriesProduct(e, d)[k], SeriesProduct(u, d)[k])
  <2>1. \A i \in 0 .. k : Same(d[i], d[i]) /\ Same(e[i], u[i])
    BY <1>2, SeriesAre DEF u
  <2> QED BY <1>1, <2>1, TimesLocal
<1>5. Same(SeriesProduct(a, w)[k], SeriesProduct(a, UnitSeries)[k])
  <2>1. \A i \in 0 .. k : Same(a[i], a[i]) /\ Same(w[i], UnitSeries[i])
    BY <1>2, SeriesAre DEF w
  <2> QED BY <1>1, <2>1, TimesLocal
<1>6. SeriesProduct(a, UnitSeries)[k] = a[k]
  BY TimesUnit
<1>7. SeriesProduct(e, d)[k] \in Int /\ SeriesProduct(u, d)[k] \in Int
  BY <1>1, ProductTermsAre
<1>8. SeriesProduct(a, w)[k] \in Int /\ a[k] \in Int
  BY <1>1, SeriesAre, ProductTermsAre
<1>9. Same(SeriesProduct(e, d)[k], SeriesProduct(a, w)[k])
  BY <1>3, <1>4, <1>7, <1>8, SameOn
<1> QED BY <1>5, <1>6, <1>7, <1>8, <1>9, SameOn

LEMMA ReversedTwice ==
    ASSUME NEW p \in Seq(Int)
    PROVE  \A i \in Nat : Coefs(Seqs!Reverse(Seqs!Reverse(p)))[i] = Coefs(p)[i]
<1> DEFINE r == Seqs!Reverse(p)
           n == Len(p)
<1>1. r \in Seq(Int) /\ Len(r) = n /\ n \in Nat
  BY ReverseIs
<1>2. \A i \in Nat : Coefs(r)[i] = IF i < n THEN Coefs(p)[(n - 1) - i] ELSE 0
  BY ReverseCoefs
<1> HIDE DEF r
<1>3. \A i \in Nat : Coefs(Seqs!Reverse(r))[i] = IF i < n THEN Coefs(r)[(n - 1) - i] ELSE 0
  BY <1>1, ReverseCoefs
<1>4. \A i \in Nat : Coefs(p)[i] = IF i < n THEN p[i + 1] ELSE 0
  BY CoefsAre
<1> HIDE DEF n
<1> SUFFICES ASSUME NEW i \in Nat PROVE Coefs(Seqs!Reverse(r))[i] = Coefs(p)[i]
  BY DEF r
<1>5. CASE i < n
  <2>1. (n - 1) - i \in Nat /\ (n - 1) - i < n /\ (n - 1) - ((n - 1) - i) = i
    BY <1>1, <1>5
  <2> QED BY <1>2, <1>3, <1>5, <2>1
<1>6. CASE ~ (i < n)
  BY <1>3, <1>4, <1>6
<1> QED BY <1>5, <1>6

\* The quotient is the one that takes the top off the dividend.
LEMMA QuotientTakesTop ==
    ASSUME NEW num \in Seq(Field), NEW den, Divisor(den), Len(den) <= Len(num),
           NEW degQ, degQ = Len(num) - Len(den) + 1
    PROVE  LET q == PolyDivMod(num, den)[1]
           IN  /\ q \in OfLength(degQ)
               /\ \A k \in 0 .. degQ-1 :
                    Same(SeriesProduct(Coefs(q), Coefs(den))[(Len(num) - 1) - k],
                         Coefs(num)[(Len(num) - 1) - k])
<1> DEFINE rn == Seqs!Reverse(num)
           rd == Seqs!Reverse(den)
           inv == PolyInv(rd, degQ)
           P == SubSeq(rn, 1, degQ)
           M == PolyMul(P, inv)
           rq == Shorter(M, degQ)
           q == Seqs!Reverse(rq)
           a == Coefs(rn)
           b == Coefs(inv)
           d == Coefs(rd)
           e == Coefs(Seqs!Reverse(q))
<1>0. PolyDivMod(num, den)[1] = q
  BY DEF PolyDivMod
<1>1. /\ den \in Seq(Field) /\ Len(den) \in Nat \ {0} /\ den[Len(den)] # 0
      /\ Len(num) \in Nat /\ degQ \in Nat \ {0} /\ degQ <= Len(num)
      /\ num \in Seq(Int) /\ den \in Seq(Int) /\ den # <<>>
  <2>1. den \in Seq(Field) /\ Len(den) >= 1 /\ den[Len(den)] # 0
    BY DEF Divisor
  <2>2. Len(den) \in Nat \ {0} /\ Len(num) \in Nat
    BY <2>1
  <2> QED BY <2>1, <2>2, FieldsAreNumbers, LongerThanNothing
<1>2. rn \in Seq(Field) /\ Len(rn) = Len(num)
  BY ReverseIs
<1>3. /\ rd \in Seq(Field) /\ Len(rd) = Len(den)
      /\ \A i \in 1 .. Len(den) : rd[i] = den[(Len(den) - i) + 1]
  BY <1>1, ReverseIs
<1> HIDE DEF rn, rd
<1>4. rd # <<>> /\ rd[1] # 0
  <2>1. 1 \in 1 .. Len(den) /\ (Len(den) - 1) + 1 = Len(den)
    BY <1>1
  <2>2. rd[1] = den[Len(den)]
    BY <1>3, <2>1
  <2> QED BY <1>1, <1>3, <2>1, <2>2, LongerThanNothing
<1>5. inv \in OfLength(degQ) /\ Inverts(inv, rd, degQ)
  BY <1>1, <1>3, <1>4, PolyInvInverts
<1> HIDE DEF inv
<1>6. inv \in Seq(Field) /\ Len(inv) = degQ /\ inv # <<>> /\ inv \in Seq(Int)
  <2>1. inv \in Seq(Field) /\ Len(inv) = degQ
    BY <1>5 DEF OfLength
  <2> QED BY <1>1, <2>1, FieldsAreNumbers, LongerThanNothing
<1>7. /\ P \in Seq(Int) /\ P # <<>> /\ Len(P) = degQ
      /\ \A i \in Nat : Coefs(P)[i] = IF i < degQ THEN a[i] ELSE 0
  <2>1. P = Shorter(rn, degQ)
    <3>1. Len(rn) <= degQ => Len(rn) = degQ
      BY <1>1, <1>2
    <3> QED BY <3>1 DEF Shorter
  <2>2. rn \in Seq(Int) /\ degQ \in Nat
    BY <1>1, <1>2, FieldsAreNumbers
  <2> HIDE DEF P
  <2>3. P \in Seq(Int) /\ Len(P) = IF Len(rn) <= degQ THEN Len(rn) ELSE degQ
    BY <2>1, <2>2, ShorterIs
  <2>4. Len(P) = degQ
    BY <1>1, <1>2, <2>3
  <2>5. \A i \in Nat : Coefs(P)[i] = IF i < degQ THEN a[i] ELSE 0
    BY <2>1, <2>2, ShorterCoefs
  <2> QED BY <1>1, <2>3, <2>4, <2>5, LongerThanNothing
<1> HIDE DEF P
<1>8. /\ M \in Seq(Field) /\ M \in Seq(Int) /\ Len(M) = degQ + degQ - 1
      /\ \A i \in Nat : Same(Coefs(M)[i], SeriesProduct(Coefs(P), b)[i])
  <2>1. M \in Seq(Field) /\ Len(M) = degQ + degQ - 1
    BY <1>6, <1>7, PolyMulConvolves
  <2>2. \A i \in Nat : Same(Coefs(M)[i], SeriesProduct(Coefs(P), b)[i])
    BY <1>6, <1>7, PolyMulCoefs
  <2> HIDE DEF M
  <2> QED BY <2>1, <2>2, FieldsAreNumbers
<1> HIDE DEF M
<1>9. /\ rq \in Seq(Field) /\ Len(rq) = degQ /\ rq \in Seq(Int)
      /\ \A i \in Nat : Coefs(rq)[i] = IF i < degQ THEN Coefs(M)[i] ELSE 0
  <2>0. degQ \in Nat /\ Field \in SUBSET Int /\ M \in Seq(Field)
    BY <1>1, <1>8, InField
  <2>1. rq \in Seq(Field) /\ Len(rq) = IF Len(M) <= degQ THEN Len(M) ELSE degQ
    BY <2>0, ShorterIs
  <2>2. \A i \in Nat : Coefs(rq)[i] = IF i < degQ THEN Coefs(M)[i] ELSE 0
    BY <1>1, <1>8, ShorterCoefs
  <2> HIDE DEF rq
  <2>3. Len(rq) = degQ
    BY <1>1, <1>8, <2>1
  <2> QED BY <2>1, <2>2, <2>3, FieldsAreNumbers
<1> HIDE DEF rq
<1>10. /\ q \in Seq(Field) /\ Len(q) = degQ /\ q \in Seq(Int) /\ q # <<>>
       /\ \A i \in Nat : e[i] = Coefs(rq)[i]
  <2>1. q \in Seq(Field) /\ Len(q) = degQ
    BY <1>9, ReverseIs
  <2>2. \A i \in Nat : e[i] = Coefs(rq)[i]
    BY <1>9, ReversedTwice
  <2> HIDE DEF q, e
  <2> QED BY <1>1, <2>1, <2>2, FieldsAreNumbers, LongerThanNothing
<1>11. /\ a \in Coefficients /\ b \in Coefficients /\ d \in Coefficients /\ e \in Coefficients
       /\ Coefs(P) \in Coefficients /\ Coefs(M) \in Coefficients
  <2> HIDE DEF q
  <2>1. Seqs!Reverse(q) \in Seq(Int)
    BY <1>10, ReverseIs
  <2> QED BY <1>2, <1>3, <1>6, <1>7, <1>8, <2>1, FieldsAreNumbers, CoefsAre
<1>12. ASSUME NEW k \in 0 .. degQ-1
       PROVE  SeriesProduct(Coefs(q), Coefs(den))[(Len(num) - 1) - k] = SeriesProduct(e, d)[k]
  <2> HIDE DEF q
  <2>1. k \in Nat /\ k < Len(q) /\ (Len(q) + Len(den) - 2) - k = (Len(num) - 1) - k
    BY <1>1, <1>10
  <2>2. SeriesProduct(Coefs(q), Coefs(den))[(Len(q) + Len(den) - 2) - k]
        = SeriesProduct(Coefs(Seqs!Reverse(q)), Coefs(Seqs!Reverse(den)))[k]
    BY <1>1, <1>10, <2>1, ReversedProduct
  <2> QED BY <2>1, <2>2 DEF rd
<1>13. ASSUME NEW k \in 0 .. degQ-1
       PROVE  a[k] = Coefs(num)[(Len(num) - 1) - k]
  <2>1. k \in Nat /\ k < Len(num)
    BY <1>1
  <2> QED BY <1>1, <2>1, ReverseCoefs DEF rn
<1> HIDE DEF a, b, d, e, q
<1>14. ASSUME NEW k \in 0 .. degQ-1
       PROVE  Same(e[k], SeriesProduct(a, b)[k])
  <2>1. k \in Nat /\ k < degQ
    BY <1>1
  <2>2. e[k] = Coefs(M)[k]
    BY <1>9, <1>10, <2>1
  <2>3. Same(e[k], SeriesProduct(Coefs(P), b)[k])
    BY <1>8, <2>1, <2>2
  <2>4. \A i \in 0 .. k : Same(Coefs(P)[i], a[i]) /\ Same(b[i], b[i])
    <3> SUFFICES ASSUME NEW i \in 0 .. k PROVE Same(Coefs(P)[i], a[i]) /\ Same(b[i], b[i])
      OBVIOUS
    <3>1. i \in Nat /\ i < degQ
      BY <1>1, <2>1
    <3>2. Coefs(P)[i] = a[i]
      BY <1>7, <3>1
    <3> QED BY <1>11, <3>1, <3>2, SeriesAre
  <2>5. Same(SeriesProduct(Coefs(P), b)[k], SeriesProduct(a, b)[k])
    BY <1>11, <2>1, <2>4, TimesLocal
  <2>6. SeriesProduct(Coefs(P), b)[k] \in Int /\ SeriesProduct(a, b)[k] \in Int
    BY <1>11, <2>1, ProductTermsAre
  <2>7. e[k] \in Int
    BY <1>11, <2>1, SeriesAre
  <2> QED BY <2>3, <2>5, <2>6, <2>7, SameOn
<1>15. ASSUME NEW k \in 0 .. degQ-1
       PROVE  Same(SeriesProduct(e, d)[k], a[k])
  <2>1. k \in Nat /\ \A i \in 0 .. k : i \in 0 .. degQ-1
    BY <1>1
  <2>2. \A i \in 0 .. k : Same(SeriesProduct(b, d)[i], UnitSeries[i])
    BY <1>5, <2>1 DEF Inverts, b, d
  <2>3. \A i \in 0 .. k : Same(e[i], SeriesProduct(a, b)[i])
    BY <1>14, <2>1
  <2> QED BY <1>11, <2>1, <2>2, <2>3, InverseCancels
<1>16. q \in OfLength(degQ)
  BY <1>10 DEF OfLength
<1>17. \A k \in 0 .. degQ-1 : Same(SeriesProduct(Coefs(q), Coefs(den))[(Len(num) - 1) - k],
                                   Coefs(num)[(Len(num) - 1) - k])
  BY <1>12, <1>13, <1>15
<1> QED BY <1>0, <1>16, <1>17

\* poly_divmod: a remainder of lower degree than the divisor.
THEOREM PolyDivModHolds ==
    ASSUME NEW num \in Seq(Field), NEW den, Divisor(den), Len(den) <= Len(num), NEW x \in Int
    PROVE  LET q == PolyDivMod(num, den)[1]
               r == PolyDivMod(num, den)[2]
           IN  /\ q \in Seq(Field) /\ r \in OfLength(Len(num))
               /\ Same(PolyValue(r, x), PolyValue(num, x) - PolyValue(q, x) * PolyValue(den, x))
               /\ \A i \in Len(den) - 1 .. Len(num) - 1 : Coefs(r)[i] = 0
<1> DEFINE degQ == Len(num) - Len(den) + 1
           n == Len(num)
           q == PolyDivMod(num, den)[1]
           z == PolyMul(q, den)
           r == Minus(num, z, n)
<1>1. /\ den \in Seq(Field) /\ Len(den) \in Nat \ {0} /\ n \in Nat /\ degQ \in Nat \ {0}
      /\ num \in Seq(Int) /\ den \in Seq(Int) /\ den # <<>>
  <2>1. den \in Seq(Field) /\ Len(den) >= 1
    BY DEF Divisor
  <2>2. Len(den) \in Nat \ {0} /\ Len(num) \in Nat
    BY <2>1
  <2> QED BY <2>1, <2>2, FieldsAreNumbers, LongerThanNothing
<1>2. PolyDivMod(num, den)[2] = r
  <2>1. ~ (Len(num) < Len(den))
    BY <1>1
  <2> QED BY <2>1 DEF PolyDivMod
<1>3. /\ q \in OfLength(degQ)
      /\ \A k \in 0 .. degQ-1 : Same(SeriesProduct(Coefs(q), Coefs(den))[(n - 1) - k],
                                     Coefs(num)[(n - 1) - k])
  BY QuotientTakesTop
<1> HIDE DEF q
<1>4. q \in Seq(Field) /\ Len(q) = degQ /\ q \in Seq(Int) /\ q # <<>>
  <2>1. q \in Seq(Field) /\ Len(q) = degQ
    BY <1>3 DEF OfLength
  <2> QED BY <1>1, <2>1, FieldsAreNumbers, LongerThanNothing
<1>5. /\ z \in Seq(Field) /\ Len(z) = n /\ z \in Seq(Int)
      /\ Same(PolyValue(z, x), PolyValue(q, x) * PolyValue(den, x))
      /\ \A i \in Nat : Same(Coefs(z)[i], SeriesProduct(Coefs(q), Coefs(den))[i])
  <2>1. /\ z \in Seq(Field) /\ Len(z) = Len(q) + Len(den) - 1
        /\ Same(PolyValue(z, x), PolyValue(q, x) * PolyValue(den, x))
    BY <1>1, <1>4, PolyMulValue
  <2>2. \A i \in Nat : Same(Coefs(z)[i], SeriesProduct(Coefs(q), Coefs(den))[i])
    BY <1>1, <1>4, PolyMulCoefs
  <2> HIDE DEF z
  <2>3. Len(z) = n
    BY <1>1, <1>4, <2>1
  <2> QED BY <2>1, <2>2, <2>3, FieldsAreNumbers
<1> HIDE DEF z
<1>6. /\ r \in Seq(Field) /\ Len(r) = n
      /\ Same(PolyValue(r, x), PolyValue(num, x) - PolyValue(z, x))
  <2>1. Len(num) <= n /\ Len(z) <= n /\ n \in Nat
    BY <1>1, <1>5
  <2> HIDE DEF n
  <2> QED BY <1>1, <1>5, <2>1, MinusValue
<1>7. \A i \in 0 .. n-1 : Same(Coefs(r)[i], Coefs(num)[i] - Coefs(z)[i])
  BY <1>1, <1>5, MinusCoefs
<1> HIDE DEF r
<1>8. Same(PolyValue(r, x), PolyValue(num, x) - PolyValue(q, x) * PolyValue(den, x))
  <2> DEFINE a == PolyValue(r, x)
             b == PolyValue(num, x)
             c == PolyValue(z, x)
             d == PolyValue(q, x)
             e == PolyValue(den, x)
  <2>1. a \in Int /\ b \in Int /\ c \in Int /\ d \in Int /\ e \in Int
    BY <1>1, <1>4, <1>5, <1>6, FieldsAreNumbers, PolyValueIsNumber
  <2>2. Same(a, b - c) /\ Same(c, d * e)
    BY <1>5, <1>6
  <2> HIDE DEF a, b, c, d, e
  <2>3. d * e \in Int
    BY <2>1
  <2> DEFINE h == d * e
  <2> HIDE DEF h
  <2>4. Same(b - c, b - h) /\ b - c \in Int /\ b - h \in Int
    BY <2>1, <2>2, <2>3, SameItself, SameDifference DEF h
  <2>5. Same(a, b - h)
    BY <2>1, <2>2, <2>4, SameOn
  <2> QED BY <2>5 DEF h, a, b, d, e
<1>9. ASSUME NEW i \in Len(den) - 1 .. n - 1
      PROVE  Coefs(r)[i] = 0
  <2> DEFINE k == (n - 1) - i
             a == Coefs(r)[i]
             b == Coefs(num)[i]
             c == Coefs(z)[i]
             d == SeriesProduct(Coefs(q), Coefs(den))[i]
  <2>1. i \in Nat /\ k \in 0 .. degQ-1 /\ (n - 1) - k = i /\ i \in 0 .. n-1 /\ i < n /\ i + 1 \in 1 .. n
    BY <1>1
  <2>2. Same(d, b)
    <3> HIDE DEF k
    <3>1. Same(SeriesProduct(Coefs(q), Coefs(den))[(n - 1) - k], Coefs(num)[(n - 1) - k])
      BY <1>3, <2>1
    <3> QED BY <2>1, <3>1
  <2>3. Same(c, d) /\ Same(a, b - c)
    BY <1>5, <1>7, <2>1
  <2>4. a \in Field
    <3>1. a = r[i + 1]
      BY <1>6, <2>1, FieldsAreNumbers, CoefsAre
    <3> QED BY <1>6, <2>1, <3>1
  <2>5. a \in Int /\ b \in Int /\ c \in Int /\ d \in Int
    <3>1. Coefs(num) \in Coefficients /\ Coefs(z) \in Coefficients
          /\ Coefs(q) \in Coefficients /\ Coefs(den) \in Coefficients
      BY <1>1, <1>4, <1>5, CoefsAre
    <3>2. b \in Int /\ c \in Int
      BY <2>1, <3>1, SeriesAre
    <3>3. d \in Int
      BY <2>1, <3>1, ProductTermsAre
    <3> QED BY <2>4, <3>2, <3>3, InField
  <2> HIDE DEF a, b, c, d, k
  <2>6. Same(c, b)
    BY <2>2, <2>3, <2>5, SameOn
  <2>7. Same(b - c, b - b)
    BY <2>5, <2>6, SameItself, SameDifference
  <2>8. b - b = 0 /\ b - c \in Int
    BY <2>5
  <2>9. Same(a, 0)
    BY <2>3, <2>5, <2>7, <2>8, SameOn, 0 \in Int
  <2>10. a = 0
    BY <2>4, <2>9, ModulusIs, SameIsEqual
  <2> QED BY <2>10 DEF a
<1>10. r \in OfLength(Len(num))
  BY <1>6 DEF OfLength
<1>11. q \in Seq(Field)
  BY <1>4
<1> QED BY <1>2, <1>8, <1>9, <1>10, <1>11 DEF q, r

-----------------------------------------------------------------------------
(* What a division leaves, and the top of a product.                       *)

\* The remainder, as short as the divisor makes it, has the value of the
\* dividend wherever the divisor is zero.
LEMMA ReducedIs ==
    ASSUME NEW num \in Seq(Field), NEW den, Divisor(den), Len(den) >= 2
    PROVE  LET r == Shorter(PolyDivMod(num, den)[2], Len(den) - 1)
           IN  /\ r \in Seq(Field) /\ Len(r) <= Len(den) - 1
               /\ \A x \in Int : Same(PolyValue(den, x), 0)
                                   => Same(PolyValue(r, x), PolyValue(num, x))
<1> DEFINE m == Len(den) - 1
           s == PolyDivMod(num, den)[2]
           r == Shorter(s, m)
<1>1. den \in Seq(Field) /\ Len(den) \in Nat /\ m \in Nat /\ Len(num) \in Nat
      /\ num \in Seq(Int) /\ den \in Seq(Int)
  <2>1. den \in Seq(Field)
    BY DEF Divisor
  <2> QED BY <2>1, FieldsAreNumbers
<1>2. CASE Len(num) < Len(den)
  <2>1. s = num
    BY <1>2 DEF PolyDivMod
  <2>2. r = num /\ Len(num) <= m
    <3>1. Len(num) <= m
      BY <1>1, <1>2
    <3>2. SubSeq(num, 1, Len(num)) = num
      OBVIOUS
    <3> QED BY <2>1, <3>1, <3>2 DEF Shorter
  <2> HIDE DEF r
  <2>3. \A x \in Int : Same(PolyValue(r, x), PolyValue(num, x))
    BY <1>1, <2>2, SameItself, PolyValueIsNumber
  <2> QED BY <2>2, <2>3 DEF r
<1>3. CASE ~ (Len(num) < Len(den))
  <2> DEFINE q == PolyDivMod(num, den)[1]
  <2>0. Len(den) <= Len(num)
    BY <1>1, <1>3
  <2>1. /\ q \in Seq(Field) /\ s \in OfLength(Len(num))
        /\ \A i \in m .. Len(num) - 1 : Coefs(s)[i] = 0
    BY <2>0, PolyDivModHolds, 0 \in Int
  <2>2. ASSUME NEW x \in Int
        PROVE  Same(PolyValue(s, x), PolyValue(num, x) - PolyValue(q, x) * PolyValue(den, x))
    BY <2>0, PolyDivModHolds
  <2> HIDE DEF q, s
  <2>3. s \in Seq(Field) /\ Len(s) = Len(num) /\ s \in Seq(Int) /\ q \in Seq(Int)
    <3>1. s \in Seq(Field) /\ Len(s) = Len(num)
      BY <2>1 DEF OfLength
    <3> QED BY <2>1, <3>1, FieldsAreNumbers
  <2>4. /\ r \in Seq(Field) /\ Len(r) = IF Len(s) <= m THEN Len(s) ELSE m
    BY <1>1, <2>3, ShorterIs
  <2>5. r \in Seq(Int) /\ Len(r) = m
    <3>1. r \in Seq(Int)
      BY <2>4, FieldsAreNumbers
    <3> HIDE DEF r
    <3> QED BY <1>1, <1>3, <2>3, <2>4, <3>1
  <2>6. \A i \in Nat : Coefs(r)[i] = IF i < m THEN Coefs(s)[i] ELSE 0
    BY <1>1, <2>3, ShorterCoefs
  <2> HIDE DEF r
  <2>7. \A i \in 0 .. Len(s) - 1 : Coefs(r)[i] = Coefs(s)[i]
    <3> SUFFICES ASSUME NEW i \in 0 .. Len(s) - 1 PROVE Coefs(r)[i] = Coefs(s)[i]
      OBVIOUS
    <3>1. i \in Nat
      OBVIOUS
    <3>2. CASE i < m
      BY <2>6, <3>1, <3>2
    <3>3. CASE ~ (i < m)
      <4>1. i \in m .. Len(num) - 1
        BY <1>1, <2>3, <3>3
      <4> QED BY <2>1, <2>6, <3>1, <3>3, <4>1
    <3> QED BY <3>2, <3>3
  <2>8. ASSUME NEW x \in Int, Same(PolyValue(den, x), 0)
        PROVE  Same(PolyValue(r, x), PolyValue(num, x))
    <3> DEFINE a == PolyValue(r, x)
               b == PolyValue(s, x)
               c == PolyValue(num, x)
               d == PolyValue(q, x)
               e == PolyValue(den, x)
               k == Len(s)
    <3>1. a \in Int /\ b \in Int /\ c \in Int /\ d \in Int /\ e \in Int
      BY <1>1, <2>3, <2>5, PolyValueIsNumber
    <3>2. k \in Nat /\ Len(r) <= k
      BY <1>1, <1>3, <2>3, <2>5
    <3>3. Evaluation(Coefs(r), x, k) = a /\ Evaluation(Coefs(s), x, k) = b
      <4>1. Len(s) <= k
        BY <3>2
      <4> HIDE DEF k
      <4> QED BY <2>3, <2>5, <3>2, <4>1, PolyValueOfMore
    <3>4. Same(Evaluation(Coefs(r), x, k),
               1 * Evaluation(Coefs(s), x, k) + 0 * Evaluation(Coefs(s), x, k))
      <4>1. Coefs(r) \in Coefficients /\ Coefs(s) \in Coefficients
        BY <2>3, <2>5, CoefsAre
      <4>2. \A i \in 0 .. k-1 : Same(Coefs(r)[i], 1 * Coefs(s)[i] + 0 * Coefs(s)[i])
        <5> SUFFICES ASSUME NEW i \in 0 .. k-1
                     PROVE  Same(Coefs(r)[i], 1 * Coefs(s)[i] + 0 * Coefs(s)[i])
          OBVIOUS
        <5>1. i \in Nat /\ Coefs(r)[i] = Coefs(s)[i]
          BY <2>7, <3>2
        <5>2. Coefs(s)[i] \in Int /\ Same(Coefs(s)[i], Coefs(s)[i])
          BY <4>1, <5>1, SeriesAre
        <5>3. 1 * Coefs(s)[i] + 0 * Coefs(s)[i] = Coefs(s)[i]
          BY <5>2
        <5> QED BY <5>1, <5>2, <5>3
      <4> HIDE DEF k
      <4> QED BY <3>2, <4>1, <4>2, EvaluationCombines, 0 \in Int, 1 \in Int
    <3>5. Same(b, c - d * e) /\ Same(e, 0)
      BY <2>2, <2>8
    <3>6. Same(a, 1 * b + 0 * b)
      BY <3>3, <3>4
    <3> HIDE DEF a, b, c, d, e, k
    <3>7. Same(a, b)
      <4>1. 1 * b + 0 * b = b
        BY <3>1
      <4> QED BY <3>6, <4>1
    <3>8. Same(d * e, d * 0)
      BY <3>1, <3>5, SameItself, SameProduct, 0 \in Int
    <3>9. d * e \in Int /\ d * 0 = 0 /\ c - 0 = c /\ 0 \in Int
      BY <3>1
    <3> DEFINE h == d * e
    <3> HIDE DEF h
    <3>10. h \in Int /\ Same(h, 0) /\ Same(b, c - h)
      BY <3>5, <3>8, <3>9 DEF h
    <3>11. Same(c - h, c - 0) /\ c - h \in Int
      BY <3>1, <3>9, <3>10, SameItself, SameDifference
    <3>12. Same(b, c)
      BY <3>1, <3>9, <3>10, <3>11, SameOn
    <3> QED BY <3>1, <3>7, <3>12, SameOn DEF a, c
  <2>9. Len(r) <= Len(den) - 1
    BY <1>1, <2>5
  <2> QED BY <2>4, <2>8, <2>9 DEF r, s
<1> QED BY <1>2, <1>3

\* The top of a product is the product of the tops.
LEMMA TopOfProduct ==
    ASSUME NEW p \in Seq(Field), NEW q \in Seq(Field), Len(p) >= 1, Len(q) >= 1,
           p[Len(p)] = 1, q[Len(q)] = 1
    PROVE  PolyMul(p, q)[Len(PolyMul(p, q))] = 1
<1> DEFINE z == PolyMul(p, q)
           a == Coefs(Seqs!Reverse(p))
           b == Coefs(Seqs!Reverse(q))
           l == Len(p) + Len(q) - 2
<1>1. p \in Seq(Int) /\ q \in Seq(Int) /\ p # <<>> /\ q # <<>>
      /\ Len(p) \in Nat \ {0} /\ Len(q) \in Nat \ {0} /\ l \in Nat
  <2>1. Len(p) \in Nat /\ Len(q) \in Nat
    OBVIOUS
  <2> QED BY <2>1, FieldsAreNumbers, LongerThanNothing
<1>2. z \in Seq(Field) /\ Len(z) = Len(p) + Len(q) - 1
  BY <1>1, PolyMulConvolves
<1>3. Same(Coefs(z)[l], SeriesProduct(Coefs(p), Coefs(q))[l])
  BY <1>1, PolyMulCoefs
<1>4. SeriesProduct(Coefs(p), Coefs(q))[l] = SeriesProduct(a, b)[0]
  <2>1. 0 \in Nat /\ 0 < Len(p) /\ l - 0 = l
    BY <1>1
  <2>2. SeriesProduct(Coefs(p), Coefs(q))[l - 0] = SeriesProduct(a, b)[0]
    BY <1>1, <2>1, ReversedProduct
  <2> QED BY <2>1, <2>2
<1>5. a[0] = 1 /\ b[0] = 1
  <2>1. 0 \in Nat /\ 0 < Len(p) /\ 0 < Len(q) /\ (Len(p) - 1) - 0 \in Nat
        /\ (Len(q) - 1) - 0 \in Nat
        /\ (Len(p) - 1) - 0 < Len(p) /\ (Len(q) - 1) - 0 < Len(q)
        /\ ((Len(p) - 1) - 0) + 1 = Len(p) /\ ((Len(q) - 1) - 0) + 1 = Len(q)
    BY <1>1
  <2>2. a[0] = Coefs(p)[(Len(p) - 1) - 0] /\ b[0] = Coefs(q)[(Len(q) - 1) - 0]
    BY <1>1, <2>1, ReverseCoefs
  <2>3. Coefs(p)[(Len(p) - 1) - 0] = p[((Len(p) - 1) - 0) + 1]
        /\ Coefs(q)[(Len(q) - 1) - 0] = q[((Len(q) - 1) - 0) + 1]
    BY <1>1, <2>1, CoefsAre
  <2> QED BY <2>1, <2>2, <2>3
<1>6. a \in Coefficients /\ b \in Coefficients
  <2>1. Seqs!Reverse(p) \in Seq(Int) /\ Seqs!Reverse(q) \in Seq(Int)
    BY <1>1, ReverseIs
  <2> QED BY <2>1, CoefsAre
<1> HIDE DEF a, b
<1>7. SeriesProduct(a, b)[0] = 1
  <2> DEFINE x == ProductTerms(a, b, 0)
  <2>1. /\ SeriesProduct(a, b)[0] = SumTo(x, 0 + 1) /\ x[0] = ProductTerm(a, b, 0, 0)
        /\ Summands(x, 0 + 1)
    BY <1>6, ProductTermsAre, 0 \in Nat, 0 + 1 \in Nat
  <2>2. ProductTerm(a, b, 0, 0) = 1
    <3>1. ProductTerm(a, b, 0, 0) = a[0] * b[0 - 0]
      BY DEF ProductTerm
    <3> QED BY <1>5, <3>1
  <2> HIDE DEF x
  <2>3. SumTo(x, 0) = 0 /\ SumTo(x, 0 + 1) = SumTo(x, 0) + x[0]
    BY <2>1, SumSteps, 0 \in Nat
  <2> QED BY <2>1, <2>2, <2>3
<1> HIDE DEF z
<1>8. Coefs(z)[l] = z[Len(z)] /\ z[Len(z)] \in Field
  <2>1. z \in Seq(Int) /\ l < Len(z) /\ l + 1 = Len(z) /\ Len(z) \in 1 .. Len(z)
    BY <1>1, <1>2, FieldsAreNumbers
  <2>2. Coefs(z)[l] = z[l + 1]
    BY <1>1, <2>1, CoefsAre
  <2> QED BY <1>2, <2>1, <2>2
<1>9. Same(z[Len(z)], 1)
  BY <1>3, <1>4, <1>7, <1>8
<1> QED BY <1>8, <1>9, ModulusIs, SameIsEqual DEF z

\* An iteration from V[0] over V[1], V[2] and so on: there is one, and it stays.
Passes(f, b, V, g, n) ==
    /\ f = [i \in 0 .. n |-> f[i]] /\ f[0] = b
    /\ \A i \in 0 .. n : f[i] \in V[i]
    /\ \A i \in 1 .. n : f[i] = g[<<i, f[i - 1]>>]

LEMMA IteratesWithin ==
    ASSUME NEW n \in Nat, NEW V, NEW b \in V[0], NEW g,
           \A i \in 1 .. n : \A v \in V[i - 1] : g[<<i, v>>] \in V[i]
    PROVE  \E f : Passes(f, b, V, g, n)
<1> USE DEF Passes
<1> DEFINE Is(f, k) == /\ f = [i \in 0 .. k |-> f[i]] /\ f[0] = b
                       /\ \A i \in 0 .. k : f[i] \in V[i]
                       /\ \A i \in 1 .. k : f[i] = g[<<i, f[i - 1]>>]
           S == {k \in Nat : k <= n => \E f : Is(f, k)}
<1>1. 0 \in S
  <2> DEFINE f == [i \in 0 .. 0 |-> b]
  <2>1. f = [i \in 0 .. 0 |-> f[i]] /\ f[0] = b
    OBVIOUS
  <2>2. \A i \in 0 .. 0 : f[i] \in V[i]
    <3>1. \A i \in 0 .. 0 : i = 0
      OBVIOUS
    <3> QED BY <3>1
  <2>3. \A i \in 1 .. 0 : f[i] = g[<<i, f[i - 1]>>]
    OBVIOUS
  <2> HIDE DEF f
  <2>4. Is(f, 0)
    BY <2>1, <2>2, <2>3
  <2> QED BY <2>4
<1>2. \A k \in Nat : k \in S => k + 1 \in S
  <2> SUFFICES ASSUME NEW k \in Nat, k \in S PROVE k + 1 \in S
    BY Zenon
  <2> HIDE DEF Is
  <2> SUFFICES ASSUME k + 1 <= n PROVE \E f : Is(f, k + 1)
    OBVIOUS
  <2>1. PICK f : Is(f, k)
    OBVIOUS
  <2> USE DEF Is
  <2> DEFINE e == g[<<k + 1, f[k]>>]
             h == [i \in 0 .. k + 1 |-> IF i <= k THEN f[i] ELSE e]
  <2>2. f[k] \in V[k] /\ k + 1 \in 1 .. n /\ (k + 1) - 1 = k
    BY <2>1
  <2>3. e \in V[k + 1]
    BY <2>2
  <2> HIDE DEF e
  <2>4. h[0] = b /\ \A i \in 0 .. k + 1 : h[i] \in V[i]
    <3>1. h[0] = b
      BY <2>1
    <3> SUFFICES ASSUME NEW i \in 0 .. k + 1 PROVE h[i] \in V[i]
      BY <3>1
    <3>2. CASE i <= k
      <4>1. i \in 0 .. k /\ h[i] = f[i]
        BY <3>2
      <4> QED BY <2>1, <4>1
    <3>3. CASE i = k + 1
      <4>1. h[i] = e
        BY <3>3
      <4> QED BY <2>3, <3>3, <4>1
    <3> QED BY <3>2, <3>3
  <2>5. \A i \in 1 .. k + 1 : h[i] = g[<<i, h[i - 1]>>]
    <3> SUFFICES ASSUME NEW i \in 1 .. k + 1 PROVE h[i] = g[<<i, h[i - 1]>>]
      OBVIOUS
    <3>1. CASE i <= k
      <4>1. h[i] = f[i] /\ h[i - 1] = f[i - 1] /\ i \in 1 .. k
        BY <3>1
      <4> QED BY <2>1, <4>1
    <3>2. CASE i = k + 1
      <4>1. i - 1 = k /\ h[k] = f[k] /\ h[i] = e
        BY <3>2
      <4> QED BY <3>2, <4>1 DEF e
    <3> QED BY <3>1, <3>2
  <2>6. h = [i \in 0 .. k + 1 |-> h[i]]
    OBVIOUS
  <2> HIDE DEF h
  <2>7. Is(h, k + 1)
    BY <2>4, <2>5, <2>6
  <2> QED BY <2>7
<1>3. n \in S
  <2> HIDE DEF S
  <2> QED BY <1>1, <1>2, Reaches
<1>4. PICK f : Is(f, n)
  BY <1>3
<1>5. Passes(f, b, V, g, n)
  BY <1>4, Zenon
<1> QED BY <1>5, Zenon

LEMMA IterationStays ==
    ASSUME NEW n \in Nat, NEW V, NEW f, f[0] \in V[0],
           \A i \in 1 .. n : f[i - 1] \in V[i - 1] => f[i] \in V[i]
    PROVE  \A i \in 0 .. n : f[i] \in V[i]
<1> DEFINE S == {m \in Nat : m <= n => f[m] \in V[m]}
<1>1. 0 \in S
  OBVIOUS
<1>2. \A m \in Nat : m \in S => m + 1 \in S
  <2> SUFFICES ASSUME NEW m \in Nat, m \in S, m + 1 <= n PROVE f[m + 1] \in V[m + 1]
    OBVIOUS
  <2>1. m + 1 \in 1 .. n /\ (m + 1) - 1 = m /\ f[m] \in V[m]
    OBVIOUS
  <2> QED BY <2>1
<1> HIDE DEF S
<1>3. \A m \in Nat : m \in S
  BY <1>1, <1>2, Reaches
<1> QED BY <1>3 DEF S

-----------------------------------------------------------------------------
(* The subproduct tree.                                                    *)

\* A polynomial with leading coefficient one and the points lo+1 .. hi as its
\* roots.
Vanishes(p, points, lo, hi) ==
    /\ p \in Seq(Field) /\ Len(p) = (hi - lo) + 1 /\ p[Len(p)] = 1
    /\ \A x \in Int : Same(PolyValue(p, x), 0) <=> \E j \in lo + 1 .. hi : Same(x, points[j])

LEMMA LeafVanishes ==
    ASSUME NEW points \in Seq(Field), NEW i \in 1 .. Len(points)
    PROVE  Vanishes(<<(-points[i]) % Modulus, 1>>, points, i - 1, i)
<1> DEFINE a == (-points[i]) % Modulus
           p == <<a, 1>>
           y == points[i]
<1>1. y \in Int /\ -y \in Int
  <2>1. points[i] \in Field
    OBVIOUS
  <2>2. y \in Int
    BY <2>1, InField
  <2> QED BY <2>2
<1>2. a \in Field /\ Same(a, -y) /\ a \in Int
  <2>1. a \in Field /\ Same(a, -y)
    BY <1>1, Remainder
  <2> QED BY <2>1, InField
<1> HIDE DEF a
<1>3. p \in Seq(Field) /\ Len(p) = 2 /\ p[1] = a /\ p[2] = 1
  BY <1>2, ModulusIs
<1> HIDE DEF p, y
<1>4. p \in Seq(Int)
  BY <1>3, FieldsAreNumbers
<1>5. ASSUME NEW x \in Int PROVE PolyValue(p, x) = a + x
  <2> DEFINE c == Coefs(p)
  <2>1. c \in Coefficients /\ \A j \in Nat : c[j] = IF j < Len(p) THEN p[j + 1] ELSE 0
    BY <1>4, CoefsAre
  <2>2. 0 \in Nat /\ 1 \in Nat /\ 0 < 2 /\ 1 < 2 /\ 0 + 1 = 1 /\ 1 + 1 = 2
    OBVIOUS
  <2>3. c[0] = a /\ c[1] = 1
    BY <1>3, <2>1, <2>2
  <2> HIDE DEF c
  <2>4. PowerOf(x, 0) = 1 /\ PowerOf(x, 0 + 1) = PowerOf(x, 0) * x
    BY <2>2, PowerStarts
  <2>5. /\ Evaluation(c, x, 0) = 0
        /\ Evaluation(c, x, 0 + 1) = Evaluation(c, x, 0) + c[0] * PowerOf(x, 0)
        /\ Evaluation(c, x, 1 + 1) = Evaluation(c, x, 1) + c[1] * PowerOf(x, 1)
    BY <2>1, <2>2, EvaluationSteps
  <2>6. 0 + a * 1 = a /\ 1 * x = x
    BY <1>2
  <2>7. PowerOf(x, 1) = x
    BY <2>2, <2>4, <2>6
  <2>8. Evaluation(c, x, 1) = a
    BY <2>2, <2>3, <2>4, <2>5, <2>6
  <2>9. Evaluation(c, x, 2) = a + x
    BY <2>2, <2>3, <2>5, <2>6, <2>7, <2>8
  <2> QED BY <1>3, <2>9 DEF PolyValue, c
<1>6. ASSUME NEW x \in Int
      PROVE  Same(PolyValue(p, x), 0) <=> Same(x, y)
  <2>1. PolyValue(p, x) = a + x
    BY <1>5
  <2>2. a + x \in Int /\ (-y) + y = 0 /\ (-y) + x \in Int /\ (a + x) - a = x /\ 0 \in Int
    BY <1>1, <1>2
  <2>3. ASSUME Same(x, y) PROVE Same(a + x, 0)
    BY <1>1, <1>2, <2>2, <2>3, SameSum
  <2>4. ASSUME Same(a + x, 0) PROVE Same(x, y)
    <3>1. Same((a + x) - a, 0 - (-y))
      BY <1>1, <1>2, <2>2, <2>4, SameDifference
    <3>2. 0 - (-y) = y
      BY <1>1
    <3> QED BY <2>2, <3>1, <3>2
  <2> QED BY <2>1, <2>3, <2>4
<1>7. \A x \in Int : (\E j \in (i - 1) + 1 .. i : Same(x, points[j])) <=> Same(x, y)
  <2>1. \A j \in (i - 1) + 1 .. i : j = i
    OBVIOUS
  <2>2. i \in (i - 1) + 1 .. i
    OBVIOUS
  <2> QED BY <2>1, <2>2 DEF y
<1>8. Len(p) = (i - (i - 1)) + 1 /\ p[Len(p)] = 1
  BY <1>3
<1>9. Vanishes(p, points, i - 1, i)
  BY <1>3, <1>6, <1>7, <1>8 DEF Vanishes
<1> QED BY <1>9 DEF p, a

LEMMA ProductVanishes ==
    ASSUME NEW p, NEW q, NEW points, NEW lo \in Nat, NEW mid \in Nat, NEW hi \in Nat,
           lo <= mid, mid <= hi, Vanishes(p, points, lo, mid), Vanishes(q, points, mid, hi)
    PROVE  Vanishes(PolyMul(p, q), points, lo, hi)
<1> DEFINE z == PolyMul(p, q)
<1>1. /\ p \in Seq(Field) /\ Len(p) = (mid - lo) + 1 /\ p[Len(p)] = 1
      /\ q \in Seq(Field) /\ Len(q) = (hi - mid) + 1 /\ q[Len(q)] = 1
  BY DEF Vanishes
<1>2. /\ Len(p) >= 1 /\ Len(q) >= 1 /\ Len(p) + Len(q) - 1 = (hi - lo) + 1
  BY <1>1
<1>3. p # <<>> /\ q # <<>> /\ p \in Seq(Int) /\ q \in Seq(Int)
  BY <1>1, <1>2, FieldsAreNumbers, LongerThanNothing
<1>4. z[Len(z)] = 1
  BY <1>1, <1>2, TopOfProduct
<1>5. z \in Seq(Field) /\ Len(z) = Len(p) + Len(q) - 1
  BY <1>3, PolyMulConvolves
<1>6. ASSUME NEW x \in Int
      PROVE  Same(PolyValue(z, x), 0) <=> Same(PolyValue(p, x), 0) \/ Same(PolyValue(q, x), 0)
  <2> DEFINE a == PolyValue(p, x)
             b == PolyValue(q, x)
             c == PolyValue(z, x)
  <2>1. Same(c, a * b)
    BY <1>3, PolyMulValue
  <2>2. a \in Int /\ b \in Int
    BY <1>3, PolyValueIsNumber
  <2>3. c \in Int
    <3> HIDE DEF z
    <3> QED BY <1>5, FieldsAreNumbers, PolyValueIsNumber
  <2> HIDE DEF a, b, c
  <2>4. Same(a * b, 0) <=> Same(a, 0) \/ Same(b, 0)
    BY <2>2, ZeroProduct
  <2>5. a * b \in Int /\ 0 \in Int
    BY <2>2
  <2>6. Same(c, 0) <=> Same(a * b, 0)
    <3> DEFINE d == a * b
    <3> HIDE DEF d
    <3>1. d \in Int /\ Same(c, d) /\ 0 \in Int
      BY <2>1, <2>5 DEF d
    <3>2. Same(d, c)
      BY <2>3, <3>1, SameBack
    <3>3. Same(c, 0) <=> Same(d, 0)
      BY <2>3, <3>1, <3>2, SameOn
    <3> QED BY <3>3 DEF d
  <2> QED BY <2>4, <2>6 DEF a, b, c
<1> HIDE DEF z
<1>7. ASSUME NEW x \in Int
      PROVE  Same(PolyValue(z, x), 0) <=> \E j \in lo + 1 .. hi : Same(x, points[j])
  <2>1. Same(PolyValue(p, x), 0) <=> \E j \in lo + 1 .. mid : Same(x, points[j])
    BY DEF Vanishes
  <2>2. Same(PolyValue(q, x), 0) <=> \E j \in mid + 1 .. hi : Same(x, points[j])
    BY DEF Vanishes
  <2>3. \A j : j \in lo + 1 .. hi <=> j \in lo + 1 .. mid \/ j \in mid + 1 .. hi
    OBVIOUS
  <2>4. (\E j \in lo + 1 .. hi : Same(x, points[j]))
        <=> (\E j \in lo + 1 .. mid : Same(x, points[j]))
            \/ (\E j \in mid + 1 .. hi : Same(x, points[j]))
    BY <2>3, Zenon
  <2> QED BY <1>6, <2>1, <2>2, <2>4
<1>8. Len(z) = (hi - lo) + 1
  BY <1>2, <1>5
<1>9. Vanishes(z, points, lo, hi)
  BY <1>4, <1>5, <1>7, <1>8 DEF Vanishes
<1> QED BY <1>9 DEF z

LEMMA NextPowerOfPower ==
    ASSUME NEW e \in Nat
    PROVE  NextPowerOfTwo(2 ^ e) = 2 ^ e /\ e <= 2 ^ e
<1> DEFINE k == 2 ^ e
<1>1. k \in Nat /\ k <= k
  <2>1. k \in Nat \ {0}
    BY PowerStep, Zenon
  <2> HIDE DEF k
  <2> QED BY <2>1
<1> HIDE DEF k
<1>2. PICK d \in Nat : /\ NextPowerOfTwo(k) = 2 ^ d /\ k <= 2 ^ d /\ d <= k
                       /\ \A c \in Nat : k <= 2 ^ c => d <= c
  BY <1>1, NextPowerOfTwoIs
<1>3. d <= e
  BY <1>1, <1>2 DEF k
<1>4. e <= d
  BY <1>2, PowerOrder DEF k
<1>5. d = e
  BY <1>3, <1>4
<1> QED BY <1>2, <1>5 DEF k

\* The nodes of one level: each has the points of its part of the list.
LevelOf(points, e, s) ==
    {w \in Seq(Seq(Field)) :
       /\ Len(w) = 2 ^ (e - s)
       /\ \A i \in 1 .. 2 ^ (e - s) : Vanishes(w[i], points, (i - 1) * 2 ^ s, i * 2 ^ s)}

Paired(below) == [i \in 1 .. Len(below) \div 2 |-> PolyMul(below[2 * i - 1], below[2 * i])]

LEMMA PairedVanishes ==
    ASSUME NEW points, NEW e \in Nat, NEW s \in Nat, s + 1 <= e,
           NEW below \in LevelOf(points, e, s)
    PROVE  Paired(below) \in LevelOf(points, e, s + 1)
<1> DEFINE k == 2 ^ (e - (s + 1))
           c == 2 ^ s
           w == Paired(below)
<1>1. 2 ^ (e - s) = 2 * k /\ k \in Nat \ {0} /\ 2 ^ (s + 1) = 2 * c /\ c \in Nat \ {0}
  <2> DEFINE d == e - (s + 1)
  <2>1. d \in Nat /\ d + 1 = e - s
    OBVIOUS
  <2> HIDE DEF d
  <2>2. 2 ^ d \in Nat \ {0} /\ 2 ^ (d + 1) = 2 * 2 ^ d
    BY <2>1, PowerStep, Zenon
  <2>3. 2 ^ (e - s) = 2 * 2 ^ d
    BY <2>1, <2>2, Zenon
  <2>4. 2 ^ (s + 1) = 2 * c /\ c \in Nat \ {0}
    BY PowerStep, Zenon
  <2> QED BY <2>2, <2>3, <2>4, Zenon DEF d
<1>2. /\ below \in Seq(Seq(Field)) /\ Len(below) = 2 ^ (e - s)
      /\ \A i \in 1 .. 2 ^ (e - s) : Vanishes(below[i], points, (i - 1) * c, i * c)
  BY DEF LevelOf
<1> HIDE DEF k, c
<1>3. Len(below) \div 2 = k
  BY <1>1, <1>2
<1>4. w = [i \in 1 .. k |-> PolyMul(below[2 * i - 1], below[2 * i])]
  BY <1>3 DEF Paired
<1>5. ASSUME NEW i \in 1 .. k
      PROVE  Vanishes(w[i], points, (i - 1) * (2 * c), i * (2 * c))
  <2> DEFINE l == 2 * i - 1
             r == 2 * i
  <2>1. /\ l \in 1 .. 2 * k /\ r \in 1 .. 2 * k /\ r - 1 = l
        /\ l - 1 \in Nat /\ l \in Nat /\ r \in Nat /\ i \in Nat /\ i - 1 \in Nat
    BY <1>1
  <2>2. w[i] = PolyMul(below[l], below[r])
    BY <1>4
  <2>3. (l - 1) * c = (i - 1) * (2 * c) /\ r * c = i * (2 * c)
    <3>1. (2 * (i - 1)) * c = (i - 1) * (2 * c) /\ (2 * i) * c = i * (2 * c)
      BY <1>1, <2>1
    <3>2. l - 1 = 2 * (i - 1)
      BY <2>1
    <3> QED BY <3>1, <3>2
  <2>4. /\ (l - 1) * c \in Nat /\ l * c \in Nat /\ r * c \in Nat
        /\ (l - 1) * c <= l * c /\ l * c <= r * c
    <3> HIDE DEF l, r
    <3>1. (l - 1) * c \in Nat /\ l * c \in Nat /\ r * c \in Nat
      BY <1>1, <2>1
    <3>2. l * c = (l - 1) * c + c
      BY <1>1, <2>1
    <3>3. r * c = (r - 1) * c + c
      BY <1>1, <2>1
    <3> QED BY <1>1, <2>1, <3>1, <3>2, <3>3
  <2> HIDE DEF l, r
  <2>5. Vanishes(below[l], points, (l - 1) * c, l * c)
        /\ Vanishes(below[r], points, (r - 1) * c, r * c)
    BY <1>1, <1>2, <2>1
  <2>6. Vanishes(below[r], points, l * c, r * c)
    BY <2>1, <2>5
  <2>7. Vanishes(PolyMul(below[l], below[r]), points, (l - 1) * c, r * c)
    <3> DEFINE lo == (l - 1) * c
               mid == l * c
               hi == r * c
    <3>1. Vanishes(below[l], points, lo, mid) /\ Vanishes(below[r], points, mid, hi)
          /\ lo \in Nat /\ mid \in Nat /\ hi \in Nat /\ lo <= mid /\ mid <= hi
      BY <2>4, <2>5, <2>6
    <3> HIDE DEF lo, mid, hi
    <3>2. Vanishes(PolyMul(below[l], below[r]), points, lo, hi)
      BY <3>1, ProductVanishes
    <3> QED BY <3>2 DEF lo, hi
  <2> QED BY <2>2, <2>3, <2>7
<1> HIDE DEF w
<1>6. w \in Seq(Seq(Field)) /\ Len(w) = k
  <2>1. \A i \in 1 .. k : w[i] \in Seq(Field)
    BY <1>5 DEF Vanishes
  <2>2. w \in [1 .. k -> Seq(Field)] /\ k \in Nat
    BY <1>1, <1>4, <2>1
  <2> QED BY <2>2, SequenceIs
<1>7. \A i \in 1 .. 2 ^ (e - (s + 1)) :
        Vanishes(w[i], points, (i - 1) * 2 ^ (s + 1), i * 2 ^ (s + 1))
  BY <1>1, <1>5 DEF k
<1>8. Len(w) = 2 ^ (e - (s + 1))
  BY <1>6 DEF k
<1> QED BY <1>6, <1>7, <1>8, Zenon DEF LevelOf, w

Leaves(points) == [i \in 1 .. NextPowerOfTwo(Len(points)) |->
                     IF i <= Len(points) THEN <<(-points[i]) % Modulus, 1>> ELSE <<1>>]

Grows(u, leaves, height) ==
    u = [l \in 1 .. height + 1 |-> IF l = 1 THEN leaves ELSE Paired(u[l - 1])]

LEMMA TreeGrows ==
    ASSUME NEW points, points # <<>>
    PROVE  SubproductTree(points)
           = CHOOSE u : Grows(u, Leaves(points),
                              CHOOSE h \in 0 .. Len(points) : 2 ^ h = Len(Leaves(points)))
BY Zenon DEF SubproductTree, Grows, Leaves, Paired

LEMMA LeavesVanish ==
    ASSUME NEW points \in Seq(Field), NEW e \in Nat, Len(points) = 2 ^ e
    PROVE  Leaves(points) \in LevelOf(points, e, 0) /\ Len(Leaves(points)) = 2 ^ e
<1> DEFINE w == Leaves(points)
           k == Len(points)
<1>1. NextPowerOfTwo(k) = k /\ k = 2 ^ e /\ k \in Nat
  <2>1. NextPowerOfTwo(2 ^ e) = 2 ^ e
    BY NextPowerOfPower
  <2>2. k \in Nat
    OBVIOUS
  <2>3. k = 2 ^ e
    OBVIOUS
  <2> HIDE DEF k
  <2> QED BY <2>1, <2>2, <2>3, Zenon
<1>2. \A i \in 1 .. k : i <= k
  BY <1>1
<1>3. w = [i \in 1 .. k |-> IF i <= k THEN <<(-points[i]) % Modulus, 1>> ELSE <<1>>]
  BY <1>1, Zenon DEF Leaves
<1> HIDE DEF w
<1>4. \A i \in 1 .. k : Vanishes(w[i], points, i - 1, i)
  <2> SUFFICES ASSUME NEW i \in 1 .. k PROVE Vanishes(w[i], points, i - 1, i)
    OBVIOUS
  <2>1. w[i] = <<(-points[i]) % Modulus, 1>>
    BY <1>2, <1>3
  <2>2. Vanishes(<<(-points[i]) % Modulus, 1>>, points, i - 1, i)
    BY LeafVanishes
  <2> QED BY <2>1, <2>2
<1>5. w \in Seq(Seq(Field)) /\ Len(w) = k
  <2>1. \A i \in 1 .. k : w[i] \in Seq(Field)
    BY <1>4 DEF Vanishes
  <2>2. w \in [1 .. k -> Seq(Field)]
    BY <1>3, <2>1
  <2> HIDE DEF k
  <2> QED BY <1>1, <2>2, SequenceIs
<1>6. \A i \in 1 .. k : (i - 1) * 2 ^ 0 = i - 1 /\ i * 2 ^ 0 = i
  <2>1. 2 ^ 0 = 1
    OBVIOUS
  <2> SUFFICES ASSUME NEW i \in 1 .. k PROVE (i - 1) * 1 = i - 1 /\ i * 1 = i
    BY <2>1
  <2> QED OBVIOUS
<1>7. 2 ^ (e - 0) = k
  <2>1. e - 0 = e
    OBVIOUS
  <2> QED BY <1>1, <2>1
<1>8. \A i \in 1 .. 2 ^ (e - 0) : Vanishes(w[i], points, (i - 1) * 2 ^ 0, i * 2 ^ 0)
  <2> HIDE DEF k
  <2> QED BY <1>4, <1>6, <1>7, Zenon
<1>9. Len(w) = 2 ^ (e - 0) /\ Len(w) = 2 ^ e
  BY <1>1, <1>5, <1>7
<1>10. w \in LevelOf(points, e, 0)
  BY <1>5, <1>8, <1>9, Zenon DEF LevelOf
<1> QED BY <1>9, <1>10 DEF w

\* Every level of the tree has all the points, each in one node.
LEMMA TreeIs ==
    ASSUME NEW points \in Seq(Field), NEW e \in Nat, Len(points) = 2 ^ e
    PROVE  /\ SubproductTree(points) = [l \in 1 .. e + 1 |-> SubproductTree(points)[l]]
           /\ \A s \in 0 .. e : SubproductTree(points)[s + 1] \in LevelOf(points, e, s)
<1> DEFINE leaves == Leaves(points)
           tree == SubproductTree(points)
           V == [s \in 0 .. e |-> LevelOf(points, e, s)]
           g == [q \in (1 .. e) \X Seq(Seq(Field)) |-> Paired(q[2])]
<1>1. leaves \in LevelOf(points, e, 0) /\ Len(leaves) = 2 ^ e
  BY LeavesVanish
<1> HIDE DEF leaves
<1>2. (CHOOSE h \in 0 .. Len(points) : 2 ^ h = Len(leaves)) = e
  <2>1. e \in 0 .. Len(points) /\ 2 ^ e = Len(leaves)
    <3>1. e <= Len(points) /\ Len(points) \in Nat
      BY NextPowerOfPower
    <3> QED BY <1>1, <3>1
  <2>2. \A h \in 0 .. Len(points) : 2 ^ h = Len(leaves) => h = e
    <3> SUFFICES ASSUME NEW h \in 0 .. Len(points), 2 ^ h = 2 ^ e PROVE h = e
      BY <1>1
    <3>1. h \in Nat
      OBVIOUS
    <3> DEFINE a == 2 ^ h
               b == 2 ^ e
    <3>2. a \in Nat \ {0} /\ b \in Nat \ {0} /\ (h <= e <=> a <= b) /\ (e <= h <=> b <= a)
      BY <3>1, PowerStep, PowerOrder, Zenon
    <3>3. a = b
      OBVIOUS
    <3> HIDE DEF a, b
    <3>4. h <= e /\ e <= h
      BY <3>2, <3>3
    <3> QED BY <3>1, <3>4
  <2> QED BY <2>1, <2>2
<1>3. points # <<>>
  <2>1. 2 ^ e \in Nat \ {0}
    BY PowerStep, Zenon
  <2> QED BY <2>1
<1>4. tree = CHOOSE u : Grows(u, leaves, e)
  BY <1>2, <1>3, TreeGrows DEF leaves
<1>5. \A i \in 1 .. e : \A v \in V[i - 1] : g[<<i, v>>] = Paired(v) /\ Paired(v) \in V[i]
  <2> SUFFICES ASSUME NEW i \in 1 .. e, NEW v \in V[i - 1]
               PROVE  g[<<i, v>>] = Paired(v) /\ Paired(v) \in V[i]
    OBVIOUS
  <2> DEFINE s == i - 1
  <2>1. s \in Nat /\ s + 1 <= e /\ s + 1 = i /\ s \in 0 .. e /\ i \in 0 .. e
    OBVIOUS
  <2>2. v \in LevelOf(points, e, s)
    BY <2>1
  <2> HIDE DEF s
  <2>3. Paired(v) \in LevelOf(points, e, s + 1)
    BY <2>1, <2>2, PairedVanishes
  <2>4. v \in Seq(Seq(Field))
    BY <2>2 DEF LevelOf
  <2>5. g[<<i, v>>] = Paired(v)
    BY <2>4
  <2> QED BY <2>1, <2>3, <2>5
<1>6. leaves \in V[0]
  BY <1>1
<1> HIDE DEF V, g
<1>7. PICK f : Passes(f, leaves, V, g, e)
  <2>1. \A i \in 1 .. e : \A v \in V[i - 1] : g[<<i, v>>] \in V[i]
    BY <1>5
  <2> QED BY <1>6, <2>1, IteratesWithin
<1> DEFINE u == [l \in 1 .. e + 1 |-> f[l - 1]]
<1>8. Grows(u, leaves, e)
  <2>1. ASSUME NEW l \in 1 .. e + 1
        PROVE  u[l] = IF l = 1 THEN leaves ELSE Paired(u[l - 1])
    <3>1. CASE l = 1
      BY <1>7, <3>1 DEF Passes
    <3>2. CASE l # 1
      <4> DEFINE i == l - 1
      <4>1. i \in 1 .. e /\ i - 1 \in 0 .. e /\ l - 1 \in 1 .. e + 1 /\ (l - 1) - 1 = i - 1
        BY <3>2
      <4>2. u[l] = f[i] /\ u[l - 1] = f[i - 1]
        BY <4>1
      <4> HIDE DEF i
      <4>3. f[i] = g[<<i, f[i - 1]>>] /\ f[i - 1] \in V[i - 1]
        BY <1>7, <4>1 DEF Passes
      <4>4. f[i] = Paired(f[i - 1])
        BY <1>5, <4>1, <4>3
      <4> QED BY <3>2, <4>2, <4>4
    <3> QED BY <3>1, <3>2
  <2>2. u = [l \in 1 .. e + 1 |-> u[l]]
    OBVIOUS
  <2> HIDE DEF u
  <2>3. u = [l \in 1 .. e + 1 |-> IF l = 1 THEN leaves ELSE Paired(u[l - 1])]
    BY <2>1, <2>2, Zenon
  <2> QED BY <2>3 DEF Grows
<1>9. Grows(tree, leaves, e)
  <2> HIDE DEF tree, u
  <2> QED BY <1>4, <1>8, Zenon
<1> HIDE DEF tree, u
<1>10. tree = [l \in 1 .. e + 1 |-> IF l = 1 THEN leaves ELSE Paired(tree[l - 1])]
  BY <1>9, Zenon DEF Grows
<1>11. tree = [l \in 1 .. e + 1 |-> tree[l]]
  BY <1>10
<1> DEFINE h == [s \in 0 .. e |-> tree[s + 1]]
<1>12. h[0] \in V[0]
  <2>1. 1 \in 1 .. e + 1 /\ 0 \in 0 .. e /\ 0 + 1 = 1
    OBVIOUS
  <2>2. h[0] = leaves
    BY <1>10, <2>1
  <2> QED BY <1>6, <2>2
<1>13. \A i \in 1 .. e : h[i - 1] \in V[i - 1] => h[i] \in V[i]
  <2> SUFFICES ASSUME NEW i \in 1 .. e, h[i - 1] \in V[i - 1] PROVE h[i] \in V[i]
    OBVIOUS
  <2>1. i + 1 \in 1 .. e + 1 /\ i + 1 # 1 /\ (i + 1) - 1 = i /\ i \in 0 .. e
        /\ i - 1 \in 0 .. e /\ (i - 1) + 1 = i
    OBVIOUS
  <2>2. h[i] = tree[i + 1] /\ h[i - 1] = tree[i]
    BY <2>1
  <2>3. tree[i + 1] = Paired(tree[i])
    BY <1>10, <2>1
  <2> HIDE DEF h
  <2> QED BY <1>5, <2>2, <2>3
<1>14. \A i \in 0 .. e : h[i] \in V[i]
  <2> HIDE DEF h
  <2> QED BY <1>12, <1>13, IterationStays
<1>15. \A s \in 0 .. e : tree[s + 1] \in LevelOf(points, e, s)
  BY <1>14 DEF V
<1> QED BY <1>11, <1>15 DEF tree

-----------------------------------------------------------------------------
(* Evaluation at many points, down the tree.                               *)

ReducedBy(above, level) ==
    [i \in 1 .. Len(level) |->
       LET node   == level[i]
           parent == above[(i + 1) \div 2]
       IN  IF Len(node) > 1 THEN Shorter(PolyDivMod(parent, node)[2], Len(node) - 1) ELSE parent]

Reduces(u, p, tree) ==
    u = [l \in 1 .. Len(tree) |->
          IF l = Len(tree) THEN <<p>> ELSE ReducedBy(u[l + 1], tree[l])]

LEMMA EvalReduces ==
    ASSUME NEW p, NEW tree
    PROVE  MultipointEval(p, tree)
           = [i \in 1 .. Cardinality({j \in DOMAIN tree[1] : Len(tree[1][j]) > 1}) |->
                At((CHOOSE u : Reduces(u, p, tree))[1][i], 1)]
BY Zenon DEF MultipointEval, Reduces, ReducedBy

\* What is left of p at the nodes of one level: short, and with the values of p
\* at the points of the node.
RestOf(p, points, e, s) ==
    {w \in Seq(Seq(Field)) :
       /\ Len(w) = 2 ^ (e - s)
       /\ \A i \in 1 .. 2 ^ (e - s) :
            /\ s < e => Len(w[i]) <= 2 ^ s
            /\ \A j \in (i - 1) * 2 ^ s + 1 .. i * 2 ^ s :
                 Same(PolyValue(w[i], points[j]), PolyValue(p, points[j]))}

\* The first and the second of two nodes are within their parent.
LEMMA WithinParent ==
    ASSUME NEW k \in Nat \ {0}, NEW c \in Nat \ {0}, NEW i \in 1 .. 2 * k,
           NEW j \in (i - 1) * c + 1 .. i * c
    PROVE  LET h == (i + 1) \div 2
           IN  /\ h \in 1 .. k /\ j \in (h - 1) * (2 * c) + 1 .. h * (2 * c)
               /\ j \in 1 .. (2 * k) * c
<1> DEFINE h == (i + 1) \div 2
<1>1. h \in 1 .. k /\ (i = 2 * h - 1 \/ i = 2 * h)
  OBVIOUS
<1> HIDE DEF h
<1>2. i \in Nat /\ h \in Nat /\ h - 1 \in Nat /\ i - 1 \in Nat /\ h \in Nat \ {0}
  BY <1>1
<1>3. (i - 1) * c \in Nat /\ i * c \in Nat /\ i * c = (i - 1) * c + c
  BY <1>2
<1>4. /\ (h - 1) * (2 * c) = (2 * (h - 1)) * c /\ h * (2 * c) = (2 * h) * c
      /\ (2 * h) * c = (2 * (h - 1)) * c + 2 * c
      /\ (2 * h - 1) * c = (2 * (h - 1)) * c + c
      /\ (2 * (h - 1)) * c \in Nat
  BY <1>2
<1>5. j \in Int /\ j >= (i - 1) * c + 1 /\ j <= i * c
  BY <1>3
<1>6. (h - 1) * (2 * c) + 1 <= j /\ j <= h * (2 * c)
  <2>1. CASE i = 2 * h - 1
    <3>1. i * c = (2 * (h - 1)) * c + c
      BY <1>4, <2>1
    <3> DEFINE x == (2 * (h - 1)) * c
               y == i * c
               z == (i - 1) * c
               v == (h - 1) * (2 * c)
               w == h * (2 * c)
    <3>2. /\ x \in Nat /\ y = x + c /\ y = z + c /\ z \in Nat /\ v = x /\ w = x + 2 * c
          /\ j >= z + 1 /\ j <= y
      BY <1>3, <1>4, <1>5, <3>1
    <3> HIDE DEF x, y, z, v, w
    <3>3. v + 1 <= j /\ j <= w
      BY <1>5, <3>2
    <3> QED BY <3>3 DEF v, w
  <2>2. CASE i = 2 * h
    <3> DEFINE x == (2 * (h - 1)) * c
               y == i * c
               z == (i - 1) * c
               v == (h - 1) * (2 * c)
               w == h * (2 * c)
    <3>2. /\ x \in Nat /\ y = x + 2 * c /\ y = z + c /\ z \in Nat /\ v = x /\ w = x + 2 * c
          /\ j >= z + 1 /\ j <= y
      BY <1>3, <1>4, <1>5, <2>2
    <3> HIDE DEF x, y, z, v, w
    <3>3. v + 1 <= j /\ j <= w
      BY <1>5, <3>2
    <3> QED BY <3>3 DEF v, w
  <2> QED BY <1>1, <2>1, <2>2
<1>7. 1 <= j /\ j <= (2 * k) * c
  <2>1. (2 * k) * c = i * c + (2 * k - i) * c
    BY <1>2
  <2>2. 2 * k - i \in Nat
    OBVIOUS
  <2> DEFINE d == 2 * k - i
  <2> HIDE DEF d
  <2>3. d * c \in Nat
    BY <2>2 DEF d
  <2> DEFINE x == d * c
             y == i * c
             z == (i - 1) * c
             w == (2 * k) * c
  <2>4. x \in Nat /\ y \in Nat /\ z \in Nat /\ w = y + x /\ j >= z + 1 /\ j <= y
    BY <1>3, <1>5, <2>1, <2>3 DEF d
  <2> HIDE DEF x, y, z, w
  <2>5. 1 <= j /\ j <= w
    BY <1>5, <2>4
  <2> QED BY <2>5 DEF w
<1>8. (h - 1) * (2 * c) + 1 \in Int /\ h * (2 * c) \in Int /\ (2 * k) * c \in Int
  BY <1>2
<1> QED BY <1>1, <1>5, <1>6, <1>7, <1>8 DEF h

LEMMA ReducedRests ==
    ASSUME NEW points \in Seq(Field), NEW e \in Nat, Len(points) = 2 ^ e, NEW p \in Seq(Field),
           NEW s \in Nat, s + 1 <= e, NEW above \in RestOf(p, points, e, s + 1),
           NEW level \in LevelOf(points, e, s)
    PROVE  ReducedBy(above, level) \in RestOf(p, points, e, s)
<1> DEFINE k == 2 ^ (e - (s + 1))
           c == 2 ^ s
           w == ReducedBy(above, level)
<1>1. /\ 2 ^ (e - s) = 2 * k /\ k \in Nat \ {0} /\ 2 ^ (s + 1) = 2 * c /\ c \in Nat \ {0}
      /\ Len(points) = (2 * k) * c
  <2> DEFINE d == e - (s + 1)
  <2>1. d \in Nat /\ d + 1 = e - s /\ e - s \in Nat /\ (e - s) + s = e
    OBVIOUS
  <2> HIDE DEF d
  <2>2. 2 ^ d \in Nat \ {0} /\ 2 ^ (d + 1) = 2 * 2 ^ d
    BY <2>1, PowerStep, Zenon
  <2>3. 2 ^ (e - s) = 2 * 2 ^ d
    BY <2>1, <2>2, Zenon
  <2>4. 2 ^ (s + 1) = 2 * c /\ c \in Nat \ {0}
    BY PowerStep, Zenon
  <2>5. 2 ^ e = 2 ^ (e - s) * 2 ^ s
    <3>1. 2 ^ ((e - s) + s) = 2 ^ (e - s) * 2 ^ s
      BY <2>1, PowerSum, Zenon
    <3> QED BY <2>1, <3>1, Zenon
  <2> QED BY <2>2, <2>3, <2>4, <2>5, Zenon DEF d
<1>2. /\ level \in Seq(Seq(Field)) /\ Len(level) = 2 * k
      /\ \A i \in 1 .. 2 * k : Vanishes(level[i], points, (i - 1) * c, i * c)
  BY <1>1 DEF LevelOf
<1>3. /\ above \in Seq(Seq(Field)) /\ Len(above) = k
      /\ \A i \in 1 .. k : \A j \in (i - 1) * (2 * c) + 1 .. i * (2 * c) :
           Same(PolyValue(above[i], points[j]), PolyValue(p, points[j]))
  BY <1>1 DEF RestOf
<1> HIDE DEF k, c
<1>4. w = [i \in 1 .. 2 * k |-> w[i]]
  BY <1>2 DEF ReducedBy
<1>5. ASSUME NEW i \in 1 .. 2 * k
      PROVE  /\ w[i] \in Seq(Field) /\ Len(w[i]) <= c
             /\ \A j \in (i - 1) * c + 1 .. i * c :
                  Same(PolyValue(w[i], points[j]), PolyValue(p, points[j]))
  <2> DEFINE node == level[i]
             h == (i + 1) \div 2
             parent == above[h]
             r == Shorter(PolyDivMod(parent, node)[2], Len(node) - 1)
  <2>1. Vanishes(node, points, (i - 1) * c, i * c)
    BY <1>2
  <2>2. h \in 1 .. k
    BY <1>1
  <2>3. parent \in Seq(Field)
    <3> HIDE DEF h
    <3> QED BY <1>3, <2>2
  <2>4. w[i] = IF Len(node) > 1 THEN r ELSE parent
    BY <1>2 DEF ReducedBy
  <2> HIDE DEF node, w, parent
  <2>5. Len(node) = c + 1 /\ Len(node) > 1 /\ Len(node) >= 2 /\ Len(node) - 1 = c /\ Divisor(node)
    <3>1. i * c - (i - 1) * c = c
      BY <1>1
    <3>2. node \in Seq(Field) /\ Len(node) = c + 1 /\ node[Len(node)] = 1
      BY <2>1, <3>1 DEF Vanishes
    <3>3. Len(node) > 1 /\ Len(node) >= 2 /\ Len(node) >= 1 /\ Len(node) - 1 = c
      BY <1>1, <3>2
    <3> QED BY <3>2, <3>3 DEF Divisor
  <2>6. w[i] = r
    BY <2>4, <2>5
  <2>7. /\ r \in Seq(Field) /\ Len(r) <= Len(node) - 1
        /\ \A x \in Int : Same(PolyValue(node, x), 0)
                            => Same(PolyValue(r, x), PolyValue(parent, x))
    BY <2>3, <2>5, ReducedIs
  <2> HIDE DEF r
  <2>8. ASSUME NEW j \in (i - 1) * c + 1 .. i * c
        PROVE  Same(PolyValue(r, points[j]), PolyValue(p, points[j]))
    <3> DEFINE x == points[j]
    <3>1. j \in (h - 1) * (2 * c) + 1 .. h * (2 * c) /\ j \in 1 .. (2 * k) * c
      BY <1>1, WithinParent
    <3>2. j \in 1 .. Len(points)
      BY <1>1, <3>1
    <3>3. x \in Field
      BY <3>2
    <3>4. x \in Int
      BY <3>3, InField
    <3>5. Same(PolyValue(parent, x), PolyValue(p, x))
      <4> HIDE DEF h
      <4> QED BY <1>3, <2>2, <3>1 DEF parent
    <3> HIDE DEF x
    <3>6. Same(PolyValue(node, x), 0)
      <4>1. Same(x, points[j])
        BY <3>4, SameItself DEF x
      <4> QED BY <2>1, <3>4, <4>1 DEF Vanishes
    <3>7. Same(PolyValue(r, x), PolyValue(parent, x))
      BY <2>7, <3>4, <3>6
    <3>8. PolyValue(r, x) \in Int /\ PolyValue(parent, x) \in Int /\ PolyValue(p, x) \in Int
      <4>1. r \in Seq(Int) /\ parent \in Seq(Int) /\ p \in Seq(Int)
        BY <2>3, <2>7, FieldsAreNumbers
      <4> QED BY <3>4, <4>1, PolyValueIsNumber
    <3>9. Same(PolyValue(r, x), PolyValue(p, x))
      BY <3>5, <3>7, <3>8, SameOn
    <3> QED BY <3>9 DEF x
  <2>9. Len(r) <= c
    BY <2>5, <2>7
  <2> QED BY <2>6, <2>7, <2>8, <2>9
<1> HIDE DEF w
<1>6. w \in Seq(Seq(Field)) /\ Len(w) = 2 * k
  <2>1. \A i \in 1 .. 2 * k : w[i] \in Seq(Field)
    BY <1>5
  <2>2. w \in [1 .. 2 * k -> Seq(Field)] /\ 2 * k \in Nat
    BY <1>1, <1>4, <2>1
  <2> DEFINE l == 2 * k
  <2> HIDE DEF l
  <2>3. w \in [1 .. l -> Seq(Field)] /\ l \in Nat
    BY <2>2 DEF l
  <2>4. w \in Seq(Seq(Field)) /\ Len(w) = l
    BY <2>3, SequenceIs
  <2> QED BY <2>4 DEF l
<1>7. \A i \in 1 .. 2 ^ (e - s) :
        /\ s < e => Len(w[i]) <= 2 ^ s
        /\ \A j \in (i - 1) * 2 ^ s + 1 .. i * 2 ^ s :
             Same(PolyValue(w[i], points[j]), PolyValue(p, points[j]))
  BY <1>1, <1>5, Zenon DEF c
<1>8. Len(w) = 2 ^ (e - s)
  BY <1>1, <1>6
<1> QED BY <1>6, <1>7, <1>8, Zenon DEF RestOf, w

LEMMA FromTheTop ==
    ASSUME NEW e \in Nat, NEW l \in 1 .. e + 1, l # e + 1
    PROVE  LET i == (e + 1) - l
           IN  i \in 1 .. e /\ i - 1 \in 0 .. e /\ l + 1 \in 1 .. e + 1
               /\ (e + 1) - (l + 1) = i - 1 /\ (e - i) + 1 = l
OBVIOUS

\* Down to the leaves.
LEMMA RestsReached ==
    ASSUME NEW points \in Seq(Field), NEW e \in Nat, Len(points) = 2 ^ e, NEW p \in Seq(Field),
           NEW tree, tree = [l \in 1 .. e + 1 |-> tree[l]], Len(tree) = e + 1,
           \A s \in 0 .. e : tree[s + 1] \in LevelOf(points, e, s)
    PROVE  (CHOOSE u : Reduces(u, p, tree))[1] \in RestOf(p, points, e, 0)
<1> DEFINE V == [i \in 0 .. e |-> RestOf(p, points, e, e - i)]
           g == [q \in (1 .. e) \X Seq(Seq(Field)) |-> ReducedBy(q[2], tree[(e - q[1]) + 1])]
           r == CHOOSE u : Reduces(u, p, tree)
<1>1. \A i \in 1 .. e : \A v \in V[i - 1] :
        /\ g[<<i, v>>] = ReducedBy(v, tree[(e - i) + 1])
        /\ ReducedBy(v, tree[(e - i) + 1]) \in V[i]
  <2> SUFFICES ASSUME NEW i \in 1 .. e, NEW v \in V[i - 1]
               PROVE  /\ g[<<i, v>>] = ReducedBy(v, tree[(e - i) + 1])
                      /\ ReducedBy(v, tree[(e - i) + 1]) \in V[i]
    OBVIOUS
  <2> DEFINE s == e - i
  <2>1. s \in Nat /\ s + 1 <= e /\ s + 1 = e - (i - 1) /\ s \in 0 .. e /\ i \in 0 .. e
        /\ i - 1 \in 0 .. e
    OBVIOUS
  <2>2. v \in RestOf(p, points, e, s + 1)
    BY <2>1
  <2>3. V[i] = RestOf(p, points, e, s)
    BY <2>1
  <2> HIDE DEF V
  <2>4. v \in Seq(Seq(Field))
    BY <2>2 DEF RestOf
  <2>5. g[<<i, v>>] = ReducedBy(v, tree[s + 1])
    BY <2>4
  <2> HIDE DEF s, g
  <2>6. ReducedBy(v, tree[s + 1]) \in RestOf(p, points, e, s)
    BY <2>1, <2>2, ReducedRests
  <2>7. tree[(e - i) + 1] = tree[s + 1]
    BY DEF s
  <2> QED BY <2>3, <2>5, <2>6, <2>7
<1>2. <<p>> \in V[0]
  <2> DEFINE w == <<p>>
             c == 2 ^ e
  <2>1. w \in Seq(Seq(Field)) /\ Len(w) = 1 /\ w[1] = p
    OBVIOUS
  <2>2. 2 ^ (e - e) = 1 /\ e - 0 = e /\ 0 \in 0 .. e
    <3>1. e - e = 0 /\ 2 ^ 0 = 1 /\ e - 0 = e /\ 0 \in 0 .. e
      OBVIOUS
    <3> QED BY <3>1, Zenon
  <2> HIDE DEF w
  <2>3. \A j \in 1 .. Len(points) : Same(PolyValue(p, points[j]), PolyValue(p, points[j]))
    <3> SUFFICES ASSUME NEW j \in 1 .. Len(points)
                 PROVE  Same(PolyValue(p, points[j]), PolyValue(p, points[j]))
      OBVIOUS
    <3>1. points[j] \in Field
      OBVIOUS
    <3>2. points[j] \in Int /\ p \in Seq(Int)
      BY <3>1, InField, FieldsAreNumbers
    <3> QED BY <3>2, PolyValueIsNumber, SameItself
  <2>4. c \in Nat /\ (1 - 1) * c + 1 = 1 /\ 1 * c = c /\ c = Len(points)
    <3>1. c = Len(points) /\ Len(points) \in Nat
      OBVIOUS
    <3> HIDE DEF c
    <3>2. c \in Nat
      BY <3>1
    <3> QED BY <3>1, <3>2
  <2>5. \A i \in 1 .. 1 :
          /\ e < e => Len(w[i]) <= 2 ^ e
          /\ \A j \in (i - 1) * c + 1 .. i * c :
               Same(PolyValue(w[i], points[j]), PolyValue(p, points[j]))
    <3> HIDE DEF c
    <3>1. \A i \in 1 .. 1 : i = 1
      OBVIOUS
    <3>2. ~ (e < e)
      OBVIOUS
    <3>3. \A j \in (1 - 1) * c + 1 .. 1 * c :
            Same(PolyValue(w[1], points[j]), PolyValue(p, points[j]))
      BY <2>1, <2>3, <2>4
    <3> QED BY <3>1, <3>2, <3>3
  <2>6. w \in RestOf(p, points, e, e)
    BY <2>1, <2>2, <2>5, Zenon DEF RestOf, c
  <2>7. V[0] = RestOf(p, points, e, e)
    BY <2>2
  <2> QED BY <2>6, <2>7 DEF w
<1>3. V[e] = RestOf(p, points, e, 0)
  <2>1. e - e = 0 /\ e \in 0 .. e
    OBVIOUS
  <2> QED BY <2>1
<1> HIDE DEF V, g
<1>4. PICK f : Passes(f, <<p>>, V, g, e)
  <2>1. \A i \in 1 .. e : \A v \in V[i - 1] : g[<<i, v>>] \in V[i]
    BY <1>1
  <2> QED BY <1>2, <2>1, IteratesWithin
<1> DEFINE u == [l \in 1 .. e + 1 |-> f[(e + 1) - l]]
<1>5. Reduces(u, p, tree)
  <2>1. ASSUME NEW l \in 1 .. e + 1
        PROVE  u[l] = IF l = e + 1 THEN <<p>> ELSE ReducedBy(u[l + 1], tree[l])
    <3>1. CASE l = e + 1
      <4>1. (e + 1) - l = 0
        BY <3>1
      <4> QED BY <1>4, <3>1, <4>1 DEF Passes
    <3>2. CASE l # e + 1
      <4> DEFINE i == (e + 1) - l
      <4>1. i \in 1 .. e /\ i - 1 \in 0 .. e /\ l + 1 \in 1 .. e + 1
            /\ (e + 1) - (l + 1) = i - 1 /\ (e - i) + 1 = l
        BY <3>2, FromTheTop
      <4>2. u[l] = f[i] /\ u[l + 1] = f[i - 1]
        BY <4>1
      <4> HIDE DEF i, u
      <4>3. f[i] = g[<<i, f[i - 1]>>] /\ f[i - 1] \in V[i - 1]
        BY <1>4, <4>1 DEF Passes
      <4>4. f[i] = ReducedBy(f[i - 1], tree[(e - i) + 1])
        BY <1>1, <4>1, <4>3
      <4> QED BY <3>2, <4>1, <4>2, <4>4
    <3> QED BY <3>1, <3>2
  <2>2. u = [l \in 1 .. e + 1 |-> u[l]]
    OBVIOUS
  <2> HIDE DEF u
  <2>3. u = [l \in 1 .. e + 1 |-> IF l = e + 1 THEN <<p>> ELSE ReducedBy(u[l + 1], tree[l])]
    BY <2>1, <2>2, Zenon
  <2> QED BY <2>3, Zenon DEF Reduces
<1>6. Reduces(r, p, tree)
  <2> HIDE DEF u
  <2> QED BY <1>5, Zenon
<1> HIDE DEF r, u
<1>7. r = [l \in 1 .. e + 1 |-> IF l = e + 1 THEN <<p>> ELSE ReducedBy(r[l + 1], tree[l])]
  BY <1>6, Zenon DEF Reduces
<1> DEFINE h == [i \in 0 .. e |-> r[(e + 1) - i]]
<1>8. h[0] \in V[0]
  <2>1. e + 1 \in 1 .. e + 1 /\ 0 \in 0 .. e /\ (e + 1) - 0 = e + 1
    OBVIOUS
  <2>2. h[0] = <<p>>
    BY <1>7, <2>1
  <2> QED BY <1>2, <2>2
<1>9. \A i \in 1 .. e : h[i - 1] \in V[i - 1] => h[i] \in V[i]
  <2> SUFFICES ASSUME NEW i \in 1 .. e, h[i - 1] \in V[i - 1] PROVE h[i] \in V[i]
    OBVIOUS
  <2> DEFINE l == (e + 1) - i
  <2>1. l \in 1 .. e + 1 /\ l # e + 1 /\ l + 1 = (e + 1) - (i - 1) /\ i \in 0 .. e
        /\ i - 1 \in 0 .. e /\ l = (e - i) + 1
    OBVIOUS
  <2>2. h[i] = r[l] /\ h[i - 1] = r[l + 1]
    BY <2>1
  <2> HIDE DEF l
  <2>3. r[l] = ReducedBy(r[l + 1], tree[l])
    BY <1>7, <2>1
  <2> HIDE DEF h
  <2> QED BY <1>1, <2>1, <2>2, <2>3
<1>10. \A i \in 0 .. e : h[i] \in V[i]
  <2> HIDE DEF h
  <2> QED BY <1>8, <1>9, IterationStays
<1>11. h[e] = r[1]
  <2>1. e \in 0 .. e /\ (e + 1) - e = 1
    OBVIOUS
  <2> QED BY <2>1
<1> HIDE DEF h
<1>12. r[1] \in V[e]
  BY <1>10, <1>11, e \in 0 .. e
<1> QED BY <1>3, <1>12 DEF r

LEMMA ShortValue ==
    ASSUME NEW p \in Seq(Field), Len(p) <= 1, NEW x \in Int
    PROVE  At(p, 1) \in Field /\ PolyValue(p, x) = At(p, 1)
<1>1. p \in Seq(Int) /\ Len(p) \in Nat
  BY FieldsAreNumbers
<1>2. Coefs(p) \in Coefficients /\ Coefs(p)[0] = At(p, 1)
  <2>1. 0 \in Nat /\ 0 + 1 = 1
    OBVIOUS
  <2> QED BY <1>1, <2>1, CoefsAre
<1>3. At(p, 1) \in Field
  <2>1. 1 \in 1 .. Len(p) => p[1] \in Field
    OBVIOUS
  <2> QED BY <2>1, ModulusIs DEF At
<1>4. Evaluation(Coefs(p), x, 1) = PolyValue(p, x)
  BY <1>1, PolyValueOfMore, 1 \in Nat
<1>5. /\ Evaluation(Coefs(p), x, 0) = 0
      /\ Evaluation(Coefs(p), x, 0 + 1)
         = Evaluation(Coefs(p), x, 0) + Coefs(p)[0] * PowerOf(x, 0)
  BY <1>2, EvaluationSteps, 0 \in Nat
<1>6. PowerOf(x, 0) = 1
  BY PowerStarts, 0 \in Nat
<1>7. At(p, 1) \in Int
  BY <1>3, InField
<1>8. 0 + At(p, 1) * 1 = At(p, 1) /\ 0 + 1 = 1
  BY <1>7
<1> QED BY <1>2, <1>3, <1>4, <1>5, <1>6, <1>8

\* polynomial.rs: the values of p at as many points as a power of two.
THEOREM MultipointEvaluates ==
    ASSUME NEW points \in Seq(Field), NEW e \in Nat \ {0}, Len(points) = 2 ^ e,
           NEW p \in Seq(Field)
    PROVE  \A j \in 1 .. Len(points) :
             LET v == MultipointEval(p, SubproductTree(points))[j]
             IN  v \in Field /\ Same(v, PolyValue(p, points[j]))
<1> DEFINE tree == SubproductTree(points)
           k == Len(points)
           M == {j \in DOMAIN tree[1] : Len(tree[1][j]) > 1}
           w == (CHOOSE u : Reduces(u, p, tree))[1]
<1>0. k \in Nat /\ e \in Nat /\ 2 ^ (e - 0) = k /\ 2 ^ 0 = 1 /\ 0 \in 0 .. e /\ 0 + 1 = 1
  <2>1. e - 0 = e /\ 2 ^ 0 = 1 /\ 0 \in 0 .. e /\ 0 + 1 = 1
    OBVIOUS
  <2> QED BY <2>1
<1>1. /\ tree = [l \in 1 .. e + 1 |-> tree[l]]
      /\ \A s \in 0 .. e : tree[s + 1] \in LevelOf(points, e, s)
  BY <1>0, TreeIs
<1> HIDE DEF tree
<1>2. Len(tree) = e + 1
  BY <1>1
<1>3. w \in RestOf(p, points, e, 0)
  BY <1>0, <1>1, <1>2, RestsReached
<1>4. /\ tree[1] \in Seq(Seq(Field)) /\ Len(tree[1]) = k
      /\ \A i \in 1 .. k : Vanishes(tree[1][i], points, (i - 1) * 1, i * 1)
  <2>1. tree[1] \in LevelOf(points, e, 0)
    BY <1>0, <1>1
  <2> HIDE DEF k
  <2> QED BY <1>0, <2>1 DEF LevelOf
<1>5. Cardinality(M) = k
  <2>1. DOMAIN tree[1] = 1 .. k
    BY <1>0, <1>4
  <2>2. \A i \in 1 .. k : Len(tree[1][i]) > 1
    <3> SUFFICES ASSUME NEW i \in 1 .. k PROVE Len(tree[1][i]) > 1
      OBVIOUS
    <3>1. Len(tree[1][i]) = (i * 1 - (i - 1) * 1) + 1
      BY <1>4 DEF Vanishes
    <3>2. (i * 1 - (i - 1) * 1) + 1 = 2
      BY <1>0
    <3> QED BY <3>1, <3>2
  <2>3. M = 1 .. k
    BY <2>1, <2>2
  <2> HIDE DEF k, M
  <2>4. 1 \in Int /\ k \in Int
    BY <1>0
  <2>5. Cardinality(1 .. k) = IF 1 > k THEN 0 ELSE k - 1 + 1
    BY <2>4, FS_Interval
  <2>6. (IF 1 > k THEN 0 ELSE k - 1 + 1) = k
    BY <1>0
  <2> QED BY <2>3, <2>5, <2>6
<1>6. MultipointEval(p, tree) = [i \in 1 .. k |-> At(w[i], 1)]
  <2>1. MultipointEval(p, tree) = [i \in 1 .. Cardinality(M) |-> At(w[i], 1)]
    BY EvalReduces
  <2> HIDE DEF M, w, k
  <2> QED BY <1>5, <2>1
<1> HIDE DEF w
<1>7. /\ w \in Seq(Seq(Field)) /\ Len(w) = k
      /\ \A i \in 1 .. k :
           /\ Len(w[i]) <= 1
           /\ \A j \in (i - 1) * 1 + 1 .. i * 1 :
                Same(PolyValue(w[i], points[j]), PolyValue(p, points[j]))
  <2>1. 0 < e
    OBVIOUS
  <2> HIDE DEF k
  <2> QED BY <1>0, <1>3, <2>1 DEF RestOf
<1> SUFFICES ASSUME NEW j \in 1 .. k
             PROVE  At(w[j], 1) \in Field /\ Same(At(w[j], 1), PolyValue(p, points[j]))
  BY <1>6 DEF tree
<1>8. w[j] \in Seq(Field) /\ Len(w[j]) <= 1 /\ j \in (j - 1) * 1 + 1 .. j * 1
  BY <1>0, <1>7
<1>9. Same(PolyValue(w[j], points[j]), PolyValue(p, points[j]))
  BY <1>7, <1>8
<1>10. points[j] \in Int
  <2>1. points[j] \in Field
    OBVIOUS
  <2> QED BY <2>1, InField
<1>11. At(w[j], 1) \in Field /\ PolyValue(w[j], points[j]) = At(w[j], 1)
  <2> DEFINE q == w[j]
             x == points[j]
  <2>1. q \in Seq(Field) /\ Len(q) <= 1 /\ x \in Int
    BY <1>8, <1>10
  <2> HIDE DEF q, x
  <2>2. At(q, 1) \in Field /\ PolyValue(q, x) = At(q, 1)
    BY <2>1, ShortValue
  <2> QED BY <2>2 DEF q, x
<1> QED BY <1>9, <1>11

\* The root of the tree has all the points as roots, and no other.
THEOREM TreeVanishes ==
    ASSUME NEW points \in Seq(Field), NEW e \in Nat, Len(points) = 2 ^ e, NEW x \in Int
    PROVE  LET tree == SubproductTree(points)
               root == tree[Len(tree)][1]
           IN  /\ root \in Seq(Field)
               /\ Same(PolyValue(root, x), 0)
                  <=> \E j \in 1 .. Len(points) : Same(x, points[j])
<1> DEFINE tree == SubproductTree(points)
           root == tree[Len(tree)][1]
           k == Len(points)
<1>1. /\ tree = [l \in 1 .. e + 1 |-> tree[l]]
      /\ \A s \in 0 .. e : tree[s + 1] \in LevelOf(points, e, s)
  BY TreeIs
<1> HIDE DEF tree
<1>2. Len(tree) = e + 1 /\ e \in 0 .. e
  BY <1>1
<1>3. tree[Len(tree)] \in LevelOf(points, e, e)
  BY <1>1, <1>2
<1>4. 2 ^ (e - e) = 1 /\ 1 \in 1 .. 1
  <2>1. e - e = 0 /\ 2 ^ 0 = 1 /\ 1 \in 1 .. 1
    OBVIOUS
  <2> QED BY <2>1, Zenon
<1>5. Vanishes(root, points, (1 - 1) * 2 ^ e, 1 * 2 ^ e)
  BY <1>3, <1>4 DEF LevelOf
<1>6. (1 - 1) * 2 ^ e = 0 /\ 1 * 2 ^ e = k
  <2>1. k = 2 ^ e /\ k \in Nat
    OBVIOUS
  <2> HIDE DEF k
  <2>2. (1 - 1) * k = 0 /\ 1 * k = k
    BY <2>1
  <2> QED BY <2>1, <2>2
<1>7. Vanishes(root, points, 0, k)
  BY <1>5, <1>6
<1> HIDE DEF root
<1>8. root \in Seq(Field)
      /\ (Same(PolyValue(root, x), 0) <=> \E j \in 0 + 1 .. k : Same(x, points[j]))
  BY <1>7 DEF Vanishes
<1>9. 0 + 1 = 1
  OBVIOUS
<1> QED BY <1>8, <1>9 DEF root, tree
=============================================================================
