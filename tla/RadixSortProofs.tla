--------------------------- MODULE RadixSortProofs --------------------------
(***************************************************************************)
(* What TLC checks of RadixSort on small arrays, for arrays of every       *)
(* length, keys of every width and records of every kind: the bits stay    *)
(* with their records, the blocks are in order when a stage begins, and    *)
(* the sort returns its records in the order of their keys.                *)
(***************************************************************************)
EXTENDS RadixSort, AlgorithmProofs

Width == 2 ^ BitLength

SameRecords == Permuted(input, vec, n)

\* k and j are powers of two, k has got at most one doubling past n, and the
\* keys are as the lemmas of AlgorithmProofs require them.
LevelsOK ==
    pc = "levels" =>
        /\ ~ public
        /\ bits \in Keys(n)
        /\ \E e, f, g \in Nat : AtLevel(e, f, g, n, k, j)
        /\ Prepared(bits, n, k, j)

EntryOK == pc = "entry" => vec = input /\ k = 2 /\ j = 1

SizeOK == pc \in {"levels", "done"} => Sortable(n)

\* The public sort orders whole keys, the network what it sees of them.
DoneOK ==
    pc = "done" =>
        \A x, y \in DOMAIN vec : x < y =>
            IF public THEN vec[x].key <= vec[y].key
            ELSE Truncated(vec[x].key, BitLength) <= Truncated(vec[y].key, BitLength)

IInv ==
    /\ TypeOK
    /\ BitsFollowKeys
    /\ SameRecords
    /\ LevelsOK
    /\ EntryOK
    /\ SizeOK
    /\ DoneOK

-----------------------------------------------------------------------------
(* The argument, and the ranks of its records.                             *)

LEMMA InputIs ==
    ASSUME input \in Inputs
    PROVE  /\ n \in Nat /\ DOMAIN input = 0 .. n-1
           /\ \A i \in 0 .. n-1 : input[i].key \in Nat
<1>1. /\ IsFiniteSet(DOMAIN input)
      /\ DOMAIN input = 0 .. n-1
      /\ \A i \in DOMAIN input : input[i].key \in Nat
  BY InputsAssumption DEF n
<1>2. n \in Nat
  BY <1>1, FS_CardinalityType DEF n
<1> QED BY <1>1, <1>2

LEMMA WidthIs == Width \in Nat \ {0}
BY BitLengthAssumption, PowerStep DEF Width

\* What the comparisons see of a key has bitLength bits, and is the key if
\* that has no more.
LEMMA TruncatedIs ==
    ASSUME NEW key \in Nat
    PROVE  /\ Truncated(key, BitLength) \in Int
           /\ Truncated(key, BitLength) \in 0 .. Width - 1
           /\ key < Width => Truncated(key, BitLength) = key
BY TruncatedWhole, BitLengthAssumption DEF Width

\* The positions that the stable sort puts before that of i.
Before(a, i) == {x \in DOMAIN a : a[x].key < a[i].key \/ (a[x].key = a[i].key /\ x < i)}

LEMMA RanksDiffer ==
    ASSUME NEW m \in Nat, NEW a, DOMAIN a = 0 .. m-1, \A i \in 0 .. m-1 : a[i].key \in Int,
           NEW x \in 0 .. m-1, NEW y \in 0 .. m-1
    PROVE  /\ Rank(a, x) \in 0 .. m-1
           /\ Rank(a, x) < Rank(a, y) <=> x \in Before(a, y)
           /\ Rank(a, x) = Rank(a, y) => x = y
<1> DEFINE S == 0 .. m-1
           B(i) == Before(a, i)
<1>1. IsFiniteSet(S) /\ Cardinality(S) = m
  BY FS_Interval
<1>2. \A i \in S : B(i) \in SUBSET S /\ i \notin B(i)
  BY DEF Before
<1>3. \A i, h \in S : i = h \/ i \in B(h) \/ h \in B(i)
  BY DEF Before
<1>4. \A i, h \in S : i \in B(h) => B(i) \in SUBSET B(h)
  BY DEF Before
<1>5. \A i \in S : Rank(a, i) = Cardinality(B(i))
  BY DEF Rank, Before
<1> HIDE DEF S, B
<1>6. \A i \in S : IsFiniteSet(B(i)) /\ Cardinality(B(i)) \in Nat
  BY <1>1, <1>2, FS_Subset, FS_CardinalityType
<1>7. \A i, h \in S : i \in B(h) => Cardinality(B(i)) < Cardinality(B(h))
  <2> SUFFICES ASSUME NEW i \in S, NEW h \in S, i \in B(h)
               PROVE  Cardinality(B(i)) < Cardinality(B(h))
    OBVIOUS
  <2>1. Cardinality(B(i)) <= Cardinality(B(h)) /\ (Cardinality(B(h)) = Cardinality(B(i)) => B(h) = B(i))
    BY <1>4, <1>6, FS_Subset, Zenon
  <2>2. B(h) # B(i)
    BY <1>2
  <2> QED BY <1>6, <2>1, <2>2
<1>8. Cardinality(B(x)) < m
  <2>1. Cardinality(B(x)) <= Cardinality(S) /\ (Cardinality(S) = Cardinality(B(x)) => S = B(x))
    BY <1>1, <1>2, FS_Subset, Zenon DEF S
  <2>2. S # B(x) /\ x \in S
    BY <1>2 DEF S
  <2> QED BY <1>1, <1>6, <2>1, <2>2
<1>9. x \in S /\ y \in S
  BY DEF S
<1>10. Rank(a, x) \in 0 .. m-1
  BY <1>5, <1>6, <1>8, <1>9
<1>11. Rank(a, x) < Rank(a, y) <=> x \in B(y)
  BY <1>3, <1>5, <1>6, <1>7, <1>9
<1>12. Rank(a, x) = Rank(a, y) => x = y
  BY <1>3, <1>5, <1>6, <1>7, <1>9
<1> QED BY <1>10, <1>11, <1>12 DEF B

\* There is one record at each rank.
LEMMA RankedOnce ==
    ASSUME NEW m \in Nat, NEW a, DOMAIN a = 0 .. m-1, \A i \in 0 .. m-1 : a[i].key \in Int
    PROVE  \A r \in 0 .. m-1 : \E i \in 0 .. m-1 : Rank(a, i) = r
<1> DEFINE S == 0 .. m-1
           f == [i \in S |-> Rank(a, i)]
<1>1. IsFiniteSet(S)
  BY FS_Interval
<1>2. \A x \in S : Rank(a, x) \in S
  BY RanksDiffer, Zenon
<1>3. \A x, y \in S : Rank(a, x) = Rank(a, y) => x = y
  BY RanksDiffer, Zenon
<1> HIDE DEF S
<1>4. f \in Injection(S, S)
  BY <1>2, <1>3 DEF Injection, IsInjective
<1>5. f \in Surjection(S, S)
  <2> HIDE DEF f
  <2> QED BY <1>1, <1>4, FS_Injection
<1>6. \A r \in S : \E i \in S : f[i] = r
  <2> HIDE DEF f
  <2> QED BY <1>5 DEF Surjection
<1> QED BY <1>6 DEF S

\* The stable sort gives another order of the records, that of their keys.
LEMMA StableSort ==
    ASSUME NEW m \in Nat, NEW a, DOMAIN a = 0 .. m-1, \A i \in 0 .. m-1 : a[i].key \in Int,
           NEW c, c = [r \in DOMAIN a |-> a[CHOOSE i \in DOMAIN a : Rank(a, i) = r]]
    PROVE  /\ Permuted(a, c, m)
           /\ \A x, y \in 0 .. m-1 : x < y => c[x].key <= c[y].key
<1> DEFINE S == 0 .. m-1
           p == [r \in S |-> CHOOSE i \in S : Rank(a, i) = r]
<1>1. \A r \in S : p[r] \in S /\ Rank(a, p[r]) = r
  <2>1. \A r \in S : \E i \in S : Rank(a, i) = r
    BY RankedOnce, ZenonT(40)
  <2> HIDE DEF S
  <2> QED BY <2>1
<1>2. p \in [S -> S]
  BY <1>1
<1>3. \A r \in S : c[r] = a[p[r]]
  OBVIOUS
<1>4. \A i \in S : Rank(a, i) \in S
  BY RanksDiffer, Zenon
<1>5. \A i, h \in S : Rank(a, i) = Rank(a, h) => i = h
  BY RanksDiffer, Zenon
<1>6. \A i, h \in S : Rank(a, i) < Rank(a, h) => i \in Before(a, h)
  BY RanksDiffer, Zenon
<1> HIDE DEF p
<1>7. Permutation(p, m)
  <2>1. \A x, y \in S : p[x] = p[y] => x = y
    BY <1>1
  <2>2. \A y \in S : \E x \in S : p[x] = y
    <3> SUFFICES ASSUME NEW y \in S PROVE \E x \in S : p[x] = y
      OBVIOUS
    <3>1. Rank(a, y) \in S /\ Rank(a, p[Rank(a, y)]) = Rank(a, y) /\ p[Rank(a, y)] \in S
      BY <1>1, <1>4
    <3>2. p[Rank(a, y)] = y
      BY <1>5, <3>1, Zenon
    <3> QED BY <3>1, <3>2, Zenon
  <2> QED BY <1>2, <2>1, <2>2 DEF Permutation
<1>8. ASSUME NEW x \in S, NEW y \in S, x < y
      PROVE  c[x].key <= c[y].key
  <2>1. p[x] \in S /\ p[y] \in S /\ p[x] \in Before(a, p[y])
    BY <1>1, <1>6, <1>8
  <2>2. a[p[x]].key <= a[p[y]].key
    BY <2>1 DEF Before
  <2> QED BY <1>3, <2>2
<1> QED BY <1>3, <1>7, <1>8 DEF Permuted


-----------------------------------------------------------------------------
(* The inductive invariant.                                                *)

\* Records in another order are records of the argument.
LEMMA SameRecordsAre ==
    ASSUME TypeOK, SameRecords
    PROVE  \A i \in 0 .. n-1 : \E x \in 0 .. n-1 : vec[i] = input[x] /\ vec[i].key \in Nat
<1>1. PICK p : Permutation(p, n) /\ \A i \in 0 .. n-1 : vec[i] = input[p[i]]
  BY DEF SameRecords, Permuted
<1>2. n \in Nat /\ \A x \in 0 .. n-1 : input[x].key \in Nat
  BY InputIs DEF TypeOK
<1>3. p \in [0 .. n-1 -> 0 .. n-1]
  BY <1>1 DEF Permutation
<1> QED BY <1>1, <1>2, <1>3

LEMMA InitInv == Init => IInv
<1> SUFFICES ASSUME Init PROVE IInv
  OBVIOUS
<1>1. input \in Inputs /\ vec = input /\ pc = "entry" /\ k = 2 /\ j = 1
  BY DEF Init
<1>2. n \in Nat /\ DOMAIN input = 0 .. n-1
  BY <1>1, InputIs
<1>3. 2 ^ BitLength - 1 \in Nat
  BY WidthIs DEF Width
<1>4. TypeOK
  <2>1. public \in BOOLEAN /\ bits = [i \in DOMAIN input |-> 0]
    BY DEF Init
  <2> DEFINE w == 2 ^ BitLength - 1
  <2>2. \A i \in DOMAIN bits : bits[i] \in 0 .. w
    <3> HIDE DEF w
    <3>1. w \in Nat
      BY <1>3 DEF w
    <3> QED BY <2>1, <3>1
  <2> QED BY <1>1, <2>1, <2>2 DEF TypeOK
<1>5. SameRecords
  BY <1>1, PermutedSelf DEF SameRecords
<1> QED BY <1>1, <1>4, <1>5 DEF IInv, BitsFollowKeys, LevelsOK, EntryOK, SizeOK, DoneOK

LEMMA RejectInv ==
    ASSUME IInv, Reject
    PROVE  IInv'
<1>1. input' = input /\ public' = public /\ vec' = vec /\ bits' = bits /\ k' = k /\ j' = j /\ pc' = "panicked"
  BY DEF Reject
<1>2. TypeOK'
  BY <1>1 DEF IInv, TypeOK
<1>3. SameRecords'
  BY <1>1 DEF IInv, SameRecords, n
<1> QED BY <1>1, <1>2, <1>3 DEF IInv, BitsFollowKeys, LevelsOK, EntryOK, SizeOK, DoneOK

LEMMA SortPublicInv ==
    ASSUME IInv, SortPublic
    PROVE  IInv'
<1>1. /\ input' = input /\ public' = public /\ bits' = bits /\ k' = k /\ j' = j
      /\ pc = "entry" /\ pc' = "done" /\ public /\ Sortable(n) /\ n' = n
  BY DEF SortPublic, n
<1>0. vec' = [r \in DOMAIN vec |-> vec[CHOOSE i \in DOMAIN vec : Rank(vec, i) = r]]
  BY DEF SortPublic
<1>2. n \in Nat /\ DOMAIN vec = 0 .. n-1 /\ DOMAIN input = 0 .. n-1
  BY InputIs DEF IInv, TypeOK
<1>3. \A i \in 0 .. n-1 : vec[i].key \in Int
  BY SameRecordsAre DEF IInv
<1>4. Permuted(vec, vec', n) /\ \A x, y \in 0 .. n-1 : x < y => vec'[x].key <= vec'[y].key
  BY <1>0, <1>2, <1>3, StableSort
<1>5. Permuted(input, vec', n)
  BY <1>4, PermutedTwice DEF IInv, SameRecords
<1>6. DOMAIN vec' = 0 .. n-1
  BY <1>0, <1>2
<1>7. TypeOK'
  <2>1. \A i \in 0 .. n-1 : vec'[i] \in {input[x] : x \in DOMAIN input}
    <3>1. PICK p : Permutation(p, n) /\ \A i \in 0 .. n-1 : vec'[i] = input[p[i]]
      BY <1>5 DEF Permuted
    <3> QED BY <1>2, <3>1 DEF Permutation
  <2> QED BY <1>1, <1>2, <1>6, <2>1 DEF IInv, TypeOK
<1>8. DoneOK'
  BY <1>1, <1>4, <1>6 DEF DoneOK
<1>9. SameRecords'
  BY <1>1, <1>5 DEF SameRecords
<1> QED BY <1>1, <1>7, <1>8, <1>9 DEF IInv, BitsFollowKeys, LevelsOK, EntryOK, SizeOK

LEMMA DecomposeInv ==
    ASSUME IInv, Decompose
    PROVE  IInv'
<1>1. /\ input' = input /\ public' = public /\ vec' = vec /\ k' = k /\ j' = j
      /\ pc = "entry" /\ pc' = "levels" /\ Sortable(n) /\ n' = n
      /\ bits' = [i \in DOMAIN vec |-> Truncated(vec[i].key, BitLength)]
  BY DEF Decompose, n
<1>0. ~ public
  BY DEF Decompose
<1>2. n \in Nat /\ DOMAIN vec = 0 .. n-1 /\ DOMAIN input = 0 .. n-1 /\ k = 2 /\ j = 1
  BY <1>1, InputIs DEF IInv, TypeOK, EntryOK
<1>3. \A i \in 0 .. n-1 : vec[i].key \in Nat
  BY SameRecordsAre DEF IInv
<1>4. \A i \in 0 .. n-1 :
        Truncated(vec[i].key, BitLength) \in Int /\ Truncated(vec[i].key, BitLength) \in 0 .. Width - 1
  BY <1>3, TruncatedIs, Zenon
<1>5. bits' \in Keys(n)
  BY <1>1, <1>2, <1>4 DEF Keys
<1>6. TypeOK'
  <2>1. \A i \in 0 .. n-1 : bits'[i] \in 0 .. 2 ^ BitLength - 1
    BY <1>1, <1>2, <1>4 DEF Width
  <2> QED BY <1>1, <1>2, <2>1 DEF IInv, TypeOK
<1>7. LevelsOK'
  <2>1. PICK g \in Nat \ {0} : n = 2 ^ g
    BY <1>1, <1>2, SortableIs
  <2>2. AtLevel(1, 0, g, n, 2, 1)
    BY <2>1, FirstLevel, Zenon
  <2>3. \E e, f, h \in Nat : AtLevel(e, f, h, n, k, j)
    <3>1. g \in Nat
      OBVIOUS
    <3> QED BY <1>2, <2>2, <3>1
  <2>4. Prepared(bits', n, k, j)
    BY <1>2, <1>5, PreparedFirst
  <2> QED BY <1>0, <1>1, <1>5, <2>3, <2>4 DEF LevelsOK
<1>8. BitsFollowKeys'
  BY <1>1 DEF BitsFollowKeys
<1>9. SameRecords'
  BY <1>1 DEF IInv, SameRecords
<1> QED BY <1>1, <1>6, <1>7, <1>8, <1>9 DEF IInv, EntryOK, SizeOK, DoneOK

LEMMA LevelInv ==
    ASSUME IInv, Level
    PROVE  IInv'
<1>1. /\ input' = input /\ public' = public /\ n' = n
      /\ pc = "levels" /\ pc' = "levels" /\ k <= n
      /\ vec' = Exchange(vec, bits, k, j) /\ bits' = Exchange(bits, bits, k, j)
      /\ k' = NextLevel(k, j)[1] /\ j' = NextLevel(k, j)[2]
  BY DEF Level, n
<1>2. n \in Nat /\ DOMAIN vec = 0 .. n-1 /\ DOMAIN input = 0 .. n-1
  BY InputIs DEF IInv, TypeOK
<1>3. PICK e \in Nat, f \in Nat, g \in Nat : AtLevel(e, f, g, n, k, j)
  BY <1>1 DEF IInv, LevelsOK
<1>4. bits \in Keys(n) /\ Prepared(bits, n, k, j) /\ DOMAIN bits = 0 .. n-1
  BY <1>1 DEF IInv, LevelsOK, Keys
<1>5. j \in Nat \ {0} /\ Whole(n, 2 * j)
  BY <1>1, <1>3, LevelMeans
<1>6. bits' \in Keys(n) /\ Prepared(bits', n, k', j')
  BY <1>1, <1>3, <1>4, PreparedNext
<1>7. \E e1, f1 \in Nat : AtLevel(e1, f1, g, n, k', j')
  <2>1. CASE f > 0
    <3>1. AtLevel(e, f - 1, g, n, k', j') /\ f - 1 \in Nat
      BY <1>1, <1>3, <2>1, LevelAfter
    <3> QED BY <3>1
  <2>2. CASE f = 0
    <3>1. AtLevel(e + 1, e, g, n, k', j') /\ e + 1 \in Nat
      BY <1>1, <1>3, <2>2, LevelAfter
    <3> QED BY <3>1
  <2> QED BY <2>1, <2>2
<1>8. LevelsOK'
  BY <1>1, <1>6, <1>7 DEF IInv, LevelsOK
<1>9. BitsFollowKeys'
  <2>1. \A i \in 0 .. n-1 : Partner(i, j) \in 0 .. n-1
    BY <1>2, <1>5, PartnerIs, Zenon
  <2>2. \A i \in 0 .. n-1 : bits[i] = Truncated(vec[i].key, BitLength)
    BY <1>1, <1>2 DEF IInv, BitsFollowKeys
  <2>3. \A i \in 0 .. n-1 : bits'[i] = Truncated(vec'[i].key, BitLength)
    <3> SUFFICES ASSUME NEW i \in 0 .. n-1 PROVE bits'[i] = Truncated(vec'[i].key, BitLength)
      OBVIOUS
    <3>1. CASE Swaps(bits, k, j, i)
      <4>1. bits'[i] = bits[Partner(i, j)] /\ vec'[i] = vec[Partner(i, j)]
        BY <1>1, <1>2, <1>4, <3>1 DEF Exchange
      <4> QED BY <2>1, <2>2, <4>1
    <3>2. CASE ~ Swaps(bits, k, j, i)
      <4>1. bits'[i] = bits[i] /\ vec'[i] = vec[i]
        BY <1>1, <1>2, <1>4, <3>2 DEF Exchange
      <4> QED BY <2>2, <4>1
    <3> QED BY <3>1, <3>2
  <2>4. DOMAIN vec' = 0 .. n-1
    BY <1>1, <1>2 DEF Exchange
  <2> QED BY <2>3, <2>4 DEF BitsFollowKeys
<1>10. SameRecords'
  <2>1. Permuted(vec, vec', n)
    BY <1>1, <1>2, <1>5, ExchangePermutes
  <2>2. Permuted(input, vec', n)
    BY <2>1, PermutedTwice DEF IInv, SameRecords
  <2> QED BY <1>1, <2>2 DEF SameRecords
<1>11. TypeOK'
  <2>1. DOMAIN vec' = 0 .. n-1 /\ DOMAIN bits' = 0 .. n-1
    BY <1>1, <1>2, <1>4 DEF Exchange
  <2>2. PICK p : Permutation(p, n) /\ \A i \in 0 .. n-1 : vec'[i] = input[p[i]]
    BY <1>1, <1>10 DEF SameRecords, Permuted
  <2>3. \A i \in 0 .. n-1 : \E x \in 0 .. n-1 : vec'[i] = input[x]
    BY <2>2 DEF Permutation
  <2>4. \A i \in 0 .. n-1 : bits'[i] \in 0 .. 2 ^ BitLength - 1
    <3>1. \A x \in 0 .. n-1 : input[x].key \in Nat
      BY InputIs DEF IInv, TypeOK
    <3>2. \A i \in 0 .. n-1 : vec'[i].key \in Nat /\ bits'[i] = Truncated(vec'[i].key, BitLength)
      BY <1>1, <1>9, <2>1, <2>3, <3>1 DEF BitsFollowKeys
    <3>3. \A key \in Nat : Truncated(key, BitLength) \in 0 .. 2 ^ BitLength - 1
      BY TruncatedIs, Zenon DEF Width
    <3> QED BY <3>2, <3>3
  <2>5. k' >= 2 /\ j' >= 1 /\ 2 * j' <= k'
    <3>1. PICK e1 \in Nat, f1 \in Nat : AtLevel(e1, f1, g, n, k', j')
      BY <1>7
    <3> QED BY <3>1, LevelMeans
  <2> QED BY <1>1, <1>2, <2>1, <2>3, <2>4, <2>5 DEF IInv, TypeOK
<1> QED BY <1>1, <1>8, <1>9, <1>10, <1>11 DEF IInv, EntryOK, SizeOK, DoneOK

LEMMA ReturnInv ==
    ASSUME IInv, Return
    PROVE  IInv'
<1>1. /\ input' = input /\ public' = public /\ vec' = vec /\ bits' = bits /\ k' = k /\ j' = j
      /\ n' = n /\ pc = "levels" /\ pc' = "done" /\ k > n
  BY DEF Return, n
<1>2. n \in Nat /\ DOMAIN vec = 0 .. n-1
  BY InputIs DEF IInv, TypeOK
<1>3. \A x, y \in 0 .. n-1 : x < y => bits[x] <= bits[y]
  <2>1. PICK e \in Nat, f \in Nat, g \in Nat : AtLevel(e, f, g, n, k, j)
    BY <1>1 DEF IInv, LevelsOK
  <2>2. bits \in Keys(n) /\ Prepared(bits, n, k, j)
    BY <1>1 DEF IInv, LevelsOK
  <2> QED BY <1>1, <2>1, <2>2, PreparedLast
<1>4. \A x, y \in DOMAIN vec : x < y =>
        Truncated(vec[x].key, BitLength) <= Truncated(vec[y].key, BitLength)
  BY <1>1, <1>2, <1>3 DEF IInv, BitsFollowKeys
<1>5. ~ public
  BY <1>1 DEF IInv, LevelsOK
<1> QED BY <1>1, <1>4, <1>5 DEF IInv, TypeOK, BitsFollowKeys, SameRecords, LevelsOK, EntryOK, SizeOK, DoneOK


LEMMA NextInv == IInv /\ [Next]_vars => IInv'
<1> SUFFICES ASSUME IInv, [Next]_vars PROVE IInv'
  OBVIOUS
<1>1. CASE Reject
  BY <1>1, RejectInv
<1>2. CASE SortPublic
  BY <1>2, SortPublicInv
<1>3. CASE Decompose
  BY <1>3, DecomposeInv
<1>4. CASE Level
  BY <1>4, LevelInv
<1>5. CASE Return
  BY <1>5, ReturnInv
<1>6. CASE Terminated \/ UNCHANGED vars
  <2>1. UNCHANGED <<input, public, vec, bits, k, j, pc>>
    BY <1>6 DEF Terminated, vars
  <2> QED BY <2>1 DEF IInv, TypeOK, BitsFollowKeys, SameRecords, LevelsOK, EntryOK, SizeOK, DoneOK, n
<1> QED BY <1>1, <1>2, <1>3, <1>4, <1>5, <1>6 DEF Next

-----------------------------------------------------------------------------
(* The theorems.                                                           *)

\* Whatever the arrays, and whether or not their keys fit: the state of the
\* sort is as the levels need it, level after level.
THEOREM RadixSortInv == Spec => []IInv
BY InitInv, NextInv, PTL DEF Spec

\* The sort works on records of its argument, and the precomputed bits have
\* bit_length bits: radix_sort_by_key never reads past the end of one.
THEOREM RadixSortTypeOK == Spec => []TypeOK
<1>1. IInv => TypeOK
  BY DEF IInv
<1> QED BY <1>1, RadixSortInv, PTL

\* The exchanges move a record and its bits alike, so that a comparison of
\* bits decomposed before the first level is one of the records' own keys.
THEOREM RadixSortBitsFollowKeys == Spec => []BitsFollowKeys
<1>1. IInv => BitsFollowKeys
  BY DEF IInv
<1> QED BY <1>1, RadixSortInv, PTL

\* Of a key that fits, the comparisons see the whole.
LEMMA WholeKeys ==
    ASSUME KeysFit, IInv
    PROVE  /\ n \in Nat /\ DOMAIN vec = 0 .. n-1 /\ DOMAIN input = 0 .. n-1
           /\ \A i \in 0 .. n-1 : vec[i].key \in Nat /\ Truncated(vec[i].key, BitLength) = vec[i].key
<1>1. n \in Nat /\ DOMAIN vec = 0 .. n-1 /\ DOMAIN input = 0 .. n-1 /\ input \in Inputs
  BY InputIs DEF IInv, TypeOK
<1>2. \A i \in 0 .. n-1 : \E x \in 0 .. n-1 : vec[i] = input[x] /\ vec[i].key \in Nat
  BY SameRecordsAre DEF IInv
<1>3. \A x \in 0 .. n-1 : input[x].key < Width
  BY <1>1 DEF KeysFit, Width
<1>4. \A i \in 0 .. n-1 : vec[i].key \in Nat /\ vec[i].key < Width
  BY <1>2, <1>3
<1>5. \A key \in Nat : key < Width => Truncated(key, BitLength) = key
  BY TruncatedIs, Zenon
<1> QED BY <1>1, <1>4, <1>5

\* Bits of keys that fit are the keys.
LEMMA BitsAreKeys ==
    ASSUME KeysFit, IInv, pc = "levels"
    PROVE  /\ DOMAIN vec = 0 .. n-1
           /\ \A i \in 0 .. n-1 : bits[i] = vec[i].key
<1>1. DOMAIN vec = 0 .. n-1 /\ \A i \in 0 .. n-1 : Truncated(vec[i].key, BitLength) = vec[i].key
  BY WholeKeys
<1>2. \A i \in 0 .. n-1 : bits[i] = Truncated(vec[i].key, BitLength)
  BY <1>1 DEF IInv, BitsFollowKeys
<1> QED BY <1>1, <1>2

\* Each stage of radix_sort_by_key hands on blocks that are in order, upwards
\* and downwards by turns, however many stages there are.
THEOREM RadixSortBlocks ==
    ASSUME KeysFit
    PROVE  Spec => []BlocksInOrder
<1>1. IInv => BlocksInOrder
  <2> SUFFICES ASSUME IInv, pc = "levels", j = k \div 2
               PROVE  \A a, b \in DOMAIN vec : a < b /\ a \div j = b \div j =>
                        IF Ascending(a, j) THEN vec[a].key <= vec[b].key
                        ELSE vec[a].key >= vec[b].key
    BY DEF BlocksInOrder
  <2>1. PICK e \in Nat, f \in Nat, g \in Nat : AtLevel(e, f, g, n, k, j)
    BY DEF IInv, LevelsOK
  <2>2. j \in Nat \ {0} /\ \E q \in Nat \ {0} : k = q * (2 * j)
    BY <2>1, LevelMeans
  <2>3. 2 * j = k
    <3>1. PICK q \in Nat \ {0} : k = q * (2 * j)
      BY <2>2
    <3>2. k = 2 * (q * j) /\ q * j \in Nat
      BY <2>2, <3>1
    <3>3. k \div 2 = q * j
      BY <3>2
    <3>4. q = 1
      BY <2>2, <3>3
    <3> QED BY <2>2, <3>1, <3>4
  <2>4. Separated(bits, n, j, 1)
    BY <2>3 DEF IInv, LevelsOK, Prepared
  <2>5. DOMAIN vec = 0 .. n-1 /\ \A i \in 0 .. n-1 : bits[i] = vec[i].key
    BY BitsAreKeys
  <2>6. \A x, y \in 0 .. n-1 : x < y => x \div 1 # y \div 1
    OBVIOUS
  <2> QED BY <2>4, <2>5, <2>6 DEF Separated
<1> QED BY <1>1, RadixSortInv, PTL

\* Inside a stage of radix_sort_by_key the exchanges of one distance leave
\* every half on its side of the other one, and no later exchange undoes it.
THEOREM RadixSortHalves ==
    ASSUME KeysFit
    PROVE  Spec => []HalvesSeparated
<1>1. IInv => HalvesSeparated
  <2> SUFFICES ASSUME IInv, pc = "levels", k <= n
               PROVE  \A a, b \in DOMAIN vec :
                        a < b /\ a \div k = b \div k /\ a \div (2 * j) # b \div (2 * j) =>
                          IF Ascending(a, k) THEN vec[a].key <= vec[b].key
                          ELSE vec[a].key >= vec[b].key
    BY DEF HalvesSeparated
  <2>1. Separated(bits, n, k, 2 * j)
    BY DEF IInv, LevelsOK, Prepared
  <2>2. DOMAIN vec = 0 .. n-1 /\ \A i \in 0 .. n-1 : bits[i] = vec[i].key
    BY BitsAreKeys
  <2> QED BY <2>1, <2>2 DEF Separated
<1> QED BY <1>1, RadixSortInv, PTL

\* The abstract specification counts alike.
LEMMA AbstractCounts == \A S : Abstract!Cardinality(S) = Cardinality(S)
BY DEF Abstract!Cardinality, Cardinality

\* What a state that has returned shows.
Returned == pc = "done" => Abstract!Rearranged(input, vec) /\ Abstract!Ordered(vec)

LEMMA ReturnedIs ==
    ASSUME KeysFit
    PROVE  IInv => Returned
<1> SUFFICES ASSUME IInv, pc = "done"
             PROVE  Abstract!Rearranged(input, vec) /\ Abstract!Ordered(vec)
  BY DEF Returned
<1>1. /\ n \in Nat /\ DOMAIN vec = 0 .. n-1 /\ DOMAIN input = 0 .. n-1
      /\ \A i \in 0 .. n-1 : vec[i].key \in Nat /\ Truncated(vec[i].key, BitLength) = vec[i].key
  BY WholeKeys
<1>2. Abstract!Rearranged(input, vec)
  <2>1. Permuted(input, vec, n)
    BY DEF IInv, SameRecords
  <2>2. ASSUME NEW r
        PROVE  Often(input, n, r) = Often(vec, n, r)
    BY <1>1, <2>1, PermutedOccurs
  <2>3. ASSUME NEW r
        PROVE  Abstract!Occurs(input, r) = Abstract!Occurs(vec, r)
    <3>1. /\ Abstract!Occurs(input, r) = Often(input, n, r)
          /\ Abstract!Occurs(vec, r) = Often(vec, n, r)
      BY <1>1, AbstractCounts DEF Abstract!Occurs, Often
    <3> QED BY <2>2, <3>1, Zenon
  <2> QED BY <1>1, <2>3, Zenon DEF Abstract!Rearranged
<1>3. Abstract!Ordered(vec)
  BY <1>1 DEF Abstract!Ordered, IInv, DoneOK
<1> QED BY <1>2, <1>3

\* radix_sort_by_key implements Sort: on every array of keys that fit it
\* panics exactly if the length is no power of two from 2 on, and returns
\* the records it was given, each as often as it was, in order of their keys.
THEOREM RadixSortSorts ==
    ASSUME KeysFit
    PROVE  Spec => Sorts
<1>1. Init => Abstract!SInit
  BY DEF Init, Abstract!SInit
<1>2. Abstract!Sortable(Abstract!Size) <=> Sortable(n)
  <2>1. Abstract!Size = n
    BY AbstractCounts DEF Abstract!Size, n
  <2>2. \A x : Abstract!Sortable(x) <=> Sortable(x)
    BY DEF Abstract!Sortable, Abstract!PowerOfTwo, Sortable, PowerOfTwo
  <2> QED BY <2>1, <2>2, Zenon
<1>3. IInv => Returned
  BY ReturnedIs
<1>4. IInv /\ Returned' /\ [Next]_vars => [Abstract!SNext]_(Abstract!svars)
  <2> SUFFICES ASSUME IInv, Returned', [Next]_vars
               PROVE  [Abstract!SNext]_(Abstract!svars)
    OBVIOUS
  <2>1. CASE Reject
    BY <1>2, <2>1 DEF Reject, Abstract!SNext, Abstract!SReject
  <2>2. CASE SortPublic \/ Return
    <3>1. /\ input' = input /\ pc \notin {"done", "panicked"} /\ pc' = "done" /\ Sortable(n)
      BY <2>2 DEF SortPublic, Return, IInv, SizeOK
    <3>2. Abstract!Rearranged(input', vec') /\ Abstract!Ordered(vec')
      BY <3>1 DEF Returned
    <3> QED BY <1>2, <3>1, <3>2 DEF Abstract!SNext, Abstract!SReturn
  <2>3. CASE Decompose \/ Level
    BY <2>3 DEF Decompose, Level, Abstract!svars
  <2>4. CASE Terminated \/ UNCHANGED vars
    BY <2>4 DEF Terminated, vars, Abstract!svars
  <2> QED BY <2>1, <2>2, <2>3, <2>4 DEF Next
<1> QED BY <1>1, <1>3, <1>4, RadixSortInv, PTL DEF Spec, Sorts, Abstract!SSpec
=============================================================================
