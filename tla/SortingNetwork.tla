--------------------------- MODULE SortingNetwork ---------------------------
(***************************************************************************)
(* The bitonic network of radix_sort and radix_sort_by_key                 *)
(* (mpc-lookup/src/halo2_lookup/sorting.rs), on functions over 0 .. n-1.   *)
(* The comparisons of a level read bits decomposed once, at the start, and *)
(* cut to bit_length; every exchange moves a record and its bits alike.    *)
(***************************************************************************)
EXTENDS Integers

PowerOfTwo(n) == \E e \in 0 .. n : n = 2 ^ e

\* What the sort accepts.
Sortable(n) == n >= 2 /\ PowerOfTwo(n)

\* i ^ j, for a power of two j.
Partner(i, j) == IF (i \div j) % 2 = 0 THEN i + j ELSE i - j

\* i & k = 0, for a power of two k: the pair of i is put in ascending order.
Ascending(i, k) == (i \div k) % 2 = 0

\* The lower index of i's pair, and the higher one.
Lower(i, j) == IF Partner(i, j) < i THEN Partner(i, j) ELSE i
Upper(i, j) == IF Partner(i, j) < i THEN i ELSE Partner(i, j)

\* Slip: the direction is taken at the distance of the pair.
SlipSwaps(bits, k, j, i) ==
    LET isLess == bits[Lower(i, j)] < bits[Upper(i, j)]
    IN  IF Ascending(Lower(i, j), j) THEN ~ isLess ELSE isLess

\* Does the pair of i change places?  Equal keys do in an ascending pair.
Swaps(bits, k, j, i) ==
    LET isLess == bits[Lower(i, j)] < bits[Upper(i, j)]
    IN  IF Ascending(Lower(i, j), k) THEN ~ isLess ELSE isLess

\* Slip: only the lower record of a pair is replaced.
SlipExchange(a, bits, k, j) ==
    [i \in DOMAIN a |-> IF Swaps(bits, k, j, i) THEN a[Upper(i, j)] ELSE a[i]]

\* One level of the network, on whatever goes with the bits.
Exchange(a, bits, k, j) ==
    [i \in DOMAIN a |-> IF Swaps(bits, k, j, i) THEN a[Partner(i, j)] ELSE a[i]]

\* Slip: the pairs at distance 0 get a level as well.
SlipPastOne(k, j) == IF j >= 1 THEN <<k, j \div 2>> ELSE <<2 * k, k>>

\* Slip: the next stage is the same one again.
SlipSameStage(k, j) == IF j > 1 THEN <<k, j \div 2>> ELSE <<k, k \div 2>>

\* The level after <<k, j>>.
NextLevel(k, j) == IF j > 1 THEN <<k, j \div 2>> ELSE <<2 * k, k>>

\* The bits of a key that the comparisons see.
Truncated(key, bitLength) == key % (2 ^ bitLength)

-----------------------------------------------------------------------------
(* The whole network as a function, for the algorithms that use it.        *)

LevelCount(n) ==
    LET stages == CHOOSE e \in 1 .. n : n = 2 ^ e
    IN  (stages * (stages + 1)) \div 2

RadixSortByKey(recs, n, bitLength) ==
    LET level[l \in 0 .. LevelCount(n)] ==
          IF l = 0
          THEN [vec  |-> recs,
                bits |-> [i \in 0 .. n-1 |-> Truncated(recs[i].key, bitLength)],
                at   |-> <<2, 1>>]
          ELSE LET s == level[l - 1]
                   k == s.at[1]
                   j == s.at[2]
               IN  [vec  |-> Exchange(s.vec, s.bits, k, j),
                    bits |-> Exchange(s.bits, s.bits, k, j),
                    at   |-> NextLevel(k, j)]
    IN  level[LevelCount(n)].vec
=============================================================================
