---------------------- MODULE LookupPermutationProofs -----------------------
(***************************************************************************)
(* What TLC checks of the lookup permutation on small tables, for tables   *)
(* and queries of every length, over every field and for every width of    *)
(* the keys.  A record of a compaction knows its position, the keys of two *)
(* records differ, and so the writes lie in order of the rows they are     *)
(* for.  The polynomial is zero at exactly the elements that are asked for *)
(* (AlgorithmProofs says what its arithmetic computes).  In the end, both   *)
(* permutations on the same input: each fills the rows that are left with  *)
(* the elements that are left, in order, and so they agree.                *)
(***************************************************************************)
EXTENDS TwoWays, AlgorithmProofs

Query == 0 .. m-1

First(i) == i = 0 \/ fPrime[i] # fPrime[i - 1]

\* The records of the two compactions, before they are sorted.
Values == [j \in Row |-> [key |-> Keyed(unused[j], j), val |-> t[j], flag |-> unused[j]]]
Positions ==
    [i \in Row |-> [key |-> Keyed(1 - fDouble[i], i), val |-> i, flag |-> 1 - fDouble[i]]]

ByKey(recs, sorted, len) ==
    /\ DOMAIN sorted = 0 .. len-1
    /\ Permuted(recs, sorted, len)
    /\ \A x, y \in 0 .. len-1 : x < y => sorted[x].key <= sorted[y].key

BeforeQueries   == {"sort", "panicked"}
BeforeFirsts    == BeforeQueries \cup {"indicate"}
BeforeUnused    == BeforeFirsts \cup {"membership"}
BeforeValues    == BeforeUnused \cup {"values"}
BeforePositions == BeforeValues \cup {"positions"}
BeforeWrites    == BeforePositions \cup {"write"}
BeforeTable     == BeforeWrites \cup {"construct"}
BeforePadding   == BeforeTable \cup {"returned"}

PcOK == pc \in BeforePadding \cup {"padded"}

QueriesOK ==
    IF pc \in BeforeQueries THEN fPrime = None
    ELSE /\ m <= n /\ PowerOfTwo(n) /\ Sortable(m)
         /\ fPrime \in [Query -> Field]
         /\ Permuted(f, fPrime, m)
         /\ \A x, y \in Query : x < y => fPrime[x] <= fPrime[y]

FirstsOK ==
    IF pc \in BeforeFirsts THEN fDouble = None
    ELSE /\ fDouble \in [Row -> 0 .. 1]
         /\ \A i \in Row : fDouble[i] = 1 <=> i < m /\ First(i)

UnusedOK == IF pc \in BeforeUnused THEN unused = None ELSE unused \in [Row -> 0 .. 1]

ValuesOK == IF pc \in BeforeValues THEN unusedRec = None ELSE ByKey(Values, unusedRec, n)

PositionsOK ==
    IF pc \in BeforePositions THEN unfilledRec = None ELSE ByKey(Positions, unfilledRec, n)

WritesOK == IF pc \in BeforeWrites THEN writes = None ELSE ByKey(AllWrites, writes, 2 * n)

TableOK == tPrime = IF pc \in BeforeTable THEN None ELSE [i \in Row |-> writes[i].val]

PaddingOK ==
    columns = IF pc \in BeforePadding THEN None
              ELSE [a |-> Padded(f), aPrime |-> Padded(fPrime)]

\* Every array is what its step makes of the arrays before it.
IInv ==
    /\ input \in Inputs
    /\ PcOK
    /\ QueriesOK
    /\ FirstsOK
    /\ UnusedOK
    /\ ValuesOK
    /\ PositionsOK
    /\ WritesOK
    /\ TableOK
    /\ PaddingOK

-----------------------------------------------------------------------------
(* Sizes, arrays and keys.                                                 *)

LEMMA ArraysAre ==
    ASSUME input \in Inputs
    PROVE  /\ n \in Nat /\ m \in Nat
           /\ DOMAIN t = Row /\ DOMAIN f = Query
           /\ IsFiniteSet(Row)
           /\ \A j \in Row : t[j] \in Field
           /\ \A i \in Query : f[i] \in Field
           /\ PositionsFit => n <= Multiplier
<1>1. /\ IsFiniteSet(DOMAIN t) /\ DOMAIN t = Row
      /\ IsFiniteSet(DOMAIN f) /\ DOMAIN f = Query
  BY InputsAssumption DEF t, f, n, m, Row, Query
<1>2. n \in Nat /\ m \in Nat
  BY <1>1, FS_CardinalityType DEF n, m
<1>3. (\A j \in DOMAIN t : t[j] \in Field) /\ (\A i \in DOMAIN f : f[i] \in Field)
  BY ElementsAssumption DEF t, f
<1>4. PositionsFit => n <= Multiplier
  BY DEF PositionsFit, n, t
<1> QED BY <1>1, <1>2, <1>3, <1>4

\* The rows of the queries are rows of the table.
LEMMA QueryRows ==
    ASSUME IInv, pc \notin BeforeQueries
    PROVE  /\ n \in Nat /\ m \in Nat /\ 2 <= m /\ m <= n /\ Sortable(n)
           /\ \A i \in Query : i \in Row
           /\ \A i \in Row : i < m => i \in Query
<1>1. n \in Nat /\ m \in Nat
  BY ArraysAre DEF IInv
<1>2. 2 <= m /\ m <= n /\ PowerOfTwo(n)
  BY DEF IInv, QueriesOK, Sortable
<1> QED BY <1>1, <1>2 DEF Row, Query, Sortable

\* A record with indicator 1 has its position for a key, one with 0 a key
\* beyond all positions; the sort sees either whole.
LEMMA KeyedIs ==
    ASSUME NEW b \in 0 .. 1, NEW pos \in Nat, pos < Multiplier
    PROVE  /\ Keyed(b, pos) \in Nat /\ Keyed(b, pos) < 2 ^ KeyBits
           /\ b = 1 => Keyed(b, pos) = pos
           /\ b = 0 => Keyed(b, pos) = Multiplier + pos
<1> DEFINE w == 2 ^ KeyBits
<1>1. Multiplier \in Nat /\ 2 * Multiplier <= w /\ w \in Nat
  BY KeyAssumption, PowerStep
<1> HIDE DEF w
<1>2. (1 - 1) * Multiplier = 0 /\ (1 - 0) * Multiplier = Multiplier
  BY <1>1
<1>3. b = 0 \/ b = 1
  OBVIOUS
<1>4. CASE b = 1
  BY <1>1, <1>2, <1>4 DEF Keyed, w
<1>5. CASE b = 0
  BY <1>1, <1>2, <1>5 DEF Keyed, w
<1> QED BY <1>3, <1>4, <1>5

LEMMA TwiceSortable ==
    ASSUME NEW len \in Nat, Sortable(len)
    PROVE  Sortable(2 * len)
<1>1. PICK e \in 1 .. len : len = 2 ^ e
  BY SortableIs
<1>2. 2 ^ (e + 1) = 2 * 2 ^ e
  BY <1>1, TwoTimesPower
<1>3. 2 * len = 2 ^ (e + 1) /\ e + 1 \in 0 .. 2 * len
  <2> HIDE DEF Sortable
  <2>1. 2 * len = 2 ^ (e + 1)
    BY <1>1, <1>2
  <2>2. e + 1 \in 0 .. 2 * len
    BY <1>1
  <2> QED BY <2>1, <2>2
<1>4. 2 * len >= 2
  BY DEF Sortable
<1> QED BY <1>3, <1>4 DEF Sortable, PowerOfTwo

\* A sort by keys that fit.
LEMMA SortedByKey ==
    ASSUME NEW len \in Nat, Sortable(len), NEW recs, DOMAIN recs = 0 .. len-1,
           \A i \in 0 .. len-1 : recs[i].key \in Nat /\ recs[i].key < 2 ^ KeyBits
    PROVE  ByKey(recs, RadixSortByKey(recs, len, KeyBits), len)
BY KeyAssumption, FittingKeysSorted DEF ByKey


-----------------------------------------------------------------------------
(* The invariant is inductive: what a step does not write, it keeps.       *)

LEMMA ArgumentsKept ==
    ASSUME input' = input
    PROVE  n' = n /\ m' = m /\ t' = t /\ f' = f /\ Row' = Row /\ Query' = Query
BY DEF n, m, t, f, Row, Query

LEMMA QueriesKept ==
    ASSUME input' = input, fPrime' = fPrime, QueriesOK,
           pc' \in BeforeQueries <=> pc \in BeforeQueries
    PROVE  QueriesOK'
BY ArgumentsKept DEF QueriesOK, None, BeforeQueries

LEMMA FirstsKept ==
    ASSUME fDouble' = fDouble, FirstsOK, pc' \in BeforeFirsts <=> pc \in BeforeFirsts,
           pc \notin BeforeFirsts => input' = input /\ fPrime' = fPrime
    PROVE  FirstsOK'
<1>1. CASE pc \in BeforeFirsts
  BY <1>1 DEF FirstsOK, None, BeforeFirsts, BeforeQueries
<1>2. CASE pc \notin BeforeFirsts
  BY <1>2, ArgumentsKept DEF FirstsOK, First, BeforeFirsts, BeforeQueries
<1> QED BY <1>1, <1>2

LEMMA UnusedKept ==
    ASSUME unused' = unused, UnusedOK, pc' \in BeforeUnused <=> pc \in BeforeUnused,
           pc \notin BeforeUnused => input' = input
    PROVE  UnusedOK'
<1>1. CASE pc \in BeforeUnused
  BY <1>1 DEF UnusedOK, None, BeforeUnused, BeforeFirsts, BeforeQueries
<1>2. CASE pc \notin BeforeUnused
  BY <1>2, ArgumentsKept DEF UnusedOK, BeforeUnused, BeforeFirsts, BeforeQueries
<1> QED BY <1>1, <1>2

LEMMA ValuesKept ==
    ASSUME unusedRec' = unusedRec, ValuesOK, pc' \in BeforeValues <=> pc \in BeforeValues,
           pc \notin BeforeValues => input' = input /\ unused' = unused
    PROVE  ValuesOK'
<1>1. CASE pc \in BeforeValues
  BY <1>1 DEF ValuesOK, None, BeforeValues, BeforeUnused, BeforeFirsts, BeforeQueries
<1>2. CASE pc \notin BeforeValues
  <2>1. Values' = Values /\ n' = n
    BY <1>2, ArgumentsKept DEF Values, Keyed
  <2> QED BY <1>2, <2>1
          DEF ValuesOK, ByKey, BeforeValues, BeforeUnused, BeforeFirsts, BeforeQueries
<1> QED BY <1>1, <1>2

LEMMA PositionsKept ==
    ASSUME unfilledRec' = unfilledRec, PositionsOK,
           pc' \in BeforePositions <=> pc \in BeforePositions,
           pc \notin BeforePositions => input' = input /\ fDouble' = fDouble
    PROVE  PositionsOK'
<1>1. CASE pc \in BeforePositions
  BY <1>1 DEF PositionsOK, None, BeforePositions, BeforeValues, BeforeUnused, BeforeFirsts,
              BeforeQueries
<1>2. CASE pc \notin BeforePositions
  <2>1. Positions' = Positions /\ n' = n
    BY <1>2, ArgumentsKept DEF Positions, Keyed
  <2> QED BY <1>2, <2>1 DEF PositionsOK, ByKey, BeforePositions, BeforeValues, BeforeUnused,
                            BeforeFirsts, BeforeQueries
<1> QED BY <1>1, <1>2

LEMMA AllWritesKept ==
    ASSUME input' = input, fPrime' = fPrime, fDouble' = fDouble,
           unusedRec' = unusedRec, unfilledRec' = unfilledRec
    PROVE  AllWrites' = AllWrites
BY ArgumentsKept DEF AllWrites, WriteRecord, Keyed, FPrimeFull

LEMMA WritesKept ==
    ASSUME writes' = writes, WritesOK, pc' \in BeforeWrites <=> pc \in BeforeWrites,
           pc \notin BeforeWrites =>
             /\ input' = input /\ fPrime' = fPrime /\ fDouble' = fDouble
             /\ unusedRec' = unusedRec /\ unfilledRec' = unfilledRec
    PROVE  WritesOK'
<1>1. CASE pc \in BeforeWrites
  BY <1>1 DEF WritesOK, None, BeforeWrites, BeforePositions, BeforeValues, BeforeUnused,
              BeforeFirsts, BeforeQueries
<1>2. CASE pc \notin BeforeWrites
  <2>1. AllWrites' = AllWrites /\ n' = n
    BY <1>2, AllWritesKept, ArgumentsKept
  <2> QED BY <1>2, <2>1 DEF WritesOK, ByKey, BeforeWrites, BeforePositions, BeforeValues,
                            BeforeUnused, BeforeFirsts, BeforeQueries
<1> QED BY <1>1, <1>2

LEMMA TableKept ==
    ASSUME tPrime' = tPrime, TableOK, pc' \in BeforeTable <=> pc \in BeforeTable,
           pc \notin BeforeTable => input' = input /\ writes' = writes
    PROVE  TableOK'
<1>1. CASE pc \in BeforeTable
  BY <1>1 DEF TableOK, None, BeforeTable, BeforeWrites, BeforePositions, BeforeValues,
              BeforeUnused, BeforeFirsts, BeforeQueries
<1>2. CASE pc \notin BeforeTable
  BY <1>2, ArgumentsKept DEF TableOK, BeforeTable, BeforeWrites, BeforePositions, BeforeValues,
              BeforeUnused, BeforeFirsts, BeforeQueries
<1> QED BY <1>1, <1>2

LEMMA PaddingKept ==
    ASSUME columns' = columns, PaddingOK, pc' \in BeforePadding <=> pc \in BeforePadding,
           pc \notin BeforePadding => input' = input /\ fPrime' = fPrime /\ tPrime' = tPrime
    PROVE  PaddingOK'
<1>1. CASE pc \in BeforePadding
  BY <1>1 DEF PaddingOK, None, BeforePadding, BeforeTable, BeforeWrites, BeforePositions,
              BeforeValues, BeforeUnused, BeforeFirsts, BeforeQueries
<1>2. CASE pc \notin BeforePadding
  BY <1>2, ArgumentsKept
  DEF PaddingOK, Padded, BeforePadding, BeforeTable, BeforeWrites, BeforePositions,
      BeforeValues, BeforeUnused, BeforeFirsts, BeforeQueries
<1> QED BY <1>1, <1>2

LEMMA InitInv == Init => IInv
<1> SUFFICES ASSUME Init PROVE IInv
  OBVIOUS
<1>1. input \in Inputs /\ pc = "sort"
  BY DEF Init
<1>2. /\ fPrime = None /\ fDouble = None /\ unused = None /\ unusedRec = None
      /\ unfilledRec = None /\ writes = None /\ tPrime = None /\ columns = None
  BY DEF Init
<1> QED BY <1>1, <1>2
        DEF IInv, PcOK, QueriesOK, FirstsOK, UnusedOK, ValuesOK, PositionsOK, WritesOK, TableOK,
            PaddingOK, BeforePadding, BeforeTable, BeforeWrites, BeforePositions, BeforeValues,
            BeforeUnused, BeforeFirsts, BeforeQueries

\* The order of the steps.
LEMMA Stages ==
    /\ {"sort", "panicked"} \subseteq BeforeQueries
    /\ "indicate" \in BeforeFirsts \ BeforeQueries
    /\ "membership" \in BeforeUnused \ BeforeFirsts
    /\ "values" \in BeforeValues \ BeforeUnused
    /\ "positions" \in BeforePositions \ BeforeValues
    /\ "write" \in BeforeWrites \ BeforePositions
    /\ "construct" \in BeforeTable \ BeforeWrites
    /\ "returned" \in BeforePadding \ BeforeTable
    /\ "padded" \notin BeforePadding
    /\ BeforeQueries \subseteq BeforeFirsts /\ BeforeFirsts \subseteq BeforeUnused
    /\ BeforeUnused \subseteq BeforeValues /\ BeforeValues \subseteq BeforePositions
    /\ BeforePositions \subseteq BeforeWrites /\ BeforeWrites \subseteq BeforeTable
    /\ BeforeTable \subseteq BeforePadding
BY DEF BeforePadding, BeforeTable, BeforeWrites, BeforePositions, BeforeValues,
       BeforeUnused, BeforeFirsts, BeforeQueries

LEMMA RejectInv ==
    ASSUME IInv, Reject
    PROVE  IInv'
<1>1. /\ input' = input /\ fPrime' = fPrime /\ fDouble' = fDouble /\ unused' = unused
      /\ unusedRec' = unusedRec /\ unfilledRec' = unfilledRec /\ writes' = writes
      /\ tPrime' = tPrime /\ columns' = columns /\ pc = "sort" /\ pc' = "panicked"
  BY DEF Reject, work
<1>2. PcOK' /\ input' \in Inputs
  BY <1>1 DEF IInv, PcOK, BeforePadding, BeforeTable, BeforeWrites, BeforePositions,
              BeforeValues, BeforeUnused, BeforeFirsts, BeforeQueries
<1>3. pc \in BeforeQueries /\ pc' \in BeforeQueries
  BY <1>1 DEF BeforeQueries
<1>4. QueriesOK' /\ FirstsOK' /\ UnusedOK' /\ ValuesOK'
  BY <1>1, <1>3, Stages, QueriesKept, FirstsKept, UnusedKept, ValuesKept DEF IInv
<1>5. PositionsOK' /\ WritesOK' /\ TableOK' /\ PaddingOK'
  BY <1>1, <1>3, Stages, PositionsKept, WritesKept, TableKept, PaddingKept DEF IInv
<1> QED BY <1>2, <1>4, <1>5 DEF IInv


LEMMA FieldElementsFit == \A x \in Field : x \in Nat /\ x < 2 ^ FieldBits
<1> DEFINE w == 2 ^ FieldBits
<1>1. Modulus <= w /\ w \in Nat /\ Modulus \in Nat
  BY FieldAssumption, FieldBitsAssumption, PrimeAssumption, PowerStep
<1> HIDE DEF w
<1>2. \A x \in Field : x \in Nat /\ x < w
  BY <1>1 DEF Field
<1> QED BY <1>2 DEF w

\* f' is f, sorted by the values themselves.
LEMMA SortQueriesInv ==
    ASSUME PositionsFit, IInv, SortQueries
    PROVE  IInv'
<1>1. /\ input' = input /\ fDouble' = fDouble /\ unused' = unused /\ unusedRec' = unusedRec
      /\ unfilledRec' = unfilledRec /\ writes' = writes /\ tPrime' = tPrime /\ columns' = columns
      /\ pc = "sort" /\ pc' = "indicate"
  BY DEF SortQueries
<1>2. PcOK' /\ input' \in Inputs
  BY <1>1 DEF IInv, PcOK, BeforePadding, BeforeTable, BeforeWrites, BeforePositions,
              BeforeValues, BeforeUnused, BeforeFirsts, BeforeQueries
<1>3. pc \in BeforeQueries /\ pc' \notin BeforeQueries
  BY <1>1, Stages
<1>4. /\ n \in Nat /\ m \in Nat /\ m <= n /\ PowerOfTwo(n) /\ Sortable(m)
      /\ \A i \in Query : f[i] \in Field
  BY ArraysAre DEF IInv, SortQueries
<1> DEFINE recs == [i \in 0 .. m-1 |-> [key |-> f[i]]]
<1>5. fPrime' = KeysSorted(recs, m, FieldBits)
  BY DEF SortQueries, KeysSorted
<1>6. \A i \in 0 .. m-1 : f[i] \in Nat /\ f[i] < 2 ^ FieldBits
  BY <1>4, FieldElementsFit DEF Query
<1>7. RecordsOfValues(recs, f, m, FieldBits)
  BY <1>6 DEF RecordsOfValues
<1> HIDE DEF recs
<1>8. /\ DOMAIN fPrime' = Query
      /\ Permuted(f, fPrime', m)
      /\ \A x, y \in Query : x < y => fPrime'[x] <= fPrime'[y]
  BY <1>4, <1>5, <1>7, FieldBitsAssumption, ValuesSorted, ZenonT(40) DEF Query
<1>9. PICK p : Permutation(p, m) /\ \A i \in 0 .. m-1 : fPrime'[i] = f[p[i]]
  BY <1>8 DEF Permuted
<1>10. \A i \in Query : fPrime'[i] \in Field
  BY <1>4, <1>9 DEF Permutation, Query
<1>11. fPrime' \in [Query -> Field]
  BY <1>5, <1>10 DEF Query, KeysSorted
<1>12. QueriesOK'
  BY <1>1, <1>3, <1>4, <1>8, <1>11, ArgumentsKept DEF QueriesOK, BeforeQueries
<1>13. /\ pc \in BeforeFirsts /\ pc' \in BeforeFirsts
      /\ pc \in BeforeUnused /\ pc' \in BeforeUnused
      /\ pc \in BeforeValues /\ pc' \in BeforeValues
      /\ pc \in BeforePositions /\ pc' \in BeforePositions
      /\ pc \in BeforeWrites /\ pc' \in BeforeWrites
      /\ pc \in BeforeTable /\ pc' \in BeforeTable
      /\ pc \in BeforePadding /\ pc' \in BeforePadding
  BY <1>1 DEF BeforePadding, BeforeTable, BeforeWrites, BeforePositions,
              BeforeValues, BeforeUnused, BeforeFirsts, BeforeQueries
<1>14. FirstsOK' /\ UnusedOK' /\ ValuesOK' /\ PositionsOK'
  BY <1>1, <1>13, FirstsKept, UnusedKept, ValuesKept, PositionsKept, Zenon DEF IInv
<1>15. WritesOK' /\ TableOK' /\ PaddingOK'
  BY <1>1, <1>13, WritesKept, TableKept, PaddingKept, Zenon DEF IInv
<1> QED BY <1>2, <1>12, <1>14, <1>15 DEF IInv

LEMMA IndicateInv ==
    ASSUME PositionsFit, IInv, Indicate
    PROVE  IInv'
<1>1. /\ input' = input /\ fPrime' = fPrime /\ unused' = unused /\ unusedRec' = unusedRec
      /\ unfilledRec' = unfilledRec /\ writes' = writes /\ tPrime' = tPrime /\ columns' = columns
      /\ pc = "indicate" /\ pc' = "membership"
  BY DEF Indicate
<1>2. PcOK' /\ input' \in Inputs
  BY <1>1 DEF IInv, PcOK, BeforePadding, BeforeTable, BeforeWrites, BeforePositions,
              BeforeValues, BeforeUnused, BeforeFirsts, BeforeQueries
<1>3. pc \in BeforeFirsts /\ pc' \notin BeforeFirsts
  BY <1>1, Stages
<1>4. /\ n \in Nat /\ m \in Nat /\ 2 <= m /\ m <= n
      /\ \A i \in Query : i \in Row
      /\ \A i \in Row : i < m => i \in Query
  BY <1>1, Stages, QueryRows
<1>5. fDouble' = [i \in Row |->
                    IF i = 0 THEN 1
                    ELSE (1 - Bit(FPrimeFull(i) = FPrimeFull(i - 1))) * Bit(i < m)]
  BY DEF Indicate
<1>6. ASSUME NEW i \in Row
      PROVE  fDouble'[i] \in 0 .. 1 /\ (fDouble'[i] = 1 <=> i < m /\ First(i))
  <2>1. i \in Nat
    BY <1>4 DEF Row
  <2>2. CASE i = 0
    BY <1>4, <1>5, <2>2 DEF First
  <2>3. CASE i # 0 /\ ~ (i < m)
    <3>1. Bit(i < m) = 0 /\ Bit(FPrimeFull(i) = FPrimeFull(i - 1)) \in {0, 1}
      BY <2>3 DEF Bit
    <3>2. fDouble'[i] = 0
      BY <1>5, <2>3, <3>1
    <3> QED BY <2>3, <3>2
  <2>4. CASE i # 0 /\ i < m
    <3>1. FPrimeFull(i) = fPrime[i] /\ FPrimeFull(i - 1) = fPrime[i - 1] /\ Bit(i < m) = 1
      BY <1>4, <2>1, <2>4 DEF FPrimeFull, Bit
    <3>2. fDouble'[i] = 1 - Bit(fPrime[i] = fPrime[i - 1])
      BY <1>5, <2>4, <3>1 DEF Bit
    <3> QED BY <2>4, <3>2 DEF Bit, First
  <2> QED BY <2>2, <2>3, <2>4
<1>7. fDouble' \in [Row -> 0 .. 1]
  BY <1>5, <1>6
<1>8. \A i \in Row : fDouble'[i] = 1 <=> i < m /\ First(i)
  BY <1>6
<1>9. FirstsOK'
  BY <1>1, <1>3, <1>7, <1>8, ArgumentsKept DEF FirstsOK, First, BeforeFirsts, BeforeQueries
<1>10. /\ pc \notin BeforeQueries /\ pc' \notin BeforeQueries
      /\ pc \in BeforeUnused /\ pc' \in BeforeUnused
      /\ pc \in BeforeValues /\ pc' \in BeforeValues
      /\ pc \in BeforePositions /\ pc' \in BeforePositions
      /\ pc \in BeforeWrites /\ pc' \in BeforeWrites
      /\ pc \in BeforeTable /\ pc' \in BeforeTable
      /\ pc \in BeforePadding /\ pc' \in BeforePadding
  BY <1>1 DEF BeforePadding, BeforeTable, BeforeWrites, BeforePositions,
              BeforeValues, BeforeUnused, BeforeFirsts, BeforeQueries
<1>11. QueriesOK'
  BY <1>1, <1>10, QueriesKept, Zenon DEF IInv
<1>12. UnusedOK' /\ ValuesOK' /\ PositionsOK' /\ WritesOK'
  BY <1>1, <1>10, UnusedKept, ValuesKept, PositionsKept, WritesKept, Zenon DEF IInv
<1>13. TableOK' /\ PaddingOK'
  BY <1>1, <1>10, TableKept, PaddingKept, Zenon DEF IInv
<1> QED BY <1>2, <1>9, <1>11, <1>12, <1>13 DEF IInv

LEMMA FindUnusedInv ==
    ASSUME PositionsFit, IInv, FindUnused
    PROVE  IInv'
<1>1. /\ input' = input /\ fPrime' = fPrime /\ fDouble' = fDouble /\ unusedRec' = unusedRec
      /\ unfilledRec' = unfilledRec /\ writes' = writes /\ tPrime' = tPrime /\ columns' = columns
      /\ pc = "membership" /\ pc' = "values"
  BY DEF FindUnused
<1>2. PcOK' /\ input' \in Inputs
  BY <1>1 DEF IInv, PcOK, BeforePadding, BeforeTable, BeforeWrites, BeforePositions,
              BeforeValues, BeforeUnused, BeforeFirsts, BeforeQueries
<1>3. pc \in BeforeUnused /\ pc' \notin BeforeUnused
  BY <1>1, Stages
<1>4. unused' \in [Row -> 0 .. 1]
  BY DEF FindUnused, Bit
<1>5. UnusedOK'
  BY <1>1, <1>3, <1>4, ArgumentsKept DEF UnusedOK, BeforeUnused, BeforeFirsts, BeforeQueries
<1>6. /\ pc \notin BeforeQueries /\ pc' \notin BeforeQueries
      /\ pc \notin BeforeFirsts /\ pc' \notin BeforeFirsts
      /\ pc \in BeforeValues /\ pc' \in BeforeValues
      /\ pc \in BeforePositions /\ pc' \in BeforePositions
      /\ pc \in BeforeWrites /\ pc' \in BeforeWrites
      /\ pc \in BeforeTable /\ pc' \in BeforeTable
      /\ pc \in BeforePadding /\ pc' \in BeforePadding
  BY <1>1 DEF BeforePadding, BeforeTable, BeforeWrites, BeforePositions,
              BeforeValues, BeforeUnused, BeforeFirsts, BeforeQueries
<1>7. QueriesOK' /\ FirstsOK'
  BY <1>1, <1>6, QueriesKept, FirstsKept, Zenon DEF IInv
<1>8. ValuesOK' /\ PositionsOK' /\ WritesOK' /\ TableOK'
  BY <1>1, <1>6, ValuesKept, PositionsKept, WritesKept, TableKept, Zenon DEF IInv
<1>9. PaddingOK'
  BY <1>1, <1>6, PaddingKept, Zenon DEF IInv
<1> QED BY <1>2, <1>5, <1>7, <1>8, <1>9 DEF IInv

LEMMA CompactUnusedInv ==
    ASSUME PositionsFit, IInv, CompactUnused
    PROVE  IInv'
<1>1. /\ input' = input /\ fPrime' = fPrime /\ fDouble' = fDouble /\ unused' = unused
      /\ unfilledRec' = unfilledRec /\ writes' = writes /\ tPrime' = tPrime /\ columns' = columns
      /\ pc = "values" /\ pc' = "positions"
  BY DEF CompactUnused
<1>2. PcOK' /\ input' \in Inputs
  BY <1>1 DEF IInv, PcOK, BeforePadding, BeforeTable, BeforeWrites, BeforePositions,
              BeforeValues, BeforeUnused, BeforeFirsts, BeforeQueries
<1>3. pc \in BeforeValues /\ pc' \notin BeforeValues
  BY <1>1, Stages
<1>4. unusedRec' = RadixSortByKey(Values, n, KeyBits)
  BY DEF CompactUnused, Values
<1>5. /\ n \in Nat /\ Sortable(n) /\ n <= Multiplier
      /\ unused \in [Row -> 0 .. 1]
  BY <1>1, Stages, QueryRows, ArraysAre DEF IInv, UnusedOK
<1>6. \A j \in 0 .. n-1 : Values[j].key \in Nat /\ Values[j].key < 2 ^ KeyBits
  <2> SUFFICES ASSUME NEW j \in Row
               PROVE  Values[j].key \in Nat /\ Values[j].key < 2 ^ KeyBits
    BY DEF Row
  <2>1. Values[j].key = Keyed(unused[j], j)
    BY DEF Values
  <2>2. unused[j] \in 0 .. 1 /\ j \in Nat /\ j < Multiplier
    BY <1>5, KeyAssumption DEF Row
  <2> QED BY <2>1, <2>2, KeyedIs
<1>7. DOMAIN Values = 0 .. n-1
  BY DEF Values, Row
<1>8. ByKey(Values, unusedRec', n)
  BY <1>4, <1>5, <1>6, <1>7, SortedByKey
<1>9. Values' = Values
  BY <1>1, ArgumentsKept DEF Values, Keyed
<1>10. ValuesOK'
  BY <1>1, <1>3, <1>8, <1>9, ArgumentsKept
  DEF ValuesOK, ByKey, BeforeValues, BeforeUnused, BeforeFirsts, BeforeQueries
<1>11. /\ pc \notin BeforeQueries /\ pc' \notin BeforeQueries
      /\ pc \notin BeforeFirsts /\ pc' \notin BeforeFirsts
      /\ pc \notin BeforeUnused /\ pc' \notin BeforeUnused
      /\ pc \in BeforePositions /\ pc' \in BeforePositions
      /\ pc \in BeforeWrites /\ pc' \in BeforeWrites
      /\ pc \in BeforeTable /\ pc' \in BeforeTable
      /\ pc \in BeforePadding /\ pc' \in BeforePadding
  BY <1>1 DEF BeforePadding, BeforeTable, BeforeWrites, BeforePositions,
              BeforeValues, BeforeUnused, BeforeFirsts, BeforeQueries
<1>12. QueriesOK' /\ FirstsOK' /\ UnusedOK'
  BY <1>1, <1>11, QueriesKept, FirstsKept, UnusedKept, Zenon DEF IInv
<1>13. PositionsOK' /\ WritesOK' /\ TableOK' /\ PaddingOK'
  BY <1>1, <1>11, PositionsKept, WritesKept, TableKept, PaddingKept, Zenon DEF IInv
<1> QED BY <1>2, <1>10, <1>12, <1>13 DEF IInv

LEMMA CompactUnfilledInv ==
    ASSUME PositionsFit, IInv, CompactUnfilled
    PROVE  IInv'
<1>1. /\ input' = input /\ fPrime' = fPrime /\ fDouble' = fDouble /\ unused' = unused
      /\ unusedRec' = unusedRec /\ writes' = writes /\ tPrime' = tPrime /\ columns' = columns
      /\ pc = "positions" /\ pc' = "write"
  BY DEF CompactUnfilled
<1>2. PcOK' /\ input' \in Inputs
  BY <1>1 DEF IInv, PcOK, BeforePadding, BeforeTable, BeforeWrites, BeforePositions,
              BeforeValues, BeforeUnused, BeforeFirsts, BeforeQueries
<1>3. pc \in BeforePositions /\ pc' \notin BeforePositions
  BY <1>1, Stages
<1>4. unfilledRec' = RadixSortByKey(Positions, n, KeyBits)
  BY DEF CompactUnfilled, Positions
<1>5. /\ n \in Nat /\ Sortable(n) /\ n <= Multiplier
      /\ fDouble \in [Row -> 0 .. 1]
  BY <1>1, Stages, QueryRows, ArraysAre DEF IInv, FirstsOK
<1>6. \A i \in 0 .. n-1 : Positions[i].key \in Nat /\ Positions[i].key < 2 ^ KeyBits
  <2> SUFFICES ASSUME NEW i \in Row
               PROVE  Positions[i].key \in Nat /\ Positions[i].key < 2 ^ KeyBits
    BY DEF Row
  <2>1. Positions[i].key = Keyed(1 - fDouble[i], i)
    BY DEF Positions
  <2>2. 1 - fDouble[i] \in 0 .. 1 /\ i \in Nat /\ i < Multiplier
    BY <1>5, KeyAssumption DEF Row
  <2> QED BY <2>1, <2>2, KeyedIs
<1>7. DOMAIN Positions = 0 .. n-1
  BY DEF Positions, Row
<1>8. ByKey(Positions, unfilledRec', n)
  BY <1>4, <1>5, <1>6, <1>7, SortedByKey
<1>9. Positions' = Positions
  BY <1>1, ArgumentsKept DEF Positions, Keyed
<1>10. PositionsOK'
  BY <1>1, <1>3, <1>8, <1>9, ArgumentsKept
  DEF PositionsOK, ByKey, BeforePositions, BeforeValues, BeforeUnused, BeforeFirsts, BeforeQueries
<1>11. /\ pc \notin BeforeQueries /\ pc' \notin BeforeQueries
      /\ pc \notin BeforeFirsts /\ pc' \notin BeforeFirsts
      /\ pc \notin BeforeUnused /\ pc' \notin BeforeUnused
      /\ pc \notin BeforeValues /\ pc' \notin BeforeValues
      /\ pc \in BeforeWrites /\ pc' \in BeforeWrites
      /\ pc \in BeforeTable /\ pc' \in BeforeTable
      /\ pc \in BeforePadding /\ pc' \in BeforePadding
  BY <1>1 DEF BeforePadding, BeforeTable, BeforeWrites, BeforePositions,
              BeforeValues, BeforeUnused, BeforeFirsts, BeforeQueries
<1>12. QueriesOK' /\ FirstsOK' /\ UnusedOK' /\ ValuesOK'
  BY <1>1, <1>11, QueriesKept, FirstsKept, UnusedKept, ValuesKept, Zenon DEF IInv
<1>13. WritesOK' /\ TableOK' /\ PaddingOK'
  BY <1>1, <1>11, WritesKept, TableKept, PaddingKept, Zenon DEF IInv
<1> QED BY <1>2, <1>10, <1>12, <1>13 DEF IInv


\* The records that are written: those of the two compactions, one for one,
\* and a record for every row.
LEMMA PositionRecords ==
    ASSUME IInv, pc \notin BeforePositions
    PROVE  \E q : /\ Permutation(q, n)
                  /\ \A i \in Row : /\ q[i] \in Row
                                    /\ unfilledRec[i].val = q[i]
                                    /\ unfilledRec[i].flag = 1 - fDouble[q[i]]
                                    /\ unfilledRec[i].key = Keyed(1 - fDouble[q[i]], q[i])
<1>1. Permuted(Positions, unfilledRec, n)
  BY DEF IInv, PositionsOK, ByKey
<1>2. PICK q : Permutation(q, n) /\ \A i \in 0 .. n-1 : unfilledRec[i] = Positions[q[i]]
  BY <1>1 DEF Permuted
<1>3. \A i \in Row : q[i] \in Row /\ unfilledRec[i] = Positions[q[i]]
  BY <1>2 DEF Permutation, Row
<1>4. \A r \in Row : /\ Positions[r].val = r /\ Positions[r].flag = 1 - fDouble[r]
                     /\ Positions[r].key = Keyed(1 - fDouble[r], r)
  BY DEF Positions
<1>5. \A i \in Row : /\ q[i] \in Row
                     /\ unfilledRec[i].val = q[i]
                     /\ unfilledRec[i].flag = 1 - fDouble[q[i]]
                     /\ unfilledRec[i].key = Keyed(1 - fDouble[q[i]], q[i])
  BY <1>3, <1>4
<1> QED BY <1>2, <1>5

LEMMA ValueRecords ==
    ASSUME IInv, pc \notin BeforeValues
    PROVE  \E q : /\ Permutation(q, n)
                  /\ \A i \in Row : /\ q[i] \in Row
                                    /\ unusedRec[i].val = t[q[i]]
                                    /\ unusedRec[i].flag = unused[q[i]]
                                    /\ unusedRec[i].key = Keyed(unused[q[i]], q[i])
<1>1. Permuted(Values, unusedRec, n)
  BY DEF IInv, ValuesOK, ByKey
<1>2. PICK q : Permutation(q, n) /\ \A i \in 0 .. n-1 : unusedRec[i] = Values[q[i]]
  BY <1>1 DEF Permuted
<1>3. \A i \in Row : q[i] \in Row /\ unusedRec[i] = Values[q[i]]
  BY <1>2 DEF Permutation, Row
<1>4. \A r \in Row : /\ Values[r].val = t[r] /\ Values[r].flag = unused[r]
                     /\ Values[r].key = Keyed(unused[r], r)
  BY DEF Values
<1>5. \A i \in Row : /\ q[i] \in Row
                     /\ unusedRec[i].val = t[q[i]]
                     /\ unusedRec[i].flag = unused[q[i]]
                     /\ unusedRec[i].key = Keyed(unused[q[i]], q[i])
  BY <1>3, <1>4
<1> QED BY <1>2, <1>5

LEMMA WritesAre ==
    ASSUME n \in Nat
    PROVE  /\ DOMAIN AllWrites = 0 .. 2 * n - 1
           /\ \A i \in 0 .. 2 * n - 1 :
                IF i < n
                THEN /\ i \in Row
                     /\ AllWrites[i].key = Keyed(unfilledRec[i].flag, unfilledRec[i].val)
                     /\ AllWrites[i].val = unusedRec[i].val
                     /\ AllWrites[i].flag = unfilledRec[i].flag
                ELSE /\ i - n \in Row
                     /\ AllWrites[i].key = Keyed(fDouble[i - n], i - n)
                     /\ AllWrites[i].val = FPrimeFull(i - n)
                     /\ AllWrites[i].flag = fDouble[i - n]
<1>1. DOMAIN AllWrites = 0 .. 2 * n - 1
  BY DEF AllWrites
<1>2. ASSUME NEW i \in 0 .. 2 * n - 1, i < n
      PROVE  /\ i \in Row
             /\ AllWrites[i].key = Keyed(unfilledRec[i].flag, unfilledRec[i].val)
             /\ AllWrites[i].val = unusedRec[i].val
             /\ AllWrites[i].flag = unfilledRec[i].flag
  <2>1. AllWrites[i] = WriteRecord(unfilledRec[i].val, unusedRec[i].val, unfilledRec[i].flag)
    BY <1>2 DEF AllWrites
  <2> QED BY <1>2, <2>1 DEF WriteRecord, Row
<1>3. ASSUME NEW i \in 0 .. 2 * n - 1, ~ (i < n)
      PROVE  /\ i - n \in Row
             /\ AllWrites[i].key = Keyed(fDouble[i - n], i - n)
             /\ AllWrites[i].val = FPrimeFull(i - n)
             /\ AllWrites[i].flag = fDouble[i - n]
  <2>1. AllWrites[i] = WriteRecord(i - n, FPrimeFull(i - n), fDouble[i - n])
    BY <1>3 DEF AllWrites
  <2> QED BY <1>3, <2>1 DEF WriteRecord, Row
<1> QED BY <1>1, <1>2, <1>3

\* The key of a write is that of a row, with the indicator of the write.
LEMMA WriteKeys ==
    ASSUME PositionsFit, IInv, pc \notin BeforePositions
    PROVE  \A i \in 0 .. 2 * n - 1 :
             \E r \in Row : /\ AllWrites[i].key = Keyed(AllWrites[i].flag, r)
                            /\ AllWrites[i].flag \in 0 .. 1
                            /\ r \in Nat /\ r < Multiplier
<1>1. n \in Nat /\ n <= Multiplier /\ Multiplier \in Nat
  BY ArraysAre, KeyAssumption DEF IInv
<1>2. fDouble \in [Row -> 0 .. 1]
  BY Stages DEF IInv, FirstsOK
<1>3. \A r \in Row : r \in Nat /\ r < Multiplier
  BY <1>1 DEF Row
<1>4. PICK q : \A i \in Row : /\ q[i] \in Row
                              /\ unfilledRec[i].val = q[i]
                              /\ unfilledRec[i].flag = 1 - fDouble[q[i]]
  BY PositionRecords
<1>5. ASSUME NEW i \in 0 .. 2 * n - 1, i < n
      PROVE  \E r \in Row : /\ AllWrites[i].key = Keyed(AllWrites[i].flag, r)
                            /\ AllWrites[i].flag \in 0 .. 1
                            /\ r \in Nat /\ r < Multiplier
  <2>1. /\ i \in Row
        /\ AllWrites[i].key = Keyed(unfilledRec[i].flag, unfilledRec[i].val)
        /\ AllWrites[i].flag = unfilledRec[i].flag
    BY <1>1, <1>5, WritesAre
  <2>2. AllWrites[i].key = Keyed(AllWrites[i].flag, q[i]) /\ AllWrites[i].flag = 1 - fDouble[q[i]]
    BY <1>4, <2>1
  <2>3. q[i] \in Row
    BY <1>4, <2>1
  <2>4. fDouble[q[i]] \in 0 .. 1
    BY <1>2, <2>3
  <2>5. AllWrites[i].flag \in 0 .. 1
    BY <2>2, <2>4
  <2> QED BY <1>3, <2>2, <2>3, <2>5
<1>6. ASSUME NEW i \in 0 .. 2 * n - 1, ~ (i < n)
      PROVE  \E r \in Row : /\ AllWrites[i].key = Keyed(AllWrites[i].flag, r)
                            /\ AllWrites[i].flag \in 0 .. 1
                            /\ r \in Nat /\ r < Multiplier
  <2>1. /\ i - n \in Row
        /\ AllWrites[i].key = Keyed(fDouble[i - n], i - n)
        /\ AllWrites[i].flag = fDouble[i - n]
    BY <1>1, <1>6, WritesAre
  <2> DEFINE r == i - n
  <2>2. r \in Row /\ AllWrites[i].key = Keyed(AllWrites[i].flag, r) /\ AllWrites[i].flag = fDouble[r]
    BY <2>1
  <2> HIDE DEF r
  <2>3. fDouble[r] \in 0 .. 1
    BY <1>2, <2>2
  <2> QED BY <1>3, <2>2, <2>3
<1> QED BY <1>5, <1>6

LEMMA SortWritesInv ==
    ASSUME PositionsFit, IInv, SortWrites
    PROVE  IInv'
<1>1. /\ input' = input /\ fPrime' = fPrime /\ fDouble' = fDouble /\ unused' = unused
      /\ unusedRec' = unusedRec /\ unfilledRec' = unfilledRec /\ tPrime' = tPrime /\ columns' = columns
      /\ pc = "write" /\ pc' = "construct"
  BY DEF SortWrites
<1>2. PcOK' /\ input' \in Inputs
  BY <1>1 DEF IInv, PcOK, BeforePadding, BeforeTable, BeforeWrites, BeforePositions,
              BeforeValues, BeforeUnused, BeforeFirsts, BeforeQueries
<1>3. pc \in BeforeWrites /\ pc' \notin BeforeWrites
  BY <1>1, Stages
<1>4. writes' = RadixSortByKey(AllWrites, 2 * n, KeyBits)
  BY DEF SortWrites
<1>5. n \in Nat /\ Sortable(n) /\ pc \notin BeforePositions
  BY <1>1, Stages, QueryRows
<1>6. 2 * n \in Nat /\ Sortable(2 * n)
  BY <1>5, TwiceSortable
<1>7. \A i \in 0 .. 2 * n - 1 : AllWrites[i].key \in Nat /\ AllWrites[i].key < 2 ^ KeyBits
  BY <1>5, WriteKeys, KeyedIs
<1>8. DOMAIN AllWrites = 0 .. 2 * n - 1
  BY <1>5, WritesAre
<1>9. ByKey(AllWrites, writes', 2 * n)
  BY <1>4, <1>6, <1>7, <1>8, SortedByKey
<1>10. AllWrites' = AllWrites
  BY <1>1, AllWritesKept
<1>11. WritesOK'
  BY <1>1, <1>3, <1>9, <1>10, ArgumentsKept
  DEF WritesOK, ByKey, BeforeWrites, BeforePositions, BeforeValues, BeforeUnused, BeforeFirsts,
      BeforeQueries
<1>12. /\ pc \notin BeforeQueries /\ pc' \notin BeforeQueries
      /\ pc \notin BeforeFirsts /\ pc' \notin BeforeFirsts
      /\ pc \notin BeforeUnused /\ pc' \notin BeforeUnused
      /\ pc \notin BeforeValues /\ pc' \notin BeforeValues
      /\ pc \notin BeforePositions /\ pc' \notin BeforePositions
      /\ pc \in BeforeTable /\ pc' \in BeforeTable
      /\ pc \in BeforePadding /\ pc' \in BeforePadding
  BY <1>1 DEF BeforePadding, BeforeTable, BeforeWrites, BeforePositions,
              BeforeValues, BeforeUnused, BeforeFirsts, BeforeQueries
<1>13. QueriesOK' /\ FirstsOK' /\ UnusedOK' /\ ValuesOK'
  BY <1>1, <1>12, QueriesKept, FirstsKept, UnusedKept, ValuesKept, Zenon DEF IInv
<1>14. PositionsOK'
  BY <1>1, <1>12, PositionsKept, Zenon DEF IInv
<1>15. TableOK' /\ PaddingOK'
  BY <1>1, <1>12, TableKept, PaddingKept, Zenon DEF IInv
<1> QED BY <1>2, <1>11, <1>13, <1>14, <1>15 DEF IInv

LEMMA ConstructInv ==
    ASSUME PositionsFit, IInv, Construct
    PROVE  IInv'
<1>1. /\ input' = input /\ fPrime' = fPrime /\ fDouble' = fDouble /\ unused' = unused
      /\ unusedRec' = unusedRec /\ unfilledRec' = unfilledRec /\ writes' = writes /\ columns' = columns
      /\ pc = "construct" /\ pc' = "returned"
  BY DEF Construct
<1>2. PcOK' /\ input' \in Inputs
  BY <1>1 DEF IInv, PcOK, BeforePadding, BeforeTable, BeforeWrites, BeforePositions,
              BeforeValues, BeforeUnused, BeforeFirsts, BeforeQueries
<1>3. pc \in BeforeTable /\ pc' \notin BeforeTable
  BY <1>1, Stages
<1>4. tPrime' = [i \in Row |-> writes[i].val]
  BY DEF Construct
<1>5. TableOK'
  BY <1>1, <1>3, <1>4, ArgumentsKept
  DEF TableOK, BeforeTable, BeforeWrites, BeforePositions, BeforeValues, BeforeUnused,
      BeforeFirsts, BeforeQueries
<1>6. /\ pc \notin BeforeQueries /\ pc' \notin BeforeQueries
      /\ pc \notin BeforeFirsts /\ pc' \notin BeforeFirsts
      /\ pc \notin BeforeUnused /\ pc' \notin BeforeUnused
      /\ pc \notin BeforeValues /\ pc' \notin BeforeValues
      /\ pc \notin BeforePositions /\ pc' \notin BeforePositions
      /\ pc \notin BeforeWrites /\ pc' \notin BeforeWrites
      /\ pc \in BeforePadding /\ pc' \in BeforePadding
  BY <1>1 DEF BeforePadding, BeforeTable, BeforeWrites, BeforePositions,
              BeforeValues, BeforeUnused, BeforeFirsts, BeforeQueries
<1>7. QueriesOK' /\ FirstsOK' /\ UnusedOK' /\ ValuesOK'
  BY <1>1, <1>6, QueriesKept, FirstsKept, UnusedKept, ValuesKept, Zenon DEF IInv
<1>8. PositionsOK' /\ WritesOK'
  BY <1>1, <1>6, PositionsKept, WritesKept, Zenon DEF IInv
<1>9. PaddingOK'
  BY <1>1, <1>6, PaddingKept, Zenon DEF IInv
<1> QED BY <1>2, <1>5, <1>7, <1>8, <1>9 DEF IInv

LEMMA PadInv ==
    ASSUME PositionsFit, IInv, Pad
    PROVE  IInv'
<1>1. /\ input' = input /\ fPrime' = fPrime /\ fDouble' = fDouble /\ unused' = unused
      /\ unusedRec' = unusedRec /\ unfilledRec' = unfilledRec /\ writes' = writes /\ tPrime' = tPrime
      /\ pc = "returned" /\ pc' = "padded"
  BY DEF Pad
<1>2. PcOK' /\ input' \in Inputs
  BY <1>1 DEF IInv, PcOK, BeforePadding, BeforeTable, BeforeWrites, BeforePositions,
              BeforeValues, BeforeUnused, BeforeFirsts, BeforeQueries
<1>3. pc \in BeforePadding /\ pc' \notin BeforePadding
  BY <1>1, Stages
<1>4. columns' = [a |-> Padded(f), aPrime |-> Padded(fPrime)]
  BY DEF Pad
<1>5. PaddingOK'
  BY <1>1, <1>3, <1>4, ArgumentsKept
  DEF PaddingOK, Padded, BeforePadding, BeforeTable, BeforeWrites, BeforePositions, BeforeValues,
      BeforeUnused, BeforeFirsts, BeforeQueries
<1>6. /\ pc \notin BeforeQueries /\ pc' \notin BeforeQueries
      /\ pc \notin BeforeFirsts /\ pc' \notin BeforeFirsts
      /\ pc \notin BeforeUnused /\ pc' \notin BeforeUnused
      /\ pc \notin BeforeValues /\ pc' \notin BeforeValues
      /\ pc \notin BeforePositions /\ pc' \notin BeforePositions
      /\ pc \notin BeforeWrites /\ pc' \notin BeforeWrites
      /\ pc \notin BeforeTable /\ pc' \notin BeforeTable
  BY <1>1 DEF BeforePadding, BeforeTable, BeforeWrites, BeforePositions,
              BeforeValues, BeforeUnused, BeforeFirsts, BeforeQueries
<1>7. QueriesOK' /\ FirstsOK' /\ UnusedOK' /\ ValuesOK'
  BY <1>1, <1>6, QueriesKept, FirstsKept, UnusedKept, ValuesKept, Zenon DEF IInv
<1>8. PositionsOK' /\ WritesOK' /\ TableOK'
  BY <1>1, <1>6, PositionsKept, WritesKept, TableKept, Zenon DEF IInv
<1> QED BY <1>2, <1>5, <1>7, <1>8 DEF IInv

LEMMA StutterInv ==
    ASSUME IInv, UNCHANGED vars
    PROVE  IInv'
<1>1. /\ input' = input /\ fPrime' = fPrime /\ fDouble' = fDouble /\ unused' = unused
      /\ unusedRec' = unusedRec /\ unfilledRec' = unfilledRec /\ writes' = writes
      /\ tPrime' = tPrime /\ columns' = columns /\ pc' = pc
  BY DEF vars, work
<1>2. PcOK' /\ input' \in Inputs
  BY <1>1 DEF IInv, PcOK, BeforePadding, BeforeTable, BeforeWrites, BeforePositions,
              BeforeValues, BeforeUnused, BeforeFirsts, BeforeQueries
<1>3. /\ pc' \in BeforeQueries <=> pc \in BeforeQueries
      /\ pc' \in BeforeFirsts <=> pc \in BeforeFirsts
      /\ pc' \in BeforeUnused <=> pc \in BeforeUnused
      /\ pc' \in BeforeValues <=> pc \in BeforeValues
      /\ pc' \in BeforePositions <=> pc \in BeforePositions
      /\ pc' \in BeforeWrites <=> pc \in BeforeWrites
      /\ pc' \in BeforeTable <=> pc \in BeforeTable
      /\ pc' \in BeforePadding <=> pc \in BeforePadding
  BY <1>1
<1>4. QueriesOK' /\ FirstsOK' /\ UnusedOK' /\ ValuesOK'
  BY <1>1, <1>3, QueriesKept, FirstsKept, UnusedKept, ValuesKept, Zenon DEF IInv
<1>5. PositionsOK' /\ WritesOK' /\ TableOK' /\ PaddingOK'
  BY <1>1, <1>3, PositionsKept, WritesKept, TableKept, PaddingKept, Zenon DEF IInv
<1> QED BY <1>2, <1>4, <1>5 DEF IInv

LEMMA NextInv ==
    ASSUME PositionsFit, IInv, [Next]_vars
    PROVE  IInv'
<1>1. CASE Reject
  BY <1>1, RejectInv
<1>2. CASE SortQueries
  BY <1>2, SortQueriesInv
<1>3. CASE Indicate
  BY <1>3, IndicateInv
<1>4. CASE FindUnused
  BY <1>4, FindUnusedInv
<1>5. CASE CompactUnused
  BY <1>5, CompactUnusedInv
<1>6. CASE CompactUnfilled
  BY <1>6, CompactUnfilledInv
<1>7. CASE SortWrites
  BY <1>7, SortWritesInv
<1>8. CASE Construct
  BY <1>8, ConstructInv
<1>9. CASE Pad
  BY <1>9, PadInv
<1>10. CASE UNCHANGED vars
  BY <1>10, StutterInv
<1> QED BY <1>1, <1>2, <1>3, <1>4, <1>5, <1>6, <1>7, <1>8, <1>9, <1>10 DEF Next, Terminated

\* Every array that a step has computed is what the step makes of the arrays
\* before it: the indicators mark the first occurrences, and each of the three
\* sorts by key has left its records in order of their keys.
THEOREM LookupPermutationInductive ==
    ASSUME PositionsFit
    PROVE  Spec => []IInv
<1>1. Init => IInv
  BY InitInv
<1> QED BY <1>1, NextInv, PTL DEF Spec


-----------------------------------------------------------------------------
(* Records keep their sizes, and their keys differ.                        *)

LEMMA KeyedDiffers ==
    ASSUME NEW b \in 0 .. 1, NEW c \in 0 .. 1,
           NEW x \in Nat, x < Multiplier, NEW y \in Nat, y < Multiplier,
           Keyed(b, x) = Keyed(c, y)
    PROVE  b = c /\ x = y
<1>1. Multiplier \in Nat
  BY KeyAssumption
<1>2. (b = 1 => Keyed(b, x) = x) /\ (b = 0 => Keyed(b, x) = Multiplier + x)
  BY KeyedIs
<1>3. (c = 1 => Keyed(c, y) = y) /\ (c = 0 => Keyed(c, y) = Multiplier + y)
  BY KeyedIs
<1>4. (b = 0 \/ b = 1) /\ (c = 0 \/ c = 1)
  OBVIOUS
<1> QED BY <1>1, <1>2, <1>3, <1>4

LEMMA KeyInBits ==
    ASSUME NEW k \in Nat, k < 2 ^ KeyBits
    PROVE  k \in 0 .. 2 ^ KeyBits - 1
<1> DEFINE w == 2 ^ KeyBits
<1>1. w \in Nat /\ k < w
  BY KeyAssumption, PowerStep
<1> HIDE DEF w
<1>2. k \in 0 .. w - 1
  BY <1>1
<1> QED BY <1>2 DEF w

LEMMA RowsFit ==
    ASSUME PositionsFit, IInv
    PROVE  /\ n \in Nat /\ m \in Nat /\ n <= Multiplier /\ Multiplier \in Nat
           /\ \A r \in Row : r \in Nat /\ r < Multiplier
<1>1. n \in Nat /\ m \in Nat /\ n <= Multiplier /\ Multiplier \in Nat
  BY ArraysAre, KeyAssumption DEF IInv
<1> QED BY <1>1 DEF Row

LEMMA ValueRecordsFit ==
    ASSUME PositionsFit, IInv, pc \notin BeforeValues
    PROVE  /\ RecordsOf(unusedRec, n, Field)
           /\ \A i, j \in DOMAIN unusedRec : i # j => unusedRec[i].key # unusedRec[j].key
<1>1. /\ n \in Nat /\ \A r \in Row : r \in Nat /\ r < Multiplier
      /\ \A r \in Row : t[r] \in Field
  BY RowsFit, ArraysAre DEF IInv
<1>2. DOMAIN unusedRec = Row
  BY DEF IInv, ValuesOK, ByKey, Row
<1>3. unused \in [Row -> 0 .. 1]
  BY Stages DEF IInv, UnusedOK
<1>4. PICK q : /\ Permutation(q, n)
               /\ \A i \in Row : /\ q[i] \in Row
                                 /\ unusedRec[i].val = t[q[i]]
                                 /\ unusedRec[i].flag = unused[q[i]]
                                 /\ unusedRec[i].key = Keyed(unused[q[i]], q[i])
  BY ValueRecords
<1>5. ASSUME NEW i \in Row
      PROVE  /\ unusedRec[i].key \in 0 .. 2 ^ KeyBits - 1
             /\ unusedRec[i].val \in Field
             /\ unusedRec[i].flag \in 0 .. 1
  <2>1. q[i] \in Row /\ q[i] \in Nat /\ q[i] < Multiplier
    BY <1>1, <1>4
  <2>2. unused[q[i]] \in 0 .. 1
    BY <1>3, <2>1
  <2>3. Keyed(unused[q[i]], q[i]) \in 0 .. 2 ^ KeyBits - 1
    BY <2>1, <2>2, KeyedIs, KeyInBits
  <2>4. /\ unusedRec[i].val = t[q[i]] /\ unusedRec[i].flag = unused[q[i]]
        /\ unusedRec[i].key = Keyed(unused[q[i]], q[i])
    BY <1>4
  <2>5. t[q[i]] \in Field
    BY <1>1, <2>1
  <2> QED BY <2>2, <2>3, <2>4, <2>5, Zenon
<1>6. ASSUME NEW i \in Row, NEW j \in Row, unusedRec[i].key = unusedRec[j].key
      PROVE  i = j
  <2>1. /\ q[i] \in Row /\ q[i] \in Nat /\ q[i] < Multiplier
        /\ q[j] \in Row /\ q[j] \in Nat /\ q[j] < Multiplier
    BY <1>1, <1>4
  <2>2. unused[q[i]] \in 0 .. 1 /\ unused[q[j]] \in 0 .. 1
    BY <1>3, <2>1
  <2>3. Keyed(unused[q[i]], q[i]) = Keyed(unused[q[j]], q[j])
    BY <1>4, <1>6
  <2>4. q[i] = q[j]
    BY <2>1, <2>2, <2>3, KeyedDiffers
  <2> QED BY <1>4, <2>4 DEF Permutation, Row
<1>7. RecordsOf(unusedRec, n, Field)
  BY <1>2, <1>5, Zenon DEF RecordsOf, Row
<1> QED BY <1>2, <1>6, <1>7

LEMMA PositionRecordsFit ==
    ASSUME PositionsFit, IInv, pc \notin BeforePositions
    PROVE  /\ RecordsOf(unfilledRec, n, Row)
           /\ \A i, j \in DOMAIN unfilledRec : i # j => unfilledRec[i].key # unfilledRec[j].key
<1>1. n \in Nat /\ \A r \in Row : r \in Nat /\ r < Multiplier
  BY RowsFit
<1>2. DOMAIN unfilledRec = Row
  BY DEF IInv, PositionsOK, ByKey, Row
<1>3. fDouble \in [Row -> 0 .. 1]
  BY Stages DEF IInv, FirstsOK
<1>4. PICK q : /\ Permutation(q, n)
               /\ \A i \in Row : /\ q[i] \in Row
                                 /\ unfilledRec[i].val = q[i]
                                 /\ unfilledRec[i].flag = 1 - fDouble[q[i]]
                                 /\ unfilledRec[i].key = Keyed(1 - fDouble[q[i]], q[i])
  BY PositionRecords
<1>5. ASSUME NEW i \in Row
      PROVE  /\ unfilledRec[i].key \in 0 .. 2 ^ KeyBits - 1
             /\ unfilledRec[i].val \in Row
             /\ unfilledRec[i].flag \in 0 .. 1
  <2>1. q[i] \in Row /\ q[i] \in Nat /\ q[i] < Multiplier
    BY <1>1, <1>4
  <2>2. fDouble[q[i]] \in 0 .. 1
    BY <1>3, <2>1
  <2>3. 1 - fDouble[q[i]] \in 0 .. 1
    BY <2>2
  <2>4. Keyed(1 - fDouble[q[i]], q[i]) \in 0 .. 2 ^ KeyBits - 1
    BY <2>1, <2>3, KeyedIs, KeyInBits
  <2>5. /\ unfilledRec[i].val = q[i] /\ unfilledRec[i].flag = 1 - fDouble[q[i]]
        /\ unfilledRec[i].key = Keyed(1 - fDouble[q[i]], q[i])
    BY <1>4
  <2> QED BY <2>1, <2>3, <2>4, <2>5, Zenon
<1>6. ASSUME NEW i \in Row, NEW j \in Row, unfilledRec[i].key = unfilledRec[j].key
      PROVE  i = j
  <2>1. /\ q[i] \in Row /\ q[i] \in Nat /\ q[i] < Multiplier
        /\ q[j] \in Row /\ q[j] \in Nat /\ q[j] < Multiplier
    BY <1>1, <1>4
  <2>2. fDouble[q[i]] \in 0 .. 1 /\ fDouble[q[j]] \in 0 .. 1
    BY <1>3, <2>1
  <2>3. 1 - fDouble[q[i]] \in 0 .. 1 /\ 1 - fDouble[q[j]] \in 0 .. 1
    BY <2>2
  <2>4. Keyed(1 - fDouble[q[i]], q[i]) = Keyed(1 - fDouble[q[j]], q[j])
    BY <1>4, <1>6
  <2>5. q[i] = q[j]
    BY <2>1, <2>3, <2>4, KeyedDiffers
  <2> QED BY <1>4, <2>5 DEF Permutation, Row
<1>7. RecordsOf(unfilledRec, n, Row)
  BY <1>2, <1>5, Zenon DEF RecordsOf, Row
<1> QED BY <1>2, <1>6, <1>7


\* Every write is for a row; no two valid ones, and no two invalid ones, are
\* for the same row; and every row has a valid one: that of the query whose
\* first occurrence it is, or that of a position to be filled.
Targets(tr) ==
    /\ \A i \in 0 .. 2 * n - 1 : /\ tr[i] \in Row
                                 /\ AllWrites[i].flag \in 0 .. 1
                                 /\ AllWrites[i].key = Keyed(AllWrites[i].flag, tr[i])
    /\ \A i, j \in 0 .. 2 * n - 1 :
         tr[i] = tr[j] /\ AllWrites[i].flag = AllWrites[j].flag => i = j
    /\ \A r \in Row : \E i \in 0 .. 2 * n - 1 : tr[i] = r /\ AllWrites[i].flag = 1
    /\ \A i \in 0 .. 2 * n - 1 : AllWrites[i].flag = 1 =>
         IF i < n THEN fDouble[tr[i]] = 0 ELSE tr[i] = i - n /\ fDouble[tr[i]] = 1

LEMMA WriteTargets ==
    ASSUME PositionsFit, IInv, pc \notin BeforePositions
    PROVE  \E tr : Targets(tr)
<1>1. n \in Nat
  BY RowsFit
<1>2. fDouble \in [Row -> 0 .. 1]
  BY Stages DEF IInv, FirstsOK
<1>3. PICK q : /\ Permutation(q, n)
               /\ \A i \in Row : /\ q[i] \in Row
                                 /\ unfilledRec[i].val = q[i]
                                 /\ unfilledRec[i].flag = 1 - fDouble[q[i]]
  BY PositionRecords
<1> DEFINE N == 0 .. 2 * n - 1
           tr == [i \in N |-> IF i < n THEN q[i] ELSE i - n]
<1>4. ASSUME NEW i \in N, i < n
      PROVE  /\ i \in Row /\ tr[i] = q[i] /\ tr[i] \in Row
             /\ AllWrites[i].flag = 1 - fDouble[tr[i]]
             /\ AllWrites[i].key = Keyed(AllWrites[i].flag, tr[i])
  <2>1. /\ i \in Row
        /\ AllWrites[i].key = Keyed(unfilledRec[i].flag, unfilledRec[i].val)
        /\ AllWrites[i].flag = unfilledRec[i].flag
    BY <1>1, <1>4, WritesAre
  <2>2. tr[i] = q[i]
    BY <1>4
  <2> HIDE DEF tr
  <2> QED BY <1>3, <2>1, <2>2
<1>5. ASSUME NEW i \in N, ~ (i < n)
      PROVE  /\ tr[i] = i - n /\ tr[i] \in Row
             /\ AllWrites[i].flag = fDouble[tr[i]]
             /\ AllWrites[i].key = Keyed(AllWrites[i].flag, tr[i])
  <2>1. /\ i - n \in Row
        /\ AllWrites[i].key = Keyed(fDouble[i - n], i - n)
        /\ AllWrites[i].flag = fDouble[i - n]
    BY <1>1, <1>5, WritesAre
  <2>2. tr[i] = i - n
    BY <1>5
  <2> HIDE DEF tr
  <2> QED BY <2>1, <2>2
<1> HIDE DEF tr
<1>6. \A r \in Row : fDouble[r] = 0 \/ fDouble[r] = 1
  BY <1>2
<1>7. ASSUME NEW i \in N
      PROVE  /\ tr[i] \in Row /\ AllWrites[i].flag \in 0 .. 1
             /\ AllWrites[i].key = Keyed(AllWrites[i].flag, tr[i])
             /\ AllWrites[i].flag = 1 =>
                  IF i < n THEN fDouble[tr[i]] = 0 ELSE tr[i] = i - n /\ fDouble[tr[i]] = 1
  <2>1. CASE i < n
    BY <1>4, <1>6, <2>1
  <2>2. CASE ~ (i < n)
    BY <1>5, <1>6, <2>2
  <2> QED BY <2>1, <2>2
<1>8. ASSUME NEW i \in N, NEW j \in N,
             tr[i] = tr[j], AllWrites[i].flag = AllWrites[j].flag
      PROVE  i = j
  <2>1. CASE i < n /\ j < n
    <3>1. i \in Row /\ j \in Row /\ q[i] = q[j]
      BY <1>4, <1>8, <2>1
    <3> QED BY <1>3, <3>1 DEF Permutation, Row
  <2>2. CASE ~ (i < n) /\ ~ (j < n)
    <3>1. i - n = j - n
      BY <1>5, <1>8, <2>2
    <3> QED BY <1>1, <3>1
  <2>3. CASE i < n /\ ~ (j < n)
    <3>1. 1 - fDouble[tr[i]] = fDouble[tr[i]] /\ tr[i] \in Row
      BY <1>4, <1>5, <1>8, <2>3
    <3> QED BY <1>6, <3>1
  <2>4. CASE ~ (i < n) /\ j < n
    <3>1. 1 - fDouble[tr[i]] = fDouble[tr[i]] /\ tr[i] \in Row
      BY <1>4, <1>5, <1>8, <2>4
    <3> QED BY <1>6, <3>1
  <2> QED BY <2>1, <2>2, <2>3, <2>4
<1>9. ASSUME NEW r \in Row
      PROVE  \E i \in N : tr[i] = r /\ AllWrites[i].flag = 1
  <2>1. CASE fDouble[r] = 1
    <3>1. r + n \in N /\ ~ (r + n < n) /\ (r + n) - n = r
      BY <1>1 DEF Row
    <3>2. tr[r + n] = r /\ AllWrites[r + n].flag = 1
      BY <1>5, <2>1, <3>1
    <3> QED BY <3>1, <3>2
  <2>2. CASE fDouble[r] = 0
    <3>1. PICK i \in 0 .. n-1 : q[i] = r
      BY <1>3 DEF Permutation, Row
    <3>2. i \in N /\ i < n
      BY <1>1
    <3>3. tr[i] = r /\ AllWrites[i].flag = 1 - fDouble[r]
      BY <1>4, <3>1, <3>2
    <3>4. AllWrites[i].flag = 1
      BY <2>2, <3>3
    <3> QED BY <3>2, <3>3, <3>4
  <2> QED BY <1>6, <2>1, <2>2
<1>10. Targets(tr)
  BY <1>7, <1>8, <1>9 DEF Targets
<1> QED BY <1>10

Growing(c, len) ==
    /\ \A x \in 0 .. len-1 : c[x] \in Nat
    /\ \A x, y \in 0 .. len-1 : x < y => c[x] < c[y]

\* Every number below low occurs.
Attains(c, len, low) == \A k \in 0 .. low-1 : \E x \in 0 .. len-1 : c[x] = k

\* A growing array of numbers is nowhere behind its index.
LEMMA GrowingAhead ==
    ASSUME NEW len \in Nat, NEW c, Growing(c, len)
    PROVE  \A x \in 0 .. len-1 : c[x] >= x
<1> USE DEF Growing
<1> DEFINE S == {x \in 0 .. len-1 : c[x] < x}
<1> SUFFICES ASSUME S # {} PROVE FALSE
  <2>1. ASSUME NEW x \in 0 .. len-1, ~ (c[x] >= x) PROVE x \in S
    BY <2>1
  <2> QED BY <2>1
<1>1. PICK x \in S : \A y \in S : x <= y
  <2>1. S \in SUBSET Nat
    OBVIOUS
  <2> HIDE DEF S
  <2> QED BY <2>1, LeastNatural
<1>2. x \in 0 .. len-1 /\ c[x] < x /\ c[x] \in Nat
  OBVIOUS
<1>3. x - 1 \in 0 .. len-1 /\ x - 1 < x
  BY <1>2
<1>4. c[x - 1] < c[x] /\ c[x - 1] \in Nat
  BY <1>2, <1>3
<1>5. x - 1 \in S
  BY <1>2, <1>3, <1>4
<1> QED BY <1>1, <1>2, <1>3, <1>5

\* A growing array in which every small number occurs has these in place.
LEMMA SmallInPlace ==
    ASSUME NEW len \in Nat, NEW low \in Nat, low <= len,
           NEW c, Growing(c, len), Attains(c, len, low)
    PROVE  \A k \in 0 .. low-1 : c[k] = k
<1> DEFINE g == [k \in 0 .. low-1 |-> CHOOSE x \in 0 .. len-1 : c[x] = k]
<1>1. \A k \in 0 .. low-1 : g[k] \in 0 .. len-1 /\ c[g[k]] = k
  BY DEF Attains
<1> HIDE DEF g
<1>2. \A k \in 0 .. low-1 : g[k] \in Nat
  BY <1>1
<1>3. ASSUME NEW k \in 0 .. low-1, NEW l \in 0 .. low-1, k < l
      PROVE  g[k] < g[l]
  <2>1. g[k] \in 0 .. len-1 /\ c[g[k]] = k /\ g[l] \in 0 .. len-1 /\ c[g[l]] = l
    BY <1>1
  <2>2. ~ (g[l] < g[k])
    <3>1. g[l] < g[k] => c[g[l]] < c[g[k]]
      BY <2>1 DEF Growing
    <3> QED BY <1>3, <2>1, <3>1
  <2>3. g[k] # g[l]
    BY <1>3, <2>1
  <2> QED BY <2>1, <2>2, <2>3
<1>4. \A k \in 0 .. low-1 : g[k] >= k
  <2>1. Growing(g, low)
    BY <1>2, <1>3 DEF Growing
  <2> QED BY <2>1, GrowingAhead
<1>5. \A x \in 0 .. len-1 : c[x] >= x
  BY GrowingAhead
<1>6. ASSUME NEW k \in 0 .. low-1
      PROVE  c[k] = k
  <2>1. g[k] \in 0 .. len-1 /\ c[g[k]] = k /\ g[k] >= k
    BY <1>1, <1>4
  <2>2. k >= g[k]
    BY <1>5, <2>1
  <2>3. g[k] = k
    BY <2>1, <2>2
  <2> QED BY <2>1, <2>3
<1> QED BY <1>6


\* The sorted writes: their keys differ, and the valid one for a row lies at
\* the row.
LEMMA WritesInOrder ==
    ASSUME PositionsFit, IInv, pc \notin BeforeWrites
    PROVE  \E p, tr :
             /\ Permutation(p, 2 * n) /\ Targets(tr)
             /\ DOMAIN writes = 0 .. 2 * n - 1
             /\ \A i \in 0 .. 2 * n - 1 : /\ p[i] \in 0 .. 2 * n - 1
                                          /\ writes[i] = AllWrites[p[i]]
             /\ \A i, j \in 0 .. 2 * n - 1 : i # j => writes[i].key # writes[j].key
             /\ \A i \in 0 .. 2 * n - 1 :
                  IF i < n THEN writes[i].flag = 1 /\ writes[i].key = i /\ tr[p[i]] = i
                  ELSE writes[i].flag = 0
<1>1. /\ n \in Nat /\ n <= Multiplier /\ Multiplier \in Nat
      /\ \A r \in Row : r \in Nat /\ r < Multiplier
  BY RowsFit
<1> DEFINE N == 0 .. 2 * n - 1
<1>2. /\ DOMAIN writes = N
      /\ Permuted(AllWrites, writes, 2 * n)
      /\ \A x, y \in N : x < y => writes[x].key <= writes[y].key
  BY DEF IInv, WritesOK, ByKey
<1>3. PICK p : Permutation(p, 2 * n) /\ \A i \in N : writes[i] = AllWrites[p[i]]
  BY <1>2 DEF Permuted
<1>4. pc \notin BeforePositions
  BY Stages
<1>5. PICK tr : Targets(tr)
  BY <1>4, WriteTargets
<1>6. \A i \in N : p[i] \in N
  BY <1>3 DEF Permutation
<1>7. \A i \in N : /\ tr[i] \in Row /\ tr[i] \in Nat /\ tr[i] < Multiplier
                   /\ AllWrites[i].flag \in 0 .. 1
                   /\ AllWrites[i].key = Keyed(AllWrites[i].flag, tr[i])
  BY <1>1, <1>5 DEF Targets
<1>8. ASSUME NEW i \in N, NEW j \in N, AllWrites[i].key = AllWrites[j].key
      PROVE  i = j
  <2>1. Keyed(AllWrites[i].flag, tr[i]) = Keyed(AllWrites[j].flag, tr[j])
    BY <1>7, <1>8
  <2>2. AllWrites[i].flag = AllWrites[j].flag /\ tr[i] = tr[j]
    BY <1>7, <2>1, KeyedDiffers
  <2> QED BY <1>5, <2>2 DEF Targets
<1>9. \A i, j \in N : i # j => writes[i].key # writes[j].key
  <2> SUFFICES ASSUME NEW i \in N, NEW j \in N, writes[i].key = writes[j].key
               PROVE  i = j
    OBVIOUS
  <2>1. p[i] \in N /\ p[j] \in N /\ AllWrites[p[i]].key = AllWrites[p[j]].key
    BY <1>3, <1>6
  <2>2. p[i] = p[j]
    BY <1>8, <2>1
  <2> QED BY <1>3, <2>2 DEF Permutation
<1> DEFINE c == [i \in N |-> writes[i].key]
<1>10. \A i \in N : c[i] = writes[i].key /\ c[i] = AllWrites[p[i]].key
  BY <1>3
<1> HIDE DEF c
<1>11. ASSUME NEW i \in N
       PROVE  /\ c[i] \in Nat
              /\ writes[i].flag = 1 => c[i] = tr[p[i]] /\ c[i] < n
              /\ writes[i].flag = 0 => c[i] >= n
              /\ writes[i].flag \in 0 .. 1
  <2>1. /\ p[i] \in N /\ tr[p[i]] \in Row /\ tr[p[i]] \in Nat /\ tr[p[i]] < Multiplier
        /\ AllWrites[p[i]].flag \in 0 .. 1
        /\ AllWrites[p[i]].key = Keyed(AllWrites[p[i]].flag, tr[p[i]])
    BY <1>6, <1>7
  <2>2. writes[i].flag = AllWrites[p[i]].flag
    BY <1>3
  <2> DEFINE b == writes[i].flag
             r == tr[p[i]]
  <2>3. b \in 0 .. 1 /\ r \in Nat /\ r < Multiplier /\ r \in Row /\ c[i] = Keyed(b, r)
    BY <1>10, <2>1, <2>2
  <2> HIDE DEF b, r
  <2>4. /\ c[i] \in Nat
        /\ b = 1 => c[i] = r
        /\ b = 0 => c[i] = Multiplier + r
    BY <2>3, KeyedIs
  <2>5. r < n
    BY <1>1, <2>3 DEF Row
  <2>6. b = 0 => c[i] >= n
    BY <1>1, <2>3, <2>4
  <2> QED BY <2>3, <2>4, <2>5, <2>6 DEF b, r
<1>12. \A x, y \in N : x < y => c[x] < c[y]
  <2> SUFFICES ASSUME NEW x \in N, NEW y \in N, x < y
               PROVE  c[x] < c[y]
    OBVIOUS
  <2>1. c[x] <= c[y] /\ c[x] # c[y]
    BY <1>2, <1>9, <1>10
  <2>2. c[x] \in Nat /\ c[y] \in Nat
    BY <1>11
  <2> QED BY <2>1, <2>2
<1>13. ASSUME NEW k \in 0 .. n-1
       PROVE  \E x \in N : c[x] = k
  <2>1. PICK i \in N : tr[i] = k /\ AllWrites[i].flag = 1
    BY <1>5 DEF Targets, Row
  <2>2. PICK x \in N : p[x] = i
    BY <1>3 DEF Permutation
  <2>3. writes[x].flag = 1
    BY <1>3, <2>1, <2>2
  <2> QED BY <1>11, <2>1, <2>2, <2>3
<1>14. \A k \in 0 .. n-1 : c[k] = k
  <2> DEFINE len == 2 * n
  <2>1. len \in Nat /\ n \in Nat /\ n <= len
    BY <1>1
  <2>2. Growing(c, len)
    BY <1>11, <1>12 DEF Growing
  <2>3. Attains(c, len, n)
    BY <1>13 DEF Attains
  <2> HIDE DEF len
  <2> QED BY <2>1, <2>2, <2>3, SmallInPlace, ZenonT(40)
<1>15. ASSUME NEW i \in N, i < n
       PROVE  writes[i].flag = 1 /\ writes[i].key = i /\ tr[p[i]] = i
  <2>1. c[i] = i
    BY <1>1, <1>14, <1>15
  <2>2. ~ (c[i] >= n)
    BY <1>1, <1>15, <2>1
  <2>3. writes[i].flag = 1
    BY <1>11, <2>2
  <2> QED BY <1>10, <1>11, <2>1, <2>3
<1>16. ASSUME NEW i \in N, ~ (i < n)
       PROVE  writes[i].flag = 0
  <2>1. ASSUME writes[i].flag = 1
        PROVE  FALSE
    <3>1. c[i] \in Nat /\ c[i] < n
      BY <1>11, <2>1
    <3>2. c[i] \in 0 .. n-1 /\ c[i] \in N /\ c[i] < i
      BY <1>1, <1>16, <3>1
    <3>3. c[c[i]] = c[i]
      BY <1>14, <3>2
    <3>4. c[c[i]] < c[i]
      BY <1>12, <3>2
    <3> QED BY <3>1, <3>3, <3>4
  <2> QED BY <1>11, <2>1
<1>17. \A i \in N : IF i < n THEN writes[i].flag = 1 /\ writes[i].key = i /\ tr[p[i]] = i
                    ELSE writes[i].flag = 0
  BY <1>15, <1>16
<1> QED BY <1>2, <1>3, <1>5, <1>6, <1>9, <1>17, Zenon

LEMMA WriteRecordsFit ==
    ASSUME PositionsFit, IInv, pc \notin BeforeWrites
    PROVE  RecordsOf(writes, 2 * n, Field)
<1>1. n \in Nat /\ m \in Nat /\ m <= n /\ \A r \in Row : r \in Nat /\ r < Multiplier
  BY Stages, RowsFit, QueryRows
<1>2. fPrime \in [Query -> Field] /\ 0 \in Field
  BY Stages, ModulusIs DEF IInv, QueriesOK
<1>3. /\ DOMAIN unusedRec = Row
      /\ \A i \in Row : unusedRec[i].val \in Field
  BY Stages, ValueRecordsFit DEF RecordsOf, Row
<1>4. PICK p, tr : /\ Targets(tr)
                   /\ DOMAIN writes = 0 .. 2 * n - 1
                   /\ \A i \in 0 .. 2 * n - 1 : /\ p[i] \in 0 .. 2 * n - 1
                                                /\ writes[i] = AllWrites[p[i]]
  BY WritesInOrder
<1>5. ASSUME NEW i \in 0 .. 2 * n - 1
      PROVE  AllWrites[i].val \in Field
  <2>1. CASE i < n
    BY <1>1, <1>3, <2>1, WritesAre
  <2>2. CASE ~ (i < n)
    <3> DEFINE r == i - n
    <3>1. r \in Row /\ AllWrites[i].val = FPrimeFull(r)
      BY <1>1, <2>2, WritesAre
    <3> HIDE DEF r
    <3>2. r \in Nat /\ (r < m => r \in Query)
      BY <1>1, <3>1 DEF Query
    <3>3. r < m => fPrime[r] \in Field
      BY <1>2, <3>2
    <3>4. FPrimeFull(r) \in Field
      BY <1>2, <3>3 DEF FPrimeFull
    <3> QED BY <3>1, <3>4
  <2> QED BY <2>1, <2>2
<1>6. ASSUME NEW i \in 0 .. 2 * n - 1
      PROVE  AllWrites[i].key \in 0 .. 2 ^ KeyBits - 1 /\ AllWrites[i].flag \in 0 .. 1
  <2>1. /\ tr[i] \in Nat /\ tr[i] < Multiplier
        /\ AllWrites[i].flag \in 0 .. 1
        /\ AllWrites[i].key = Keyed(AllWrites[i].flag, tr[i])
    BY <1>1, <1>4 DEF Targets
  <2>2. Keyed(AllWrites[i].flag, tr[i]) \in 0 .. 2 ^ KeyBits - 1
    BY <2>1, KeyedIs, KeyInBits
  <2> QED BY <2>1, <2>2, Zenon
<1>7. ASSUME NEW i \in DOMAIN writes
      PROVE  /\ writes[i].key \in 0 .. 2 ^ KeyBits - 1
             /\ writes[i].val \in Field
             /\ writes[i].flag \in 0 .. 1
  <2>1. p[i] \in 0 .. 2 * n - 1 /\ writes[i] = AllWrites[p[i]]
    BY <1>4
  <2> QED BY <1>5, <1>6, <2>1, Zenon
<1> QED BY <1>4, <1>7, Zenon DEF RecordsOf


-----------------------------------------------------------------------------
(* What holds of the steps.                                                *)

\* The lookup permutation keeps every array at the size the next steps take
\* for granted, with values of the field and keys within the bits of the
\* sorts, for every table of at most Multiplier rows and all queries.
THEOREM LookupPermutationTypeOK ==
    ASSUME PositionsFit
    PROVE  Spec => []TypeOK
<1>1. IInv => TypeOK
  <2> SUFFICES ASSUME IInv PROVE TypeOK
    OBVIOUS
  <2>1. fPrime # None => fPrime \in [0 .. m-1 -> Field]
    BY DEF IInv, QueriesOK, Query
  <2>2. fDouble # None => IndicatorsOf(fDouble)
    BY DEF IInv, FirstsOK, IndicatorsOf
  <2>3. unused # None => IndicatorsOf(unused)
    BY DEF IInv, UnusedOK, IndicatorsOf
  <2>4. unusedRec # None => RecordsOf(unusedRec, n, Field)
    <3>1. pc \notin BeforeValues => RecordsOf(unusedRec, n, Field)
      BY ValueRecordsFit
    <3>2. pc \in BeforeValues => unusedRec = None
      BY DEF IInv, ValuesOK
    <3> QED BY <3>1, <3>2
  <2>5. unfilledRec # None => RecordsOf(unfilledRec, n, Row)
    <3>1. pc \notin BeforePositions => RecordsOf(unfilledRec, n, Row)
      BY PositionRecordsFit
    <3>2. pc \in BeforePositions => unfilledRec = None
      BY DEF IInv, PositionsOK
    <3> QED BY <3>1, <3>2
  <2>6. pc \notin BeforeWrites => RecordsOf(writes, 2 * n, Field)
    BY WriteRecordsFit
  <2>7. writes # None => RecordsOf(writes, 2 * n, Field)
    <3>1. pc \in BeforeWrites => writes = None
      BY DEF IInv, WritesOK
    <3> QED BY <2>6, <3>1
  <2>8. tPrime # None => tPrime \in [Row -> Field]
    <3>1. CASE pc \in BeforeTable
      BY <3>1 DEF IInv, TableOK
    <3>2. CASE pc \notin BeforeTable
      <4>1. tPrime = [i \in Row |-> writes[i].val]
        BY <3>2 DEF IInv, TableOK
      <4>2. DOMAIN writes = 0 .. 2 * n - 1 /\ \A i \in DOMAIN writes : writes[i].val \in Field
        BY <2>6, <3>2, Stages DEF RecordsOf
      <4>3. n \in Nat
        BY RowsFit
      <4>4. \A i \in Row : i \in 0 .. 2 * n - 1
        BY <4>3 DEF Row
      <4> QED BY <4>1, <4>2, <4>4
    <3> QED BY <3>1, <3>2
  <2>9. input \in Inputs
    BY DEF IInv
  <2> QED BY <2>1, <2>2, <2>3, <2>4, <2>5, <2>7, <2>8, <2>9 DEF TypeOK
<1> QED BY <1>1, LookupPermutationInductive, PTL

\* No two records of one of the sorts by key have equal keys, so the order in
\* which the network leaves equal keys never shows, whatever the table and the
\* queries.
THEOREM LookupPermutationKeysDiffer ==
    ASSUME PositionsFit
    PROVE  Spec => []KeysDiffer
<1>1. IInv => KeysDiffer
  <2> SUFFICES ASSUME IInv, NEW recs \in {unusedRec, unfilledRec, writes},
                      NEW i \in DOMAIN recs, NEW j \in DOMAIN recs, i # j
               PROVE  recs[i].key # recs[j].key
    BY DEF KeysDiffer
  <2>1. recs # None
    BY DEF None
  <2>2. CASE recs = unusedRec
    <3>1. pc \notin BeforeValues
      BY <2>1, <2>2 DEF IInv, ValuesOK
    <3> QED BY <2>2, <3>1, ValueRecordsFit
  <2>3. CASE recs = unfilledRec
    <3>1. pc \notin BeforePositions
      BY <2>1, <2>3 DEF IInv, PositionsOK
    <3> QED BY <2>3, <3>1, PositionRecordsFit
  <2>4. CASE recs = writes
    <3>1. pc \notin BeforeWrites
      BY <2>1, <2>4 DEF IInv, WritesOK
    <3>2. /\ DOMAIN writes = 0 .. 2 * n - 1
          /\ \A x, y \in 0 .. 2 * n - 1 : x # y => writes[x].key # writes[y].key
      BY <3>1, WritesInOrder
    <3> QED BY <2>4, <3>2
  <2> QED BY <2>2, <2>3, <2>4
<1> QED BY <1>1, LookupPermutationInductive, PTL

\* When t' is built from the sorted writes, its rows are those in front, every
\* row is written by the one valid record that is for it, and the rest of the
\* records are invalid, whatever the table and the queries.
THEOREM LookupPermutationRowsWrittenOnce ==
    ASSUME PositionsFit
    PROVE  Spec => []RowsWrittenOnce
<1>1. IInv => RowsWrittenOnce
  <2> SUFFICES ASSUME IInv, pc = "construct", NEW i \in 0 .. 2 * n - 1
               PROVE  IF i < n THEN writes[i].flag = 1 /\ writes[i].key = i
                      ELSE writes[i].flag = 0
    BY DEF RowsWrittenOnce
  <2>1. pc \notin BeforeWrites
    BY Stages
  <2>2. \A x \in 0 .. 2 * n - 1 : IF x < n THEN writes[x].flag = 1 /\ writes[x].key = x
                                  ELSE writes[x].flag = 0
    BY <2>1, WritesInOrder
  <2> QED BY <2>2
<1> QED BY <1>1, LookupPermutationInductive, PTL

-----------------------------------------------------------------------------
(* The columns that are proved about.                                      *)

\* A first occurrence is at its row of t'.
LEMMA FirstsWritten ==
    ASSUME PositionsFit, IInv, pc \notin BeforeTable
    PROVE  \A i \in Query : First(i) => tPrime[i] = fPrime[i]
<1>1. /\ n \in Nat /\ m \in Nat /\ pc \notin BeforeQueries
      /\ pc \notin BeforeFirsts /\ pc \notin BeforeWrites
  BY RowsFit, Stages
<1>2. PICK p, tr :
        /\ Targets(tr)
        /\ \A i \in 0 .. 2 * n - 1 : /\ p[i] \in 0 .. 2 * n - 1
                                     /\ writes[i] = AllWrites[p[i]]
        /\ \A i \in 0 .. 2 * n - 1 :
             IF i < n THEN writes[i].flag = 1 /\ writes[i].key = i /\ tr[p[i]] = i
             ELSE writes[i].flag = 0
  BY <1>1, WritesInOrder
<1>3. ASSUME NEW i \in Query, First(i)
      PROVE  tPrime[i] = fPrime[i]
  <2>1. i \in Row /\ i < m /\ i \in 0 .. 2 * n - 1 /\ i < n
    BY <1>1, QueryRows DEF Query, Row
  <2>2. fDouble[i] = 1
    BY <1>1, <1>3, <2>1 DEF IInv, FirstsOK
  <2> DEFINE a == p[i]
  <2>3. /\ a \in 0 .. 2 * n - 1 /\ writes[i] = AllWrites[a]
        /\ writes[i].flag = 1 /\ tr[a] = i
    BY <1>2, <2>1
  <2> HIDE DEF a
  <2>4. AllWrites[a].flag = 1
    BY <2>3
  <2>5. IF a < n THEN fDouble[tr[a]] = 0 ELSE tr[a] = a - n /\ fDouble[tr[a]] = 1
    BY <1>2, <2>3, <2>4 DEF Targets
  <2>6. ~ (a < n) /\ a - n = i
    BY <2>2, <2>3, <2>5
  <2>7. AllWrites[a].val = FPrimeFull(i)
    BY <1>1, <2>3, <2>6, WritesAre
  <2>8. tPrime[i] = writes[i].val
    BY <2>1 DEF IInv, TableOK
  <2> QED BY <2>1, <2>3, <2>7, <2>8 DEF FPrimeFull
<1> QED BY <1>3

\* The abstract specification counts alike.
LEMMA LookupCounts == \A S : Abstract!Cardinality(S) = Cardinality(S)
BY DEF Abstract!Cardinality, Cardinality

LEMMA PermutedRearranged ==
    ASSUME NEW len \in Nat, NEW a, NEW b, DOMAIN a = 0 .. len-1, DOMAIN b = 0 .. len-1,
           Permuted(a, b, len)
    PROVE  Abstract!Rearranged(a, b)
<1>1. ASSUME NEW x
      PROVE  Abstract!Count(a, x) = Abstract!Count(b, x)
  <2>1. Often(a, len, x) = Often(b, len, x)
    BY PermutedOccurs
  <2>2. /\ Abstract!Count(a, x) = Often(a, len, x)
        /\ Abstract!Count(b, x) = Often(b, len, x)
    BY LookupCounts DEF Abstract!Count, Often
  <2> QED BY <2>1, <2>2, Zenon
<1> QED BY <1>1 DEF Abstract!Rearranged

\* What is put behind two arrays alike leaves one a permutation of the other.
LEMMA PaddedPermuted ==
    ASSUME NEW len \in Nat, NEW more \in Nat, len <= more, NEW a, NEW b, Permuted(a, b, len),
           NEW c, NEW d,
           \A i \in 0 .. more-1 : IF i < len THEN c[i] = a[i] /\ d[i] = b[i] ELSE c[i] = d[i]
    PROVE  Permuted(c, d, more)
<1>1. PICK p : Permutation(p, len) /\ \A i \in 0 .. len-1 : b[i] = a[p[i]]
  BY DEF Permuted
<1> DEFINE N == 0 .. more-1
           q == [i \in N |-> IF i < len THEN p[i] ELSE i]
<1>2. \A i \in N : IF i < len THEN i \in 0 .. len-1 /\ q[i] = p[i] ELSE q[i] = i
  OBVIOUS
<1> HIDE DEF q
<1>3. \A i \in 0 .. len-1 : p[i] \in 0 .. len-1 /\ p[i] \in N /\ p[i] < len
  BY <1>1 DEF Permutation
<1>4. \A i \in N : q[i] \in N /\ (q[i] < len <=> i < len)
  BY <1>2, <1>3
<1>5. ASSUME NEW x \in N, NEW y \in N, q[x] = q[y]
      PROVE  x = y
  <2>1. x < len <=> y < len
    BY <1>4, <1>5
  <2>2. CASE x < len
    <3>1. x \in 0 .. len-1 /\ y \in 0 .. len-1 /\ p[x] = p[y]
      BY <1>2, <1>5, <2>1, <2>2
    <3> QED BY <1>1, <3>1 DEF Permutation
  <2>3. CASE ~ (x < len)
    BY <1>2, <1>5, <2>1, <2>3
  <2> QED BY <2>2, <2>3
<1>6. ASSUME NEW y \in N
      PROVE  \E x \in N : q[x] = y
  <2>1. CASE y < len
    <3>1. PICK x \in 0 .. len-1 : p[x] = y
      BY <1>1, <2>1 DEF Permutation
    <3>2. x \in N /\ x < len
      OBVIOUS
    <3> QED BY <1>2, <3>1, <3>2
  <2>2. CASE ~ (y < len)
    BY <1>2, <2>2
  <2> QED BY <2>1, <2>2
<1>7. q \in [N -> N]
  BY <1>4 DEF q
<1>8. \A i \in N : d[i] = c[q[i]]
  <2> SUFFICES ASSUME NEW i \in N
               PROVE  d[i] = c[q[i]]
    OBVIOUS
  <2>1. CASE i < len
    <3>1. i \in 0 .. len-1 /\ q[i] = p[i] /\ d[i] = b[i] /\ b[i] = a[p[i]]
      BY <1>1, <1>2, <2>1
    <3>2. p[i] \in N /\ p[i] < len
      BY <1>3, <3>1
    <3>3. c[p[i]] = a[p[i]]
      BY <3>2
    <3> QED BY <3>1, <3>3
  <2>2. CASE ~ (i < len)
    BY <1>2, <2>2
  <2> QED BY <2>1, <2>2
<1>9. Permutation(q, more)
  BY <1>5, <1>6, <1>7 DEF Permutation
<1> QED BY <1>8, <1>9 DEF Permuted

\* The columns A and A' that the client proves about satisfy the lookup
\* argument: A' is A rearranged, and each of its rows equals its row of t' or
\* the row above, whatever the table and the queries: that the queries are in
\* the table does not enter here.
THEOREM LookupPermutationLookupHolds ==
    ASSUME PositionsFit
    PROVE  Spec => []LookupHolds
<1>1. IInv => LookupHolds
  <2> SUFFICES ASSUME IInv, pc = "padded"
               PROVE  /\ Abstract!Rearranged(columns.a, columns.aPrime)
                      /\ \A i \in Row : \/ columns.aPrime[i] = tPrime[i]
                                        \/ i > 0 /\ columns.aPrime[i] = columns.aPrime[i - 1]
    BY DEF LookupHolds
  <2>1. /\ pc \notin BeforeQueries /\ pc \notin BeforeTable /\ pc \notin BeforePadding
        /\ n \in Nat /\ m \in Nat
    BY RowsFit, Stages
  <2>2. m <= n /\ Permuted(f, fPrime, m)
    BY <2>1 DEF IInv, QueriesOK
  <2>3. columns = [a |-> Padded(f), aPrime |-> Padded(fPrime)]
    BY <2>1 DEF IInv, PaddingOK
  <2>4. columns.a = Padded(f) /\ columns.aPrime = Padded(fPrime)
    BY <2>3
  <2> DEFINE A == Padded(f)
             B == Padded(fPrime)
  <2>5. /\ DOMAIN A = 0 .. n-1 /\ DOMAIN B = 0 .. n-1
        /\ \A i \in 0 .. n-1 : IF i < m THEN A[i] = f[i] /\ B[i] = fPrime[i]
                               ELSE A[i] = tPrime[i] /\ B[i] = tPrime[i]
    BY DEF Padded, Row
  <2> HIDE DEF A, B
  <2>6. Permuted(A, B, n)
    <3>1. \A i \in 0 .. n-1 : IF i < m THEN A[i] = f[i] /\ B[i] = fPrime[i] ELSE A[i] = B[i]
      BY <2>5
    <3> QED BY <2>1, <2>2, <3>1, PaddedPermuted
  <2>7. Abstract!Rearranged(A, B)
    BY <2>1, <2>5, <2>6, PermutedRearranged
  <2>8. ASSUME NEW i \in Row
        PROVE  B[i] = tPrime[i] \/ (i > 0 /\ B[i] = B[i - 1])
    <3>1. i \in 0 .. n-1 /\ i \in Nat
      BY <2>1 DEF Row
    <3>2. CASE ~ (i < m)
      BY <2>5, <3>1, <3>2
    <3>3. CASE i < m /\ First(i)
      <4>1. i \in Query /\ B[i] = fPrime[i]
        BY <2>1, <2>5, <3>1, <3>3 DEF Query
      <4> QED BY <2>1, <3>3, <4>1, FirstsWritten
    <3>4. CASE i < m /\ ~ First(i)
      <4>1. i # 0 /\ fPrime[i] = fPrime[i - 1]
        BY <3>4 DEF First
      <4>2. i > 0 /\ i - 1 \in 0 .. n-1 /\ i - 1 < m
        BY <2>1, <3>1, <3>4, <4>1
      <4>3. B[i] = fPrime[i] /\ B[i - 1] = fPrime[i - 1]
        BY <2>5, <3>1, <3>4, <4>2
      <4> QED BY <4>1, <4>2, <4>3
    <3> QED BY <3>2, <3>3, <3>4
  <2> QED BY <2>4, <2>7, <2>8 DEF A, B
<1> QED BY <1>1, LookupPermutationInductive, PTL


-----------------------------------------------------------------------------
(* What the polynomial finds.                                              *)

LEMMA ListOf ==
    ASSUME NEW k \in Nat, NEW a, \A i \in 0 .. k-1 : a[i] \in Field
    PROVE  LET s == [i \in 1 .. k |-> a[i - 1]]
           IN  s \in Seq(Field) /\ Len(s) = k /\ \A i \in 1 .. k : s[i] = a[i - 1]
<1> DEFINE s == [i \in 1 .. k |-> a[i - 1]]
<1>1. \A i \in 1 .. k : s[i] = a[i - 1] /\ a[i - 1] \in Field
  OBVIOUS
<1>2. s \in [1 .. k -> Field]
  BY <1>1
<1> HIDE DEF s
<1>3. s \in Seq(Field) /\ Len(s) = k
  BY <1>2, SequenceIs
<1> QED BY <1>1, <1>3 DEF s

LEMMA FindUnusedFinds ==
    ASSUME IInv, FindUnused
    PROVE  UnusedAreUnasked'
<1> DEFINE qs == [i \in 1 .. m |-> fPrime[i - 1]]
           ts == [j \in 1 .. n |-> t[j - 1]]
           tree == SubproductTree(qs)
           root == tree[Len(tree)][1]
           values == MultipointEval(root, SubproductTree(ts))
<1>1. pc = "membership" /\ input' = input /\ unused' = [j \in Row |-> Bit(values[j + 1] # 0)]
  BY Zenon DEF FindUnused, AtTable, MembershipPolynomial
<1>2. /\ n \in Nat /\ m \in Nat /\ Sortable(n) /\ Sortable(m)
      /\ DOMAIN f = Query /\ \A j \in Row : t[j] \in Field
      /\ fPrime \in [Query -> Field] /\ Permuted(f, fPrime, m)
  <2>1. pc \notin BeforeQueries
    BY <1>1 DEF BeforeQueries
  <2>2. fPrime \in [Query -> Field] /\ Permuted(f, fPrime, m) /\ Sortable(m)
    BY <2>1 DEF IInv, QueriesOK
  <2>3. n \in Nat /\ m \in Nat /\ Sortable(n)
    BY <2>1, QueryRows
  <2> QED BY <2>2, <2>3, ArraysAre DEF IInv
<1>3. PICK c \in 1 .. m : m = 2 ^ c
  BY <1>2, SortableIs
<1>4. PICK d \in 1 .. n : n = 2 ^ d
  BY <1>2, SortableIs
<1>5. c \in Nat /\ d \in Nat \ {0}
  OBVIOUS
<1>6. qs \in Seq(Field) /\ Len(qs) = m /\ \A i \in 1 .. m : qs[i] = fPrime[i - 1]
  <2>1. \A i \in 0 .. m-1 : fPrime[i] \in Field
    BY <1>2 DEF Query
  <2> QED BY <1>2, <2>1, ListOf
<1>7. ts \in Seq(Field) /\ Len(ts) = n /\ \A j \in 1 .. n : ts[j] = t[j - 1]
  <2>1. \A j \in 0 .. n-1 : t[j] \in Field
    BY <1>2 DEF Row
  <2> QED BY <1>2, <2>1, ListOf
<1> HIDE DEF qs, ts
<1>8. ASSUME NEW x \in Int
      PROVE  /\ root \in Seq(Field)
             /\ Same(PolyValue(root, x), 0) <=> \E i \in 1 .. m : Same(x, qs[i])
  <2>1. Len(qs) = 2 ^ c
    BY <1>3, <1>6
  <2>2. /\ root \in Seq(Field)
        /\ Same(PolyValue(root, x), 0) <=> \E i \in 1 .. Len(qs) : Same(x, qs[i])
    BY <1>5, <1>6, <2>1, TreeVanishes
  <2> QED BY <1>6, <2>2
<1>9. root \in Seq(Field)
  BY <1>8, 0 \in Int
<1> HIDE DEF root
<1>10. \A j \in 1 .. n : values[j] \in Field /\ Same(values[j], PolyValue(root, ts[j]))
  <2>1. Len(ts) = 2 ^ d
    BY <1>4, <1>7
  <2>2. \A j \in 1 .. Len(ts) : values[j] \in Field /\ Same(values[j], PolyValue(root, ts[j]))
    BY <1>5, <1>7, <1>9, <2>1, MultipointEvaluates
  <2> QED BY <1>7, <2>2
<1> HIDE DEF values
<1>11. ASSUME NEW j \in Row
       PROVE  values[j + 1] = 0 <=> \E i \in Query : fPrime[i] = t[j]
  <2> DEFINE l == j + 1
             x == ts[l]
             v == values[l]
             w == PolyValue(root, x)
  <2>1. l \in 1 .. n /\ l - 1 = j
    BY <1>2 DEF Row
  <2> HIDE DEF l
  <2>2. x = t[j] /\ x \in Field
    BY <1>2, <1>7, <2>1
  <2>3. v \in Field /\ Same(v, w)
    BY <1>10, <2>1
  <2>4. x \in Int /\ v \in Int /\ w \in Int /\ 0 \in Int
    <3>1. x \in Int /\ v \in Int
      BY <2>2, <2>3, InField
    <3> HIDE DEF x
    <3> QED BY <1>9, <3>1, FieldsAreNumbers, PolyValueIsNumber
  <2>5. Same(w, 0) <=> \E i \in 1 .. m : Same(x, qs[i])
    BY <1>8, <2>4
  <2>6. \A i \in 1 .. m : qs[i] = fPrime[i - 1] /\ i - 1 \in Query /\ fPrime[i - 1] \in Field
    <3> SUFFICES ASSUME NEW i \in 1 .. m
                 PROVE  qs[i] = fPrime[i - 1] /\ i - 1 \in Query /\ fPrime[i - 1] \in Field
      OBVIOUS
    <3>1. i - 1 \in Query
      BY <1>2 DEF Query
    <3> QED BY <1>2, <1>6, <3>1
  <2> HIDE DEF x, v, w
  <2>7. v = 0 <=> Same(w, 0)
    <3>1. ASSUME v = 0 PROVE Same(w, 0)
      BY <2>3, <2>4, <3>1, SameBack
    <3>2. ASSUME Same(w, 0) PROVE v = 0
      <4>1. Same(v, 0)
        BY <2>3, <2>4, <3>2, SameOn
      <4> QED BY <2>3, <4>1, ModulusIs, SameIsEqual
    <3> QED BY <3>1, <3>2
  <2>8. ASSUME NEW i \in 1 .. m, Same(x, qs[i])
        PROVE  i - 1 \in Query /\ fPrime[i - 1] = t[j]
    <3>1. qs[i] \in Field
      BY <2>6
    <3>2. x = qs[i]
      BY <2>2, <2>8, <3>1, SameIsEqual
    <3> QED BY <2>2, <2>6, <3>2
  <2>9. ASSUME NEW i \in Query, fPrime[i] = t[j]
        PROVE  i + 1 \in 1 .. m /\ Same(x, qs[i + 1])
    <3>1. i + 1 \in 1 .. m /\ (i + 1) - 1 = i
      BY <1>2 DEF Query
    <3>2. qs[i + 1] = x
      BY <1>6, <2>2, <2>9, <3>1
    <3> QED BY <2>4, <3>1, <3>2, SameItself
  <2>10. v = 0 <=> \E i \in Query : fPrime[i] = t[j]
    BY <2>5, <2>7, <2>8, <2>9
  <2> QED BY <2>10 DEF v, l
<1>12. ASSUME NEW j \in Row
       PROVE  (\E i \in Query : fPrime[i] = t[j]) <=> \E i \in Query : f[i] = t[j]
  <2>1. PICK p : Permutation(p, m) /\ \A i \in 0 .. m-1 : fPrime[i] = f[p[i]]
    BY <1>2 DEF Permuted
  <2>2. \A i \in Query : p[i] \in Query /\ fPrime[i] = f[p[i]]
    BY <2>1 DEF Permutation, Query
  <2>3. \A y \in Query : \E i \in Query : p[i] = y
    BY <2>1 DEF Permutation, Query
  <2> QED BY <2>2, <2>3
<1>13. ASSUME NEW j \in Row
       PROVE  (unused'[j] = 1) <=> \A i \in DOMAIN f : f[i] # t[j]
  <2>1. unused'[j] = Bit(values[j + 1] # 0)
    BY <1>1
  <2>2. unused'[j] = 1 <=> values[j + 1] # 0
    BY <2>1 DEF Bit
  <2> QED BY <1>2, <1>11, <1>12, <2>2
<1>14. f' = f /\ t' = t /\ Row' = Row
  BY <1>1, ArgumentsKept
<1> QED BY <1>13, <1>14 DEF UnusedAreUnasked

LEMMA UnusedKeptUnasked ==
    ASSUME IInv, UnusedAreUnasked, [Next]_vars
    PROVE  UnusedAreUnasked'
<1>1. CASE FindUnused
  BY <1>1, FindUnusedFinds
<1>2. ASSUME input' = input, unused' = unused PROVE UnusedAreUnasked'
  <2>1. f' = f /\ t' = t /\ Row' = Row
    BY <1>2, ArgumentsKept
  <2> QED BY <1>2, <2>1 DEF UnusedAreUnasked
<1>3. CASE Reject \/ SortQueries \/ Indicate
  BY <1>2, <1>3 DEF Reject, SortQueries, Indicate, work
<1>4. CASE CompactUnused \/ CompactUnfilled \/ SortWrites \/ Construct \/ Pad
  BY <1>2, <1>4 DEF CompactUnused, CompactUnfilled, SortWrites, Construct, Pad
<1>5. CASE UNCHANGED vars
  BY <1>2, <1>5 DEF vars, work
<1> QED BY <1>1, <1>3, <1>4, <1>5 DEF Next, Terminated

\* The polynomial with the queries as roots, through the subproduct tree, and
\* its values at the table, through Newton's inversion and the evaluation down
\* the table's tree, are zero at exactly the elements that are asked for: for
\* every field, and tables and queries of every length that is accepted.
THEOREM LookupPermutationUnusedAreUnasked ==
    ASSUME PositionsFit
    PROVE  Spec => []UnusedAreUnasked
<1>1. Init => UnusedAreUnasked
  BY DEF Init, UnusedAreUnasked
<1> QED BY <1>1, UnusedKeptUnasked, LookupPermutationInductive, PTL DEF Spec


-----------------------------------------------------------------------------
(* First occurrences and the elements that are asked for.                  *)

Firsts == {i \in Row : fDouble[i] = 1}
Asked == {j \in Row : unused[j] = 0}

\* Queries in order are different at different first occurrences.
LEMMA FirstsDiffer ==
    ASSUME IInv, pc \notin BeforeQueries, NEW i \in Query, NEW k \in Query,
           First(i), First(k), fPrime[i] = fPrime[k]
    PROVE  i = k
<1>1. /\ fPrime \in [Query -> Field]
      /\ \A x, y \in Query : x < y => fPrime[x] <= fPrime[y]
  BY DEF IInv, QueriesOK
<1>2. m \in Nat /\ Field \in SUBSET Nat
  BY ArraysAre, ModulusIs DEF IInv
<1>3. ASSUME NEW a \in Query, NEW b \in Query, First(b), fPrime[a] = fPrime[b], a < b
      PROVE  FALSE
  <2>1. b # 0 /\ b - 1 \in Query /\ b - 1 < b /\ a <= b - 1
    BY <1>2, <1>3 DEF Query
  <2>2. fPrime[b - 1] # fPrime[b]
    BY <1>3, <2>1 DEF First
  <2>3. fPrime[b - 1] <= fPrime[b]
    BY <1>1, <2>1
  <2>4. a = b - 1 \/ a < b - 1
    BY <1>2, <2>1 DEF Query
  <2>5. fPrime[a] <= fPrime[b - 1] \/ a = b - 1
    BY <1>1, <2>1, <2>4
  <2>6. fPrime[a] \in Nat /\ fPrime[b] \in Nat /\ fPrime[b - 1] \in Nat
    BY <1>1, <1>2, <2>1
  <2> QED BY <1>3, <2>2, <2>3, <2>5, <2>6
<1>4. ~ (i < k) /\ ~ (k < i)
  BY <1>3
<1> QED BY <1>2, <1>4 DEF Query

\* Every value that is asked for occurs first somewhere.
LEMMA FirstExists ==
    ASSUME IInv, pc \notin BeforeQueries, NEW x \in Query
    PROVE  \E i \in Query : First(i) /\ fPrime[i] = fPrime[x]
<1> DEFINE S == {i \in Query : fPrime[i] = fPrime[x]}
<1>1. m \in Nat
  BY ArraysAre DEF IInv
<1>2. S \in SUBSET Nat /\ S # {}
  BY <1>1 DEF Query
<1> HIDE DEF S
<1>3. PICK i \in S : \A y \in S : i <= y
  BY <1>2, LeastNatural
<1>4. i \in Query /\ fPrime[i] = fPrime[x]
  BY <1>3 DEF S
<1>5. First(i)
  <2>1. ASSUME i # 0, fPrime[i] = fPrime[i - 1]
        PROVE  FALSE
    <3>1. i - 1 \in Query /\ ~ (i <= i - 1)
      BY <1>1, <1>4, <2>1 DEF Query
    <3>2. i - 1 \in S
      BY <1>4, <2>1, <3>1 DEF S
    <3> QED BY <1>3, <3>1, <3>2
  <2> QED BY <2>1 DEF First
<1> QED BY <1>4, <1>5

\* Of the tables that the callers see to, each is one of distinct elements.
LEMMA TablesAreDistinct == TablesDistinct /\ IInv => Distinct
BY ArraysAre DEF TablesDistinct, Distinct, IInv, t

\* The first occurrences pair off with the elements that are asked for.
LEMMA FirstsAsk ==
    ASSUME Distinct, QueriesInTable, IInv, UnusedAreUnasked, pc \notin BeforeUnused
    PROVE  \E h : Pairing(h, Firsts, Asked) /\ \A i \in Firsts : t[h[i]] = fPrime[i]
<1>1. /\ n \in Nat /\ m \in Nat /\ 2 <= m /\ m <= n
      /\ \A i \in Query : i \in Row
      /\ \A i \in Row : i < m => i \in Query
      /\ pc \notin BeforeQueries /\ pc \notin BeforeFirsts
  BY QueryRows, Stages
<1>2. input \in Inputs /\ DOMAIN t = Row /\ DOMAIN f = Query
  BY ArraysAre DEF IInv
<1>3. /\ fDouble \in [Row -> 0 .. 1]
      /\ \A i \in Row : fDouble[i] = 1 <=> i < m /\ First(i)
      /\ unused \in [Row -> 0 .. 1]
  BY <1>1 DEF IInv, FirstsOK, UnusedOK
<1>4. \A j \in Row : unused[j] = 1 <=> \A i \in Query : f[i] # t[j]
  <2>1. 0 \in DOMAIN unused
    BY <1>1, <1>3 DEF Row
  <2>2. unused # None
    BY <2>1 DEF None
  <2> QED BY <1>2, <2>2 DEF UnusedAreUnasked
<1>5. PICK p : Permutation(p, m) /\ \A i \in 0 .. m-1 : fPrime[i] = f[p[i]]
  BY <1>1 DEF IInv, QueriesOK, Permuted
<1>6. \A i \in Query : p[i] \in Query /\ fPrime[i] = f[p[i]]
  BY <1>5 DEF Permutation, Query
<1>7. \A i \in Firsts : i \in Query /\ First(i)
  BY <1>1, <1>3 DEF Firsts
<1>8. \A i \in Query : \E j \in Row : t[j] = fPrime[i]
  <2> SUFFICES ASSUME NEW i \in Query
               PROVE  \E j \in Row : t[j] = fPrime[i]
    OBVIOUS
  <2>1. p[i] \in DOMAIN input.f /\ fPrime[i] = input.f[p[i]] /\ DOMAIN input.t = Row
    BY <1>2, <1>6 DEF t, f
  <2>2. \E j \in DOMAIN input.t : input.t[j] = input.f[p[i]]
    BY <1>2, <2>1 DEF QueriesInTable
  <2> QED BY <2>1, <2>2 DEF t
<1> DEFINE h == [i \in Firsts |-> CHOOSE j \in Row : t[j] = fPrime[i]]
<1>9. \A i \in Firsts : h[i] \in Row /\ t[h[i]] = fPrime[i]
  BY <1>7, <1>8
<1>10. DOMAIN h = Firsts /\ h = [i \in Firsts |-> h[i]]
  OBVIOUS
<1> HIDE DEF h
<1>11. \A i \in Firsts : h[i] \in Asked
  <2> SUFFICES ASSUME NEW i \in Firsts
               PROVE  h[i] \in Asked
    OBVIOUS
  <2>1. h[i] \in Row /\ t[h[i]] = f[p[i]] /\ p[i] \in Query
    BY <1>6, <1>7, <1>9
  <2>2. unused[h[i]] # 1
    BY <1>4, <2>1
  <2>3. unused[h[i]] \in 0 .. 1
    BY <1>3, <2>1
  <2> QED BY <2>1, <2>2, <2>3 DEF Asked
<1>12. \A x, y \in Firsts : h[x] = h[y] => x = y
  <2> SUFFICES ASSUME NEW x \in Firsts, NEW y \in Firsts, h[x] = h[y]
               PROVE  x = y
    OBVIOUS
  <2>1. x \in Query /\ y \in Query /\ First(x) /\ First(y) /\ fPrime[x] = fPrime[y]
    BY <1>7, <1>9
  <2> QED BY <1>1, <2>1, FirstsDiffer
<1>13. ASSUME NEW j \in Asked
       PROVE  \E x \in Firsts : h[x] = j
  <2>1. j \in Row /\ unused[j] # 1
    BY DEF Asked
  <2>2. PICK i \in Query : f[i] = t[j]
    BY <1>4, <2>1
  <2>3. PICK x \in Query : p[x] = i
    BY <1>5 DEF Permutation, Query
  <2>4. fPrime[x] = t[j]
    BY <1>6, <2>2, <2>3
  <2>5. PICK y \in Query : First(y) /\ fPrime[y] = t[j]
    BY <1>1, <2>4, FirstExists
  <2>6. y \in Firsts
    <3>1. y \in Row /\ y < m
      BY <1>1 DEF Query
    <3> QED BY <1>3, <2>5, <3>1 DEF Firsts
  <2>7. h[y] \in Row /\ t[h[y]] = t[j]
    BY <1>9, <2>5, <2>6
  <2>8. h[y] = j
    BY <2>1, <2>7 DEF Distinct
  <2> QED BY <2>6, <2>8
<1>14. h \in [Firsts -> Asked]
  BY <1>10, <1>11
<1>15. Pairing(h, Firsts, Asked)
  BY <1>12, <1>13, <1>14 DEF Pairing
<1> QED BY <1>9, <1>15

\* A permutation leaves a set its size.
LEMMA PermutationCounts ==
    ASSUME NEW len \in Nat, NEW q, Permutation(q, len), NEW S \in SUBSET (0 .. len-1)
    PROVE  LET A == {i \in 0 .. len-1 : q[i] \in S}
           IN  IsFiniteSet(A) /\ Cardinality(A) = Cardinality(S)
<1> DEFINE A == {i \in 0 .. len-1 : q[i] \in S}
           g == [i \in A |-> q[i]]
<1>1. IsFiniteSet(A)
  <2>1. IsFiniteSet(0 .. len-1)
    BY FS_Interval
  <2> QED BY <2>1, FS_Subset
<1>2. \A y \in S : \E x \in A : q[x] = y
  BY DEF Permutation
<1>3. Pairing(g, A, S)
  BY <1>2 DEF Pairing, Permutation
<1> HIDE DEF A, g
<1>4. Cardinality(A) = Cardinality(S)
  BY <1>1, <1>3, PairingCounts
<1> QED BY <1>1, <1>4 DEF A

\* Two sets of numbers that are closed downwards are the same if they have as
\* many elements.
LEMMA SegmentsSame ==
    ASSUME NEW len \in Nat, NEW A \in SUBSET (0 .. len-1), NEW B \in SUBSET (0 .. len-1),
           \A x, y \in 0 .. len-1 : x < y /\ y \in A => x \in A,
           \A x, y \in 0 .. len-1 : x < y /\ y \in B => x \in B,
           Cardinality(A) = Cardinality(B)
    PROVE  A = B
<1>1. IsFiniteSet(A) /\ IsFiniteSet(B)
  <2>1. IsFiniteSet(0 .. len-1)
    BY FS_Interval
  <2> QED BY <2>1, FS_Subset, Zenon
<1>2. A \subseteq B \/ B \subseteq A
  <2> SUFFICES ASSUME NEW a \in A, a \notin B, NEW b \in B
               PROVE  b \in A
    OBVIOUS
  <2>1. a \in 0 .. len-1 /\ b \in 0 .. len-1
    OBVIOUS
  <2>2. ~ (a < b)
    BY <2>1
  <2>3. b = a \/ b < a
    BY <2>1, <2>2
  <2> QED BY <2>1, <2>3
<1>3. CASE A \subseteq B
  BY <1>1, <1>3, FS_Subset, Zenon
<1>4. CASE B \subseteq A
  BY <1>1, <1>4, FS_Subset, Zenon
<1> QED BY <1>2, <1>3, <1>4

\* Sorted by such keys, the records with indicator 1 are in front.
LEMMA FlagsInFront ==
    ASSUME NEW b \in 0 .. 1, NEW c \in 0 .. 1,
           NEW x \in Nat, x < Multiplier, NEW y \in Nat, y < Multiplier,
           Keyed(b, x) <= Keyed(c, y), c = 1
    PROVE  b = 1
<1>1. Multiplier \in Nat
  BY KeyAssumption
<1>2. b = 0 => Keyed(b, x) = Multiplier + x
  BY KeyedIs
<1>3. c = 1 => Keyed(c, y) = y
  BY KeyedIs
<1> QED BY <1>1, <1>2, <1>3


LEMMA CompactionsMeet ==
    ASSUME PositionsFit, Distinct, QueriesInTable,
           IInv, UnusedAreUnasked, pc \notin BeforePositions
    PROVE  \A i \in Row : unfilledRec[i].flag = unusedRec[i].flag
<1>1. /\ n \in Nat /\ \A r \in Row : r \in Nat /\ r < Multiplier
      /\ pc \notin BeforeFirsts /\ pc \notin BeforeUnused /\ pc \notin BeforeValues
  BY RowsFit, Stages
<1>2. fDouble \in [Row -> 0 .. 1] /\ unused \in [Row -> 0 .. 1]
  BY <1>1 DEF IInv, FirstsOK, UnusedOK
<1>3. PICK h : Pairing(h, Firsts, Asked)
  BY <1>1, FirstsAsk
<1>4. IsFiniteSet(Row) /\ Firsts \in SUBSET Row /\ Asked \in SUBSET Row
  BY ArraysAre DEF IInv, Firsts, Asked
<1>5. Cardinality(Row \ Firsts) = Cardinality(Row \ Asked)
  BY <1>3, <1>4, PairingFills
<1>6. PICK q : /\ Permutation(q, n)
               /\ \A i \in Row : /\ q[i] \in Row
                                 /\ unfilledRec[i].flag = 1 - fDouble[q[i]]
                                 /\ unfilledRec[i].key = Keyed(1 - fDouble[q[i]], q[i])
  BY PositionRecords
<1>7. PICK r : /\ Permutation(r, n)
               /\ \A i \in Row : /\ r[i] \in Row
                                 /\ unusedRec[i].flag = unused[r[i]]
                                 /\ unusedRec[i].key = Keyed(unused[r[i]], r[i])
  BY <1>1, ValueRecords
<1> DEFINE A == {i \in Row : unfilledRec[i].flag = 1}
           B == {i \in Row : unusedRec[i].flag = 1}
<1>8. Cardinality(A) = Cardinality(Row \ Firsts)
  <2>1. \A i \in Row : unfilledRec[i].flag = 1 <=> q[i] \in Row \ Firsts
    <3> SUFFICES ASSUME NEW i \in Row
                 PROVE  unfilledRec[i].flag = 1 <=> q[i] \in Row \ Firsts
      OBVIOUS
    <3>1. q[i] \in Row /\ unfilledRec[i].flag = 1 - fDouble[q[i]]
      BY <1>6
    <3>2. fDouble[q[i]] = 0 \/ fDouble[q[i]] = 1
      BY <1>2, <3>1
    <3>3. q[i] \in Row \ Firsts <=> fDouble[q[i]] # 1
      BY <3>1 DEF Firsts
    <3> QED BY <3>1, <3>2, <3>3
  <2>2. A = {i \in 0 .. n-1 : q[i] \in Row \ Firsts}
    BY <2>1 DEF Row
  <2>3. Row \ Firsts \in SUBSET (0 .. n-1)
    BY DEF Row
  <2>4. Cardinality({i \in 0 .. n-1 : q[i] \in Row \ Firsts}) = Cardinality(Row \ Firsts)
    <3>1. n \in Nat /\ Permutation(q, n)
      BY <1>1, <1>6
    <3> DEFINE S == Row \ Firsts
    <3>2. S \in SUBSET (0 .. n-1)
      BY <2>3
    <3> HIDE DEF S
    <3>3. Cardinality({i \in 0 .. n-1 : q[i] \in S}) = Cardinality(S)
      BY <3>1, <3>2, PermutationCounts
    <3> QED BY <3>3 DEF S
  <2> HIDE DEF A
  <2> QED BY <2>2, <2>4, Zenon
<1>9. Cardinality(B) = Cardinality(Row \ Asked)
  <2>1. \A i \in Row : unusedRec[i].flag = 1 <=> r[i] \in Row \ Asked
    <3> SUFFICES ASSUME NEW i \in Row
                 PROVE  unusedRec[i].flag = 1 <=> r[i] \in Row \ Asked
      OBVIOUS
    <3>1. r[i] \in Row /\ unusedRec[i].flag = unused[r[i]]
      BY <1>7
    <3>2. unused[r[i]] = 0 \/ unused[r[i]] = 1
      BY <1>2, <3>1
    <3>3. r[i] \in Row \ Asked <=> unused[r[i]] # 0
      BY <3>1 DEF Asked
    <3> QED BY <3>1, <3>2, <3>3
  <2>2. B = {i \in 0 .. n-1 : r[i] \in Row \ Asked}
    BY <2>1 DEF Row
  <2>3. Row \ Asked \in SUBSET (0 .. n-1)
    BY DEF Row
  <2>4. Cardinality({i \in 0 .. n-1 : r[i] \in Row \ Asked}) = Cardinality(Row \ Asked)
    <3>1. n \in Nat /\ Permutation(r, n)
      BY <1>1, <1>7
    <3> DEFINE S == Row \ Asked
    <3>2. S \in SUBSET (0 .. n-1)
      BY <2>3
    <3> HIDE DEF S
    <3>3. Cardinality({i \in 0 .. n-1 : r[i] \in S}) = Cardinality(S)
      BY <3>1, <3>2, PermutationCounts
    <3> QED BY <3>3 DEF S
  <2> HIDE DEF B
  <2> QED BY <2>2, <2>4, Zenon
<1>10. ASSUME NEW x \in 0 .. n-1, NEW y \in 0 .. n-1, x < y, y \in A
       PROVE  x \in A
  <2>1. unfilledRec[x].key <= unfilledRec[y].key /\ x \in Row /\ y \in Row
    BY <1>10 DEF IInv, PositionsOK, ByKey, Row
  <2> DEFINE b == 1 - fDouble[q[x]]
             c == 1 - fDouble[q[y]]
  <2>2. q[x] \in Row /\ q[y] \in Row
    BY <1>6, <2>1
  <2>3. fDouble[q[x]] \in 0 .. 1 /\ fDouble[q[y]] \in 0 .. 1
    BY <1>2, <2>2
  <2>4. b \in 0 .. 1 /\ c \in 0 .. 1
    BY <2>3
  <2>5. /\ unfilledRec[x].key = Keyed(b, q[x]) /\ unfilledRec[y].key = Keyed(c, q[y])
        /\ unfilledRec[x].flag = b /\ unfilledRec[y].flag = c /\ c = 1
    BY <1>6, <1>10, <2>1
  <2> HIDE DEF b, c
  <2>6. b = 1
    BY <1>1, <2>1, <2>2, <2>4, <2>5, FlagsInFront
  <2> QED BY <2>1, <2>5, <2>6
<1>11. ASSUME NEW x \in 0 .. n-1, NEW y \in 0 .. n-1, x < y, y \in B
       PROVE  x \in B
  <2>1. unusedRec[x].key <= unusedRec[y].key /\ x \in Row /\ y \in Row
    BY <1>1, <1>11 DEF IInv, ValuesOK, ByKey, Row
  <2> DEFINE b == unused[r[x]]
             c == unused[r[y]]
  <2>2. r[x] \in Row /\ r[y] \in Row
    BY <1>7, <2>1
  <2>3. b \in 0 .. 1 /\ c \in 0 .. 1
    BY <1>2, <2>2
  <2>4. /\ unusedRec[x].key = Keyed(b, r[x]) /\ unusedRec[y].key = Keyed(c, r[y])
        /\ unusedRec[x].flag = b /\ unusedRec[y].flag = c /\ c = 1
    BY <1>7, <1>11, <2>1
  <2> HIDE DEF b, c
  <2>5. b = 1
    BY <1>1, <2>1, <2>2, <2>3, <2>4, FlagsInFront
  <2> QED BY <2>1, <2>4, <2>5
<1>12. A \in SUBSET (0 .. n-1) /\ B \in SUBSET (0 .. n-1)
  BY DEF Row
<1>13. A = B
  <2>1. Cardinality(A) = Cardinality(B)
    BY <1>5, <1>8, <1>9
  <2> HIDE DEF A, B
  <2> QED BY <1>1, <1>10, <1>11, <1>12, <2>1, SegmentsSame
<1>14. ASSUME NEW i \in Row
       PROVE  unfilledRec[i].flag = unusedRec[i].flag
  <2>1. unfilledRec[i].flag = 1 <=> unusedRec[i].flag = 1
    <3>1. i \in A <=> i \in B
      BY <1>13
    <3> QED BY <3>1
  <2>2. fDouble[q[i]] \in 0 .. 1 /\ unused[r[i]] \in 0 .. 1
    BY <1>2, <1>6, <1>7
  <2>3. unfilledRec[i].flag = 1 - fDouble[q[i]] /\ unusedRec[i].flag = unused[r[i]]
    BY <1>6, <1>7
  <2>4. unfilledRec[i].flag \in {0, 1} /\ unusedRec[i].flag \in {0, 1}
    BY <2>2, <2>3
  <2> QED BY <2>1, <2>4
<1> QED BY <1>14

\* The two compactions meet: there are as many unused values as unfilled
\* positions, whatever the table of distinct elements and the queries to it.
THEOREM LookupPermutationValuesMeet ==
    ASSUME PositionsFit, TablesDistinct, QueriesInTable
    PROVE  Spec => []ValuesMeetPositions
<1>1. IInv /\ UnusedAreUnasked => ValuesMeetPositions
  <2> SUFFICES ASSUME IInv, UnusedAreUnasked, pc = "write"
               PROVE  \A i \in Row : unfilledRec[i].flag = unusedRec[i].flag
    BY DEF ValuesMeetPositions
  <2>1. pc \notin BeforePositions
    BY Stages
  <2> QED BY <2>1, CompactionsMeet, TablesAreDistinct
<1> QED BY <1>1, LookupPermutationInductive, LookupPermutationUnusedAreUnasked, PTL

-----------------------------------------------------------------------------
(* What is returned.                                                       *)

\* Where the value of a row of t' comes from: a first occurrence has its
\* element of the table, and another row an element nobody asks for.
LEMMA TableRearranged ==
    ASSUME PositionsFit, Distinct, QueriesInTable,
           IInv, UnusedAreUnasked, pc \notin BeforeTable
    PROVE  Permuted(t, tPrime, n)
<1>1. /\ n \in Nat /\ m \in Nat
      /\ pc \notin BeforeFirsts /\ pc \notin BeforeUnused /\ pc \notin BeforeValues
      /\ pc \notin BeforePositions /\ pc \notin BeforeWrites
  BY RowsFit, Stages
<1>2. fDouble \in [Row -> 0 .. 1] /\ unused \in [Row -> 0 .. 1]
  BY <1>1 DEF IInv, FirstsOK, UnusedOK
<1>3. PICK h : Pairing(h, Firsts, Asked) /\ \A i \in Firsts : t[h[i]] = fPrime[i]
  BY <1>1, FirstsAsk
<1>4. PICK p, tr :
        /\ Permutation(p, 2 * n) /\ Targets(tr)
        /\ \A i \in 0 .. 2 * n - 1 : /\ p[i] \in 0 .. 2 * n - 1
                                     /\ writes[i] = AllWrites[p[i]]
        /\ \A i \in 0 .. 2 * n - 1 :
             IF i < n THEN writes[i].flag = 1 /\ writes[i].key = i /\ tr[p[i]] = i
             ELSE writes[i].flag = 0
  BY <1>1, WritesInOrder
<1>5. PICK r : /\ Permutation(r, n)
               /\ \A i \in Row : /\ r[i] \in Row
                                 /\ unusedRec[i].val = t[r[i]]
                                 /\ unusedRec[i].flag = unused[r[i]]
  BY <1>1, ValueRecords
<1>6. \A i \in Row : unfilledRec[i].flag = unusedRec[i].flag
  BY <1>1, CompactionsMeet
<1>7. \A i \in Row : tPrime[i] = writes[i].val
  BY <1>1 DEF IInv, TableOK
<1>8. ASSUME NEW i \in Row, i \notin Firsts
      PROVE  /\ p[i] \in Row /\ i \in 0 .. 2 * n - 1
             /\ tPrime[i] = t[r[p[i]]]
             /\ r[p[i]] \in Row \ Asked
  <2>1. i \in 0 .. 2 * n - 1 /\ i < n
    BY <1>1 DEF Row
  <2> DEFINE a == p[i]
  <2>2. /\ a \in 0 .. 2 * n - 1 /\ writes[i] = AllWrites[a]
        /\ AllWrites[a].flag = 1 /\ tr[a] = i
    BY <1>4, <2>1
  <2> HIDE DEF a
  <2>3. IF a < n THEN fDouble[tr[a]] = 0 ELSE tr[a] = a - n /\ fDouble[tr[a]] = 1
    BY <1>4, <2>2 DEF Targets
  <2>4. a < n
    BY <1>8, <2>2, <2>3 DEF Firsts
  <2>5. a \in Row /\ AllWrites[a].val = unusedRec[a].val /\ AllWrites[a].flag = unfilledRec[a].flag
    BY <1>1, <2>2, <2>4, WritesAre
  <2>6. r[a] \in Row /\ unusedRec[a].val = t[r[a]] /\ unused[r[a]] = 1
    BY <1>5, <1>6, <2>2, <2>5
  <2>7. r[a] \in Row \ Asked
    BY <2>6 DEF Asked
  <2>8. tPrime[i] = t[r[a]]
    BY <1>7, <2>2, <2>5, <2>6
  <2> QED BY <2>1, <2>5, <2>7, <2>8 DEF a
<1>9. ASSUME NEW i \in Row, i \in Firsts
      PROVE  tPrime[i] = t[h[i]] /\ h[i] \in Asked
  <2>1. i \in Query /\ First(i)
    BY <1>1, <1>9, QueryRows, Stages DEF Firsts, IInv, FirstsOK
  <2>2. tPrime[i] = fPrime[i]
    BY <2>1, FirstsWritten
  <2> QED BY <1>3, <1>9, <2>2 DEF Pairing
<1> DEFINE g == [i \in Row |-> IF i \in Firsts THEN h[i] ELSE r[p[i]]]
<1>10. \A i \in Row : g[i] = IF i \in Firsts THEN h[i] ELSE r[p[i]]
  OBVIOUS
<1>11. ASSUME NEW i \in Row
       PROVE  g[i] \in Row /\ tPrime[i] = t[g[i]] /\ (g[i] \in Asked <=> i \in Firsts)
  <2>1. CASE i \in Firsts
    BY <1>9, <1>10, <2>1 DEF Asked
  <2>2. CASE i \notin Firsts
    BY <1>8, <1>10, <2>2
  <2> QED BY <2>1, <2>2
<1>12. g \in [Row -> Row]
  BY <1>11
<1> HIDE DEF g
<1>13. ASSUME NEW x \in Row, NEW y \in Row, g[x] = g[y]
       PROVE  x = y
  <2>1. x \in Firsts <=> y \in Firsts
    BY <1>11, <1>13
  <2>2. CASE x \in Firsts
    BY <1>3, <1>10, <1>13, <2>1, <2>2 DEF Pairing
  <2>3. CASE x \notin Firsts
    <3>1. /\ p[x] \in Row /\ p[y] \in Row /\ r[p[x]] = r[p[y]]
          /\ x \in 0 .. 2 * n - 1 /\ y \in 0 .. 2 * n - 1
      BY <1>8, <1>10, <1>13, <2>1, <2>3
    <3>2. p[x] = p[y]
      BY <1>5, <3>1 DEF Permutation, Row
    <3> QED BY <1>4, <3>1, <3>2 DEF Permutation
  <2> QED BY <2>2, <2>3
<1>14. \A y \in Row : \E x \in Row : g[x] = y
  <2> DEFINE B == {g[x] : x \in Row}
  <2>1. B \in SUBSET Row /\ \A y \in B : \E x \in Row : g[x] = y
    BY <1>11
  <2>2. g \in [Row -> B]
    BY <1>12
  <2> HIDE DEF B
  <2>3. Pairing(g, Row, B)
    BY <1>13, <2>1, <2>2 DEF Pairing
  <2>4. IsFiniteSet(Row) /\ Row \in SUBSET Row
    BY ArraysAre DEF IInv
  <2>5. B = Row
    BY <2>1, <2>3, <2>4, PairingFills
  <2> QED BY <2>1, <2>5
<1>15. Permutation(g, n)
  BY <1>12, <1>13, <1>14 DEF Permutation, Row
<1>16. \A i \in 0 .. n-1 : tPrime[i] = t[g[i]]
  BY <1>11 DEF Row
<1> QED BY <1>15, <1>16 DEF Permuted

\* What a state that has returned shows.
LookupReturned ==
    pc \in {"returned", "padded"} => Abstract!Permutes(input, [t |-> tPrime, f |-> fPrime])

LEMMA LookupReturnedIs ==
    ASSUME PositionsFit, TablesDistinct, QueriesInTable
    PROVE  IInv /\ UnusedAreUnasked => LookupReturned
<1> SUFFICES ASSUME IInv, UnusedAreUnasked, pc \in {"returned", "padded"}
             PROVE  Abstract!Permutes(input, [t |-> tPrime, f |-> fPrime])
  BY DEF LookupReturned
<1>1. pc \notin BeforeTable /\ pc \notin BeforeQueries
  BY Stages
<1>2. /\ n \in Nat /\ m \in Nat
      /\ DOMAIN t = Row /\ DOMAIN f = Query
      /\ DOMAIN tPrime = Row /\ DOMAIN fPrime = Query
  BY <1>1, ArraysAre DEF IInv, TableOK, QueriesOK
<1>3. Abstract!Rearranged(t, tPrime)
  <2>1. Permuted(t, tPrime, n)
    BY <1>1, TableRearranged, TablesAreDistinct
  <2> QED BY <1>2, <2>1, PermutedRearranged DEF Row
<1>4. Abstract!Rearranged(f, fPrime)
  <2>1. Permuted(f, fPrime, m)
    BY <1>1 DEF IInv, QueriesOK
  <2> QED BY <1>2, <2>1, PermutedRearranged DEF Query
<1>5. \A i \in DOMAIN fPrime : Abstract!FirstOccurrence(fPrime, i) => fPrime[i] = tPrime[i]
  BY <1>1, <1>2, FirstsWritten DEF Abstract!FirstOccurrence, First
<1> DEFINE out == [t |-> tPrime, f |-> fPrime]
<1>6. out.t = tPrime /\ out.f = fPrime
  OBVIOUS
<1> HIDE DEF out
<1>7. Abstract!Permutes(input, out)
  BY <1>3, <1>4, <1>5, <1>6 DEF Abstract!Permutes, t, f
<1> QED BY <1>7 DEF out

\* The lookup permutation implements Lookup: it panics for exactly the sizes
\* that do not fit, and what it returns is the table and the queries, each
\* rearranged, with every query at the row of its first occurrence, and the
\* padding leaves that.
THEOREM LookupPermutationPromised ==
    ASSUME PositionsFit, TablesDistinct, QueriesInTable
    PROVE  Spec => Promised
<1>1. Init => Abstract!LInit
  BY DEF Init, Abstract!LInit
<1>2. IInv => (Abstract!SizesFit(input.t, input.f) <=>
                 m <= n /\ PowerOfTwo(m) /\ PowerOfTwo(n) /\ Sortable(m))
  <2> SUFFICES ASSUME IInv
               PROVE  Abstract!SizesFit(input.t, input.f) <=>
                        m <= n /\ PowerOfTwo(m) /\ PowerOfTwo(n) /\ Sortable(m)
    OBVIOUS
  <2>1. Abstract!Length(input.t) = n /\ Abstract!Length(input.f) = m
    BY LookupCounts DEF Abstract!Length, n, m, t, f
  <2>2. \A x : Abstract!Sortable(x) <=> x >= 2 /\ PowerOfTwo(x)
    BY DEF Abstract!Sortable, Abstract!PowerOfTwo, PowerOfTwo
  <2>3. n \in Nat /\ m \in Nat
    BY ArraysAre DEF IInv
  <2>4. Abstract!SizesFit(input.t, input.f) <=>
          (n >= 2 /\ PowerOfTwo(n)) /\ (m >= 2 /\ PowerOfTwo(m)) /\ m <= n
    BY <2>1, <2>2, Zenon DEF Abstract!SizesFit
  <2>5. Sortable(m) <=> m >= 2 /\ PowerOfTwo(m)
    BY DEF Sortable
  <2> QED BY <2>3, <2>4, <2>5
<1>3. IInv /\ UnusedAreUnasked => LookupReturned
  BY LookupReturnedIs
<1>4. IInv /\ LookupReturned' /\ [Next]_vars => [Abstract!LNext]_(Abstract!lvars)
  <2> SUFFICES ASSUME IInv, LookupReturned', [Next]_vars
               PROVE  [Abstract!LNext]_(Abstract!lvars)
    OBVIOUS
  <2>1. CASE Reject
    BY <1>2, <2>1 DEF Reject, Abstract!LNext, Abstract!LReject
  <2>2. CASE Construct
    <3>1. input' = input /\ pc = "construct" /\ pc' = "returned" /\ fPrime' = fPrime
      BY <2>2 DEF Construct
    <3>2. Abstract!SizesFit(input.t, input.f)
      <4>1. pc \notin BeforeQueries
        BY <3>1, Stages
      <4>2. m <= n /\ PowerOfTwo(n) /\ Sortable(m)
        BY <4>1 DEF IInv, QueriesOK
      <4> QED BY <1>2, <4>2 DEF Sortable
    <3>3. Abstract!Permutes(input', [t |-> tPrime', f |-> fPrime'])
      BY <3>1 DEF LookupReturned
    <3> QED BY <3>1, <3>2, <3>3 DEF Abstract!LNext, Abstract!LReturn
  <2>3. CASE SortQueries \/ Indicate \/ FindUnused \/ CompactUnused \/ CompactUnfilled \/ SortWrites
    <3>1. /\ input' = input
          /\ pc \in {"sort", "indicate", "membership", "values", "positions", "write"}
          /\ pc' \in {"indicate", "membership", "values", "positions", "write", "construct"}
      BY <2>3 DEF SortQueries, Indicate, FindUnused, CompactUnused, CompactUnfilled, SortWrites
    <3> QED BY <3>1 DEF Abstract!lvars
  <2>4. CASE Pad
    <3>1. /\ input' = input /\ tPrime' = tPrime /\ fPrime' = fPrime
          /\ pc = "returned" /\ pc' = "padded"
      BY <2>4 DEF Pad
    <3> QED BY <3>1 DEF Abstract!lvars
  <2>5. CASE UNCHANGED vars
    BY <2>5 DEF vars, work, Abstract!lvars
  <2> QED BY <2>1, <2>2, <2>3, <2>4, <2>5 DEF Next, Terminated
<1> QED BY <1>1, <1>3, <1>4, LookupPermutationInductive, LookupPermutationUnusedAreUnasked, PTL
        DEF Spec, Promised, Abstract!LSpec

-----------------------------------------------------------------------------
(* The order in which the other rows are filled.                           *)

\* The write for a row that no first occurrence takes is that of the record
\* with its position, and the unused value beside it.
GapsWritten(p, q, r) ==
    /\ Permutation(q, n) /\ Permutation(r, n)
    /\ \A i \in Row \ Firsts : p[i] \in Row /\ q[p[i]] = i /\ tPrime[i] = t[r[p[i]]]
    /\ \A a \in Row : /\ q[a] \in Row /\ r[a] \in Row
                      /\ q[a] \notin Firsts <=> r[a] \notin Asked
                      /\ unfilledRec[a].key = Keyed(1 - fDouble[q[a]], q[a])
                      /\ unusedRec[a].key = Keyed(unused[r[a]], r[a])

LEMMA GapWrites ==
    ASSUME PositionsFit, Distinct, QueriesInTable,
           IInv, UnusedAreUnasked, pc \notin BeforeTable
    PROVE  \E p, q, r : GapsWritten(p, q, r)
<1>1. /\ n \in Nat /\ \A r \in Row : r \in Nat /\ r < Multiplier
      /\ pc \notin BeforeFirsts /\ pc \notin BeforeUnused /\ pc \notin BeforeValues
      /\ pc \notin BeforePositions /\ pc \notin BeforeWrites
  BY RowsFit, Stages
<1>2. fDouble \in [Row -> 0 .. 1] /\ unused \in [Row -> 0 .. 1]
  BY <1>1 DEF IInv, FirstsOK, UnusedOK
<1>3. PICK p, tr :
        /\ Targets(tr)
        /\ \A i \in 0 .. 2 * n - 1 : /\ p[i] \in 0 .. 2 * n - 1
                                     /\ writes[i] = AllWrites[p[i]]
        /\ \A i \in 0 .. 2 * n - 1 :
             IF i < n THEN writes[i].flag = 1 /\ writes[i].key = i /\ tr[p[i]] = i
             ELSE writes[i].flag = 0
  BY <1>1, WritesInOrder
<1>4. PICK q : /\ Permutation(q, n)
               /\ \A i \in Row : /\ q[i] \in Row
                                 /\ unfilledRec[i].val = q[i]
                                 /\ unfilledRec[i].flag = 1 - fDouble[q[i]]
                                 /\ unfilledRec[i].key = Keyed(1 - fDouble[q[i]], q[i])
  BY <1>1, PositionRecords
<1>5. PICK r : /\ Permutation(r, n)
               /\ \A i \in Row : /\ r[i] \in Row
                                 /\ unusedRec[i].val = t[r[i]]
                                 /\ unusedRec[i].flag = unused[r[i]]
                                 /\ unusedRec[i].key = Keyed(unused[r[i]], r[i])
  BY <1>1, ValueRecords
<1>6. \A i \in Row : unfilledRec[i].flag = unusedRec[i].flag
  BY <1>1, CompactionsMeet
<1>7. \A i \in Row : tPrime[i] = writes[i].val
  BY <1>1 DEF IInv, TableOK
<1>8. ASSUME NEW i \in Row \ Firsts
      PROVE  p[i] \in Row /\ q[p[i]] = i /\ tPrime[i] = t[r[p[i]]]
  <2>1. i \in 0 .. 2 * n - 1 /\ i < n /\ i \in Row
    BY <1>1 DEF Row
  <2> DEFINE a == p[i]
  <2>2. /\ a \in 0 .. 2 * n - 1 /\ writes[i] = AllWrites[a]
        /\ AllWrites[a].flag = 1 /\ tr[a] = i
    BY <1>3, <2>1
  <2> HIDE DEF a
  <2>3. IF a < n THEN fDouble[tr[a]] = 0 ELSE tr[a] = a - n /\ fDouble[tr[a]] = 1
    BY <1>3, <2>2 DEF Targets
  <2>4. a < n
    BY <1>8, <2>2, <2>3 DEF Firsts
  <2>5. /\ a \in Row /\ AllWrites[a].val = unusedRec[a].val
        /\ AllWrites[a].key = Keyed(unfilledRec[a].flag, unfilledRec[a].val)
        /\ AllWrites[a].flag = unfilledRec[a].flag
    BY <1>1, <2>2, <2>4, WritesAre
  <2>6. AllWrites[a].key = Keyed(1, tr[a])
    BY <1>3, <2>2 DEF Targets
  <2>7. AllWrites[a].key = Keyed(1, q[a])
    BY <1>4, <2>2, <2>5
  <2>8. q[a] \in Nat /\ q[a] < Multiplier /\ i \in Nat /\ i < Multiplier
    BY <1>1, <1>4, <2>1, <2>5
  <2>9. q[a] = i
    <3>1. Keyed(1, q[a]) = Keyed(1, i) /\ 1 \in 0 .. 1
      BY <2>2, <2>6, <2>7
    <3> QED BY <2>8, <3>1, KeyedDiffers
  <2>10. tPrime[i] = t[r[a]]
    BY <1>5, <1>7, <2>1, <2>2, <2>5
  <2> QED BY <2>5, <2>9, <2>10 DEF a
<1>9. ASSUME NEW a \in Row
      PROVE  q[a] \notin Firsts <=> r[a] \notin Asked
  <2>1. q[a] \in Row /\ r[a] \in Row /\ 1 - fDouble[q[a]] = unused[r[a]]
    BY <1>4, <1>5, <1>6
  <2>2. fDouble[q[a]] \in 0 .. 1 /\ unused[r[a]] \in 0 .. 1
    BY <1>2, <2>1
  <2>3. fDouble[q[a]] # 1 <=> unused[r[a]] # 0
    BY <2>1, <2>2
  <2> QED BY <2>1, <2>3 DEF Firsts, Asked
<1>10. \A a \in Row : /\ q[a] \in Row /\ r[a] \in Row
                      /\ q[a] \notin Firsts <=> r[a] \notin Asked
                      /\ unfilledRec[a].key = Keyed(1 - fDouble[q[a]], q[a])
                      /\ unusedRec[a].key = Keyed(unused[r[a]], r[a])
  BY <1>4, <1>5, <1>9
<1>11. \A i \in Row \ Firsts : p[i] \in Row /\ q[p[i]] = i /\ tPrime[i] = t[r[p[i]]]
  BY <1>8
<1>12. Permutation(q, n) /\ Permutation(r, n)
  BY <1>4, <1>5
<1>13. GapsWritten(p, q, r)
  BY <1>10, <1>11, <1>12, Zenon DEF GapsWritten
<1> QED BY <1>13

\* These rows have, in order, the elements nobody asks for, and all of them.
LEMMA LookupFilledInOrder ==
    ASSUME PositionsFit, Distinct, QueriesInTable,
           IInv, UnusedAreUnasked, pc \notin BeforeTable
    PROVE  \E b : /\ InOrderOnto(b, Row \ Firsts, Row \ Asked)
                  /\ \A i \in Row \ Firsts : tPrime[i] = t[b[i]]
<1>1. /\ n \in Nat /\ \A r \in Row : r \in Nat /\ r < Multiplier
      /\ pc \notin BeforeFirsts /\ pc \notin BeforeUnused /\ pc \notin BeforeValues
      /\ pc \notin BeforePositions
  BY RowsFit, Stages
<1>2. fDouble \in [Row -> 0 .. 1] /\ unused \in [Row -> 0 .. 1]
  BY <1>1 DEF IInv, FirstsOK, UnusedOK
<1>3. PICK p, q, r :
        /\ Permutation(q, n) /\ Permutation(r, n)
        /\ \A i \in Row \ Firsts : p[i] \in Row /\ q[p[i]] = i /\ tPrime[i] = t[r[p[i]]]
        /\ \A a \in Row : /\ q[a] \in Row /\ r[a] \in Row
                          /\ q[a] \notin Firsts <=> r[a] \notin Asked
                          /\ unfilledRec[a].key = Keyed(1 - fDouble[q[a]], q[a])
                          /\ unusedRec[a].key = Keyed(unused[r[a]], r[a])
  BY GapWrites DEF GapsWritten
<1>4. /\ \A x, y \in Row : q[x] = q[y] => x = y
      /\ \A x, y \in Row : r[x] = r[y] => x = y
      /\ \A y \in Row : \E x \in Row : r[x] = y
  BY <1>3 DEF Permutation, Row
<1>5. /\ \A x, y \in Row : x < y => unfilledRec[x].key <= unfilledRec[y].key
      /\ \A x, y \in Row : x < y => unusedRec[x].key <= unusedRec[y].key
  BY <1>1 DEF IInv, PositionsOK, ValuesOK, ByKey, Row
<1>6. ASSUME NEW i \in Row \ Firsts
      PROVE  /\ p[i] \in Row /\ p[i] \in Nat /\ q[p[i]] = i
             /\ r[p[i]] \in Row \ Asked /\ r[p[i]] \in Nat /\ i \in Nat
             /\ unfilledRec[p[i]].key = i /\ unusedRec[p[i]].key = r[p[i]]
  <2> DEFINE a == p[i]
             j == r[a]
  <2>1. a \in Row /\ q[a] = i /\ i \in Row /\ i \notin Firsts
    BY <1>3
  <2> HIDE DEF a
  <2>2. j \in Row \ Asked
    BY <1>3, <2>1
  <2>3. unfilledRec[a].key = Keyed(1 - fDouble[i], i) /\ unusedRec[a].key = Keyed(unused[j], j)
    BY <1>3, <2>1
  <2> HIDE DEF j
  <2>4. fDouble[i] \in 0 .. 1 /\ fDouble[i] # 1 /\ unused[j] \in 0 .. 1 /\ unused[j] # 0
    BY <1>2, <2>1, <2>2 DEF Firsts, Asked
  <2>5. 1 - fDouble[i] = 1 /\ unused[j] = 1 /\ 1 \in 0 .. 1
    BY <2>4
  <2>6. a \in Nat /\ i \in Nat /\ i < Multiplier /\ j \in Nat /\ j < Multiplier
    BY <1>1, <2>1, <2>2
  <2>7. unfilledRec[a].key = i /\ unusedRec[a].key = j
    BY <2>3, <2>5, <2>6, KeyedIs
  <2> QED BY <2>1, <2>2, <2>6, <2>7 DEF a, j
<1> DEFINE A == Row \ Firsts
           b == [i \in A |-> r[p[i]]]
<1>7. \A i \in A : b[i] = r[p[i]]
  OBVIOUS
<1>8. b \in [A -> Row \ Asked]
  BY <1>6
<1> HIDE DEF b
<1>9. ASSUME NEW x \in A, NEW y \in A, x < y
      PROVE  b[x] < b[y]
  <2>1. p[x] \in Row /\ p[y] \in Row /\ p[x] \in Nat /\ p[y] \in Nat /\ x \in Nat /\ y \in Nat
    BY <1>6
  <2>2. unfilledRec[p[x]].key = x /\ unfilledRec[p[y]].key = y
    BY <1>6
  <2>3. ~ (p[y] < p[x])
    <3>1. p[y] < p[x] => y <= x
      BY <1>5, <2>1, <2>2
    <3> QED BY <1>9, <2>1, <3>1
  <2>4. p[x] # p[y]
    BY <1>9, <2>1, <2>2
  <2>5. p[x] < p[y]
    BY <2>1, <2>3, <2>4
  <2>6. unusedRec[p[x]].key = r[p[x]] /\ unusedRec[p[y]].key = r[p[y]]
    BY <1>6
  <2>7. r[p[x]] <= r[p[y]]
    BY <1>5, <2>1, <2>5, <2>6
  <2>8. r[p[x]] # r[p[y]]
    BY <1>4, <2>1, <2>4
  <2>9. r[p[x]] \in Nat /\ r[p[y]] \in Nat
    BY <1>6
  <2> QED BY <1>7, <2>7, <2>8, <2>9
<1>10. ASSUME NEW y \in Row \ Asked
       PROVE  \E x \in A : b[x] = y
  <2>1. PICK a \in Row : r[a] = y
    BY <1>4
  <2>2. q[a] \in A
    BY <1>3, <2>1
  <2>3. p[q[a]] \in Row /\ q[p[q[a]]] = q[a]
    BY <1>6, <2>2
  <2>4. p[q[a]] = a
    BY <1>4, <2>3
  <2> QED BY <1>7, <2>1, <2>2, <2>4
<1>11. InOrderOnto(b, A, Row \ Asked)
  BY <1>8, <1>9, <1>10 DEF InOrderOnto
<1>12. \A i \in A : tPrime[i] = t[b[i]]
  BY <1>3, <1>7
<1> QED BY <1>11, <1>12

-----------------------------------------------------------------------------
(* Both ways on the same input.                                            *)

NP == INSTANCE NaivePermutationProofs WITH
    fPrime <- nFPrime, fDouble <- nFDouble, tPrime <- nTPrime, mask <- nMask,
    unused <- nUnused, at <- nAt, pc <- nPc

\* What the two permutations share is the same in both.
LEMMA SizesAlike ==
    /\ \A S : NP!IsFiniteSet(S) <=> IsFiniteSet(S)
    /\ \A S : NP!Cardinality(S) = Cardinality(S)
<1>1. \A S : NP!IsFiniteSet(S) <=> IsFiniteSet(S)
  BY Zenon DEF NP!IsFiniteSet, IsFiniteSet
<1>2. \A S : NP!Cardinality(S) = Cardinality(S)
  BY DEF NP!Cardinality, Cardinality
<1> QED BY <1>1, <1>2

LEMMA ArgumentsAlike ==
    /\ NP!n = n /\ NP!m = m /\ NP!t = t /\ NP!f = f /\ NP!Row = Row /\ NP!Query = Query
    /\ NP!QueriesInTable <=> QueriesInTable
    /\ NP!Distinct <=> Distinct
BY SizesAlike, Zenon
   DEF NP!n, NP!m, NP!t, NP!f, NP!Row, NP!Query, n, m, t, f, Row, Query,
       NP!QueriesInTable, QueriesInTable, NP!Distinct, Distinct

LEMMA PowersAlike ==
    /\ \A x : NP!PowerOfTwo(x) <=> PowerOfTwo(x)
    /\ \A x : NP!Sortable(x) <=> Sortable(x)
BY Zenon DEF NP!PowerOfTwo, PowerOfTwo, NP!Sortable, Sortable

LEMMA SortsAlike ==
    \A recs, len, bits : NP!KeysSorted(recs, len, bits) = KeysSorted(recs, len, bits)
BY Zenon DEF NP!KeysSorted, KeysSorted, NP!RadixSortByKey, RadixSortByKey,
             NP!LevelCount, LevelCount, NP!Truncated, Truncated, NP!Exchange, Exchange,
             NP!Swaps, Swaps, NP!Partner, Partner, NP!Lower, Lower, NP!Upper, Upper,
             NP!Ascending, Ascending, NP!NextLevel, NextLevel

LEMMA NaiveInitAlike == Naive!Init => NP!Init
BY Zenon DEF Naive!Init, NP!Init, Naive!Row, NP!Row, Naive!n, NP!n, Naive!t, NP!t,
             Naive!Cardinality, NP!Cardinality, Naive!IsFiniteSet, NP!IsFiniteSet

LEMMA NaiveNextAlike == Naive!Next => NP!Next
<1>0. \A S : Naive!Cardinality(S) = NP!Cardinality(S)
  BY DEF Naive!Cardinality, NP!Cardinality
<1>1. /\ Naive!n = NP!n /\ Naive!m = NP!m /\ Naive!t = NP!t /\ Naive!f = NP!f
      /\ Naive!Row = NP!Row
  <2>1. Naive!t = NP!t /\ Naive!f = NP!f
    BY DEF Naive!t, NP!t, Naive!f, NP!f
  <2>2. Naive!n = NP!n /\ Naive!m = NP!m
    BY <1>0, <2>1 DEF Naive!n, NP!n, Naive!m, NP!m
  <2> QED BY <2>1, <2>2 DEF Naive!Row, NP!Row
<1>2. Naive!Reject => NP!Reject
  BY <1>1, Zenon DEF Naive!Reject, NP!Reject, Naive!PowerOfTwo, NP!PowerOfTwo,
                     Naive!Sortable, NP!Sortable
<1>3. Naive!SortQueries => NP!SortQueries
  BY Zenon
  DEF Naive!SortQueries, NP!SortQueries, Naive!n, NP!n, Naive!m, NP!m, Naive!t, NP!t,
      Naive!f, NP!f, Naive!Cardinality, NP!Cardinality, Naive!IsFiniteSet, NP!IsFiniteSet,
      Naive!PowerOfTwo, NP!PowerOfTwo, Naive!Sortable, NP!Sortable, Naive!RadixSortByKey, NP!RadixSortByKey,
      Naive!LevelCount, NP!LevelCount, Naive!Truncated, NP!Truncated,
      Naive!Exchange, NP!Exchange, Naive!Swaps, NP!Swaps, Naive!Partner, NP!Partner,
      Naive!Lower, NP!Lower, Naive!Upper, NP!Upper, Naive!Ascending, NP!Ascending,
      Naive!NextLevel, NP!NextLevel
<1>4. Naive!Place => NP!Place
  BY <1>1, Zenon DEF Naive!Place, NP!Place, Naive!Bit, NP!Bit
<1>5. Naive!Mark => NP!Mark
  BY <1>1, Zenon DEF Naive!Mark, NP!Mark, Naive!LowestOf, NP!LowestOf
<1>6. Naive!Fill => NP!Fill
  BY <1>1, Zenon DEF Naive!Fill, NP!Fill, Naive!LowestOf, NP!LowestOf, Naive!Bit, NP!Bit
<1> QED BY <1>2, <1>3, <1>4, <1>5, <1>6, Zenon DEF Naive!Next, NP!Next

\* What is proved of the naive permutation, for its copy here.
LEMMA NaiveAssumed ==
    /\ FieldBits \in Nat
    /\ \A in \in Inputs : \A a \in {in.t, in.f} :
        /\ NP!IsFiniteSet(DOMAIN a)
        /\ DOMAIN a = 0 .. NP!Cardinality(DOMAIN a) - 1
        /\ \A i \in DOMAIN a : a[i] \in 0 .. 2 ^ FieldBits - 1
BY FieldBitsAssumption, InputsAssumption, SizesAlike, Zenon

LEMMA CopyKept ==
    ASSUME NP!NaiveInv, [NP!Next]_(NP!vars)
    PROVE  NP!NaiveInv'
BY NP!NaiveKept, NaiveAssumed, PrimeAssumption, Zenon DEF NP!NaiveKept

LEMMA CopyInit ==
    ASSUME NP!Init
    PROVE  NP!NaiveInv /\ NP!SortedInv /\ NP!OrderInv
<1>1. NP!BaseInv /\ NP!GapInv
  BY NP!NaiveInit, NaiveAssumed, PrimeAssumption, Zenon DEF NP!NaiveInit
<1>2. nPc = "sort" /\ nTPrime = [i \in NP!Row |-> 0]
  BY DEF NP!Init
<1>3. NP!ArrayOK
  BY <1>2 DEF NP!ArrayOK
<1> QED BY <1>1, <1>2, <1>3
        DEF NP!NaiveInv, NP!SortedInv, NP!SortedOK, NP!RefusedOK, NP!OrderInv, NP!MarkedOK,
            NP!GivenOK, NP!EmptyOK, NP!EndOK

LEMMA CopySortedKept ==
    ASSUME NP!NaiveInv, NP!SortedInv, [NP!Next]_(NP!vars)
    PROVE  NP!SortedInv'
<1>1. NP!BaseInv
  BY DEF NP!NaiveInv
<1> QED BY <1>1, NP!NaiveSortedKept, NaiveAssumed, PrimeAssumption, Zenon DEF NP!NaiveSortedKept

LEMMA CopyOrderKept ==
    ASSUME QueriesInTable, Distinct, NP!NaiveInv, NP!OrderInv, [NP!Next]_(NP!vars)
    PROVE  NP!OrderInv'
<1>1. NP!QueriesInTable /\ NP!Distinct
  BY ArgumentsAlike
<1> QED BY <1>1, NP!NaiveOrderKept, NaiveAssumed, PrimeAssumption, Zenon DEF NP!NaiveOrderKept

LEMMA CopyFilledInOrder ==
    ASSUME QueriesInTable, NP!NaiveInv, NP!OrderInv, nPc = "returned"
    PROVE  \E b : NP!InOrderOnto(b, NP!Gaps, NP!Spare) /\ \A i \in NP!Gaps : nTPrime[i] = NP!t[b[i]]
<1>1. NP!QueriesInTable
  BY ArgumentsAlike
<1> QED BY <1>1, NP!NaiveFilledInOrder, NaiveAssumed, PrimeAssumption, Zenon DEF NP!NaiveFilledInOrder

LEMMA CopyGapCounts ==
    ASSUME QueriesInTable, NP!NaiveInv
    PROVE  NP!OneForEachGap
<1>1. NP!QueriesInTable
  BY ArgumentsAlike
<1> QED BY <1>1, NP!NaiveGapCounts, NaiveAssumed, PrimeAssumption, Zenon DEF NP!NaiveGapCounts

LEMMA CopyReturned ==
    ASSUME QueriesInTable, NP!NaiveInv
    PROVE  NP!NaiveReturned
<1>1. NP!QueriesInTable
  BY ArgumentsAlike
<1> QED BY <1>1, NP!NaiveReturnedIs, NaiveAssumed, PrimeAssumption, Zenon DEF NP!NaiveReturnedIs

LEMMA CopyImplements ==
    ASSUME NP!NaiveInv, NP!NaiveReturned', [NP!Next]_(NP!vars)
    PROVE  [NP!Abstract!LNext]_(NP!Abstract!lvars)
BY NP!NaiveImplements, NaiveAssumed, PrimeAssumption, Zenon DEF NP!NaiveImplements

\* The compacting permutation is run after the other, for distinct elements.
TurnOK == pc # "sort" => Distinct /\ nPc \in {"returned", "panicked"}

SortedOK ==
    pc \notin BeforeQueries =>
        fPrime = KeysSorted([i \in 0 .. m-1 |-> [key |-> f[i]]], m, FieldBits)

RefusedOK == pc = "panicked" => ~ (m <= n /\ PowerOfTwo(m) /\ PowerOfTwo(n) /\ Sortable(m))

BothInv ==
    /\ IInv
    /\ UnusedAreUnasked
    /\ SortedOK
    /\ RefusedOK
    /\ TurnOK
    /\ NP!NaiveInv
    /\ NP!SortedInv
    /\ Distinct => NP!OrderInv

LEMMA BothInitInv == BInit => BothInv
<1> SUFFICES ASSUME BInit PROVE BothInv
  OBVIOUS
<1>1. Init /\ NP!Init
  BY NaiveInitAlike DEF BInit
<1>2. pc = "sort" /\ unused = None /\ IInv
  BY <1>1, InitInv DEF Init
<1>3. SortedOK /\ RefusedOK /\ TurnOK /\ UnusedAreUnasked
  BY <1>2, Stages DEF SortedOK, RefusedOK, TurnOK, UnusedAreUnasked
<1> QED BY <1>1, <1>2, <1>3, CopyInit DEF BothInv

\* One of the two makes a step, and the other does not.
LEMMA Turns ==
    ASSUME [BothNext]_<<vars, nvars>>
    PROVE  /\ [Next]_vars /\ [NP!Next]_(NP!vars)
           /\ \/ UNCHANGED <<input, pc>> /\ (pc = "sort" \/ UNCHANGED nPc \/ ~ TurnOK)
              \/ Distinct /\ nPc \in {"returned", "panicked"} /\ UNCHANGED <<input, nPc>>
<1>1. ASSUME UNCHANGED <<vars, nvars>>
      PROVE  UNCHANGED vars /\ UNCHANGED NP!vars /\ UNCHANGED <<input, pc, nPc>>
  BY <1>1 DEF vars, nvars, NP!vars
<1>2. CASE Naive!Next /\ UNCHANGED work /\ UNCHANGED pc
  <2>1. NP!Next
    BY <1>2, NaiveNextAlike
  <2>2. input' = input /\ nPc \notin {"returned", "panicked"}
    BY <2>1 DEF NP!Next, NP!Reject, NP!SortQueries, NP!Place, NP!Mark, NP!Fill
  <2>3. UNCHANGED vars
    BY <1>2, <2>2 DEF vars
  <2>4. pc = "sort" \/ ~ TurnOK
    BY <2>2 DEF TurnOK
  <2> QED BY <1>2, <2>1, <2>2, <2>3, <2>4
<1>3. CASE Next /\ UNCHANGED nvars /\ Distinct /\ nPc \in {"returned", "panicked"}
  <2>1. input' = input
    BY <1>3 DEF Next, Reject, SortQueries, Indicate, FindUnused, CompactUnused, CompactUnfilled,
                SortWrites, Construct, Pad, Terminated, vars
  <2>2. UNCHANGED NP!vars /\ UNCHANGED nPc
    BY <1>3, <2>1 DEF nvars, NP!vars
  <2> QED BY <1>3, <2>1, <2>2
<1>4. CASE UNCHANGED <<vars, nvars>>
  BY <1>1, <1>4
<1> QED BY <1>2, <1>3, <1>4 DEF BothNext

LEMMA SortedKept ==
    ASSUME IInv, SortedOK, RefusedOK, [Next]_vars
    PROVE  SortedOK' /\ RefusedOK'
<1>1. CASE Reject
  <2>1. input' = input /\ pc' = "panicked"
    BY <1>1 DEF Reject
  <2>2. ~ (m <= n /\ PowerOfTwo(m) /\ PowerOfTwo(n) /\ Sortable(m))
    BY <1>1 DEF Reject
  <2>3. n' = n /\ m' = m /\ pc' \in BeforeQueries
    BY <2>1, ArgumentsKept, Stages
  <2> QED BY <2>1, <2>2, <2>3, Zenon DEF SortedOK, RefusedOK, BeforeQueries
<1>2. CASE SortQueries
  <2>1. input' = input /\ pc' = "indicate"
    BY <1>2 DEF SortQueries
  <2>2. fPrime' = KeysSorted([i \in 0 .. m-1 |-> [key |-> f[i]]], m, FieldBits)
    BY <1>2 DEF SortQueries, KeysSorted
  <2>3. n' = n /\ m' = m /\ f' = f
    BY <2>1, ArgumentsKept
  <2> QED BY <2>1, <2>2, <2>3 DEF SortedOK, RefusedOK
<1>3. CASE \/ Indicate \/ FindUnused \/ CompactUnused \/ CompactUnfilled
           \/ SortWrites \/ Construct \/ Pad
  <2>1. /\ input' = input /\ fPrime' = fPrime /\ pc \notin {"sort", "panicked"}
        /\ pc' # "panicked"
    BY <1>3 DEF Indicate, FindUnused, CompactUnused, CompactUnfilled, SortWrites, Construct, Pad
  <2>2. n' = n /\ m' = m /\ f' = f
    BY <2>1, ArgumentsKept
  <2> QED BY <2>1, <2>2 DEF SortedOK, RefusedOK, BeforeQueries
<1>4. CASE UNCHANGED vars
  <2>1. input' = input /\ fPrime' = fPrime /\ pc' = pc
    BY <1>4 DEF vars, work
  <2>2. n' = n /\ m' = m /\ f' = f
    BY <2>1, ArgumentsKept
  <2> QED BY <2>1, <2>2, Zenon DEF SortedOK, RefusedOK, BeforeQueries
<1> QED BY <1>1, <1>2, <1>3, <1>4 DEF Next, Terminated

LEMMA BothNextInv ==
    ASSUME PositionsFit, QueriesInTable, BothInv, [BothNext]_<<vars, nvars>>
    PROVE  BothInv'
<1>1. [Next]_vars /\ [NP!Next]_(NP!vars)
  BY Turns
<1>2. IInv' /\ UnusedAreUnasked' /\ SortedOK' /\ RefusedOK'
  BY <1>1, NextInv, UnusedKeptUnasked, SortedKept DEF BothInv
<1>3. NP!NaiveInv' /\ NP!SortedInv'
  BY <1>1, CopyKept, CopySortedKept DEF BothInv
<1>4. input' = input
  BY Turns
<1>5. Distinct' <=> Distinct
  BY <1>4, ArgumentsKept DEF Distinct
<1>6. Distinct => NP!OrderInv'
  BY <1>1, CopyOrderKept DEF BothInv
<1>7. TurnOK'
  BY <1>5, Turns DEF TurnOK, BothInv
<1> QED BY <1>2, <1>3, <1>5, <1>6, <1>7 DEF BothInv

LEMMA BothInductive ==
    ASSUME PositionsFit, QueriesInTable
    PROVE  BothSpec => []BothInv
BY BothInitInv, BothNextInv, PTL DEF BothSpec

\* The rows that the two fill, and the elements they fill them with.
LEMMA FilledAlike ==
    ASSUME PositionsFit, QueriesInTable, BothInv, pc = "returned", nPc = "returned"
    PROVE  nTPrime = tPrime /\ nFPrime = fPrime
<1>1. /\ pc \notin BeforeQueries /\ pc \notin BeforeFirsts /\ pc \notin BeforeUnused
      /\ pc \notin BeforeTable /\ IInv /\ UnusedAreUnasked /\ Distinct
  BY Stages DEF BothInv, TurnOK
<1>2. NP!BaseInv /\ NP!SortedOK /\ NP!ArrayOK /\ NP!OrderInv
  BY <1>1 DEF BothInv, NP!NaiveInv, NP!SortedInv
<1>3. nFPrime = fPrime
  <2>1. fPrime = KeysSorted([i \in 0 .. m-1 |-> [key |-> f[i]]], m, FieldBits)
    BY <1>1 DEF BothInv, SortedOK
  <2>2. nFPrime = NP!KeysSorted([i \in 0 .. NP!m-1 |-> [key |-> NP!f[i]]], NP!m, FieldBits)
    BY <1>2 DEF NP!SortedOK
  <2>3. NP!m = m /\ NP!f = f
    BY ArgumentsAlike
  <2>4. nFPrime = NP!KeysSorted([i \in 0 .. m-1 |-> [key |-> f[i]]], m, FieldBits)
    BY <2>2, <2>3
  <2> QED BY <2>1, <2>4, SortsAlike
<1>4. /\ n \in Nat /\ m \in Nat
      /\ \A i \in Query : i \in Row
      /\ \A i \in Row : i < m => i \in Query
  BY <1>1, QueryRows
<1>5. /\ fDouble \in [Row -> 0 .. 1] /\ unused \in [Row -> 0 .. 1]
      /\ \A i \in Row : fDouble[i] = 1 <=> i < m /\ First(i)
  BY <1>1 DEF IInv, FirstsOK, UnusedOK
<1>6. \A i : NP!First(i) <=> First(i)
  BY <1>3 DEF NP!First, First
<1>7. NP!Gaps = Row \ Firsts
  BY <1>5, <1>6, ArgumentsAlike DEF NP!Gaps, Firsts
<1>8. NP!Spare = Row \ Asked
  <2>1. \A j \in Row : unused[j] = 1 <=> \A i \in Query : f[i] # t[j]
    <3>1. unused # None /\ DOMAIN f = Query
      <4>1. 0 \in DOMAIN unused
        BY <1>1, <1>5, QueryRows DEF Row
      <4> QED BY <1>1, <4>1, ArraysAre DEF None, IInv
    <3> QED BY <1>1, <3>1 DEF UnusedAreUnasked
  <2>2. \A j \in Row : unused[j] = 0 \/ unused[j] = 1
    BY <1>5
  <2>3. \A j \in Row : j \notin Asked <=> \A i \in Query : f[i] # t[j]
    BY <2>1, <2>2 DEF Asked
  <2> QED BY <2>3, ArgumentsAlike DEF NP!Spare
<1>9. PICK b : /\ InOrderOnto(b, Row \ Firsts, Row \ Asked)
               /\ \A i \in Row \ Firsts : tPrime[i] = t[b[i]]
  BY <1>1, LookupFilledInOrder
<1>10. PICK c : /\ InOrderOnto(c, Row \ Firsts, Row \ Asked)
                /\ \A i \in Row \ Firsts : nTPrime[i] = t[c[i]]
  <2>1. PICK c : NP!InOrderOnto(c, NP!Gaps, NP!Spare) /\ \A i \in NP!Gaps : nTPrime[i] = NP!t[c[i]]
    BY <1>2, CopyFilledInOrder DEF BothInv
  <2>2. InOrderOnto(c, Row \ Firsts, Row \ Asked)
    BY <1>7, <1>8, <2>1 DEF NP!InOrderOnto, InOrderOnto
  <2>3. \A i \in Row \ Firsts : nTPrime[i] = t[c[i]]
    BY <1>7, <2>1, ArgumentsAlike
  <2> QED BY <2>2, <2>3
<1>11. b = c
  <2>1. Row \ Firsts \in SUBSET Nat /\ Row \ Asked \in SUBSET Nat
    BY <1>4 DEF Row
  <2> QED BY <1>9, <1>10, <2>1, OneInOrder
<1>12. ASSUME NEW i \in Row
       PROVE  nTPrime[i] = tPrime[i]
  <2>1. CASE i \notin Firsts
    BY <1>9, <1>10, <1>11, <2>1
  <2>2. CASE i \in Firsts
    <3>1. i \in Query /\ First(i)
      BY <1>4, <1>5, <2>2 DEF Firsts
    <3>2. tPrime[i] = fPrime[i]
      BY <1>1, <3>1, FirstsWritten
    <3>3. nTPrime[i] = nFPrime[i]
      BY <1>2, <1>6, <3>1, ArgumentsAlike DEF NP!BaseInv, NP!FirstsOK
    <3> QED BY <1>3, <3>2, <3>3
  <2> QED BY <2>1, <2>2
<1>13. nTPrime = [i \in Row |-> nTPrime[i]]
  BY <1>2, ArgumentsAlike DEF NP!ArrayOK
<1>14. tPrime = [i \in Row |-> tPrime[i]]
  <2> DEFINE a == [i \in Row |-> writes[i].val]
  <2>1. a = [i \in Row |-> a[i]]
    OBVIOUS
  <2>2. tPrime = a
    BY <1>1 DEF IInv, TableOK
  <2> HIDE DEF a
  <2> QED BY <2>1, <2>2
<1>15. [i \in Row |-> nTPrime[i]] = [i \in Row |-> tPrime[i]]
  BY <1>12, Zenon
<1> QED BY <1>3, <1>13, <1>14, <1>15, Zenon

LEMMA BothAnswer ==
    ASSUME PositionsFit, QueriesInTable, BothInv
    PROVE  SameAnswer
<1>1. nPc = "returned" /\ pc = "returned" => nTPrime = tPrime /\ nFPrime = fPrime
  BY FilledAlike
<1>2. ASSUME pc \in {"panicked", "padded"}
      PROVE  (nPc = "panicked") = (pc = "panicked")
  <2>1. nPc \in {"returned", "panicked"}
    BY <1>2 DEF BothInv, TurnOK
  <2>2. CASE pc = "panicked"
    <3>1. ~ (m <= n /\ PowerOfTwo(m) /\ PowerOfTwo(n) /\ Sortable(m))
      BY <2>2 DEF BothInv, RefusedOK
    <3>2. ASSUME nPc = "returned" PROVE FALSE
      <4>1. NP!m <= NP!n /\ NP!PowerOfTwo(NP!n) /\ NP!Sortable(NP!m)
        BY <3>2 DEF BothInv, NP!NaiveInv, NP!BaseInv, NP!SizesOK
      <4>2. m <= n /\ PowerOfTwo(n) /\ Sortable(m)
        BY <4>1, ArgumentsAlike, PowersAlike
      <4> QED BY <3>1, <4>2 DEF Sortable
    <3> QED BY <2>1, <2>2, <3>2
  <2>3. CASE pc = "padded"
    <3>1. pc \notin BeforeQueries
      BY <2>3, Stages
    <3>2. m <= n /\ PowerOfTwo(n) /\ Sortable(m)
      BY <3>1 DEF BothInv, IInv, QueriesOK
    <3>3. ASSUME nPc = "panicked" PROVE FALSE
      <4>1. ~ (NP!m <= NP!n /\ NP!PowerOfTwo(NP!m) /\ NP!PowerOfTwo(NP!n) /\ NP!Sortable(NP!m))
        BY <3>3 DEF BothInv, NP!SortedInv, NP!RefusedOK
      <4>2. ~ (m <= n /\ PowerOfTwo(m) /\ PowerOfTwo(n) /\ Sortable(m))
        BY <4>1, ArgumentsAlike, PowersAlike
      <4> QED BY <3>2, <4>2 DEF Sortable
    <3> QED BY <2>3, <3>3
  <2> QED BY <1>2, <2>2, <2>3
<1> QED BY <1>1, <1>2 DEF SameAnswer

\* The switch changes the cost and not the answer: for every table of distinct
\* elements, of at most Multiplier rows, and all queries to it the two
\* permutations return the same t' and the same f', and the sizes that one
\* refuses the other refuses as well.
THEOREM TwoWaysSameAnswer ==
    ASSUME PositionsFit, QueriesInTable
    PROVE  BothSpec => []SameAnswer
BY BothAnswer, BothInductive, PTL

\* Run before the other, the naive permutation keeps its arrays at the size of
\* the table and its indicators bits.
THEOREM TwoWaysNaiveTypeOK ==
    ASSUME PositionsFit, QueriesInTable
    PROVE  BothSpec => []NaiveTypeOK
<1>1. BothInv => NaiveTypeOK
  <2> SUFFICES ASSUME BothInv PROVE Naive!TypeOK
    BY DEF NaiveTypeOK
  <2>1. NP!TypeOK
    BY DEF BothInv, NP!NaiveInv, NP!BaseInv
  <2> QED BY <2>1, Zenon
          DEF Naive!TypeOK, NP!TypeOK, Naive!Row, NP!Row, Naive!n, NP!n, Naive!t, NP!t,
              Naive!Cardinality, NP!Cardinality, Naive!IsFiniteSet, NP!IsFiniteSet
<1> QED BY <1>1, BothInductive, PTL

\* And there is one unused element for every empty row when it fills the rows,
\* whatever the table, as long as the queries are in it.
THEOREM TwoWaysOneForEachGap ==
    ASSUME PositionsFit, QueriesInTable
    PROVE  BothSpec => []OneForEachGap
<1>1. BothInv => OneForEachGap
  <2> SUFFICES ASSUME BothInv PROVE Naive!OneForEachGap
    BY DEF OneForEachGap
  <2>1. NP!OneForEachGap
    BY CopyGapCounts DEF BothInv
  <2> QED BY <2>1, Zenon
          DEF Naive!OneForEachGap, NP!OneForEachGap, Naive!Row, NP!Row, Naive!n, NP!n,
              Naive!t, NP!t, Naive!Cardinality, NP!Cardinality, Naive!IsFiniteSet, NP!IsFiniteSet
<1> QED BY <1>1, BothInductive, PTL

\* What the naive permutation promises is the same for both copies of it.
LEMMA PromisesAlike ==
    /\ NP!Abstract!LInit => Naive!Abstract!LInit
    /\ [NP!Abstract!LNext]_(NP!Abstract!lvars) => [Naive!Abstract!LNext]_(Naive!Abstract!lvars)
<1>1. NP!Abstract!LInit => Naive!Abstract!LInit
  BY Zenon DEF NP!Abstract!LInit, Naive!Abstract!LInit
<1>2. \A in, out : NP!Abstract!Permutes(in, out) => Naive!Abstract!Permutes(in, out)
  BY Zenon
  DEF NP!Abstract!Permutes, NP!Abstract!Rearranged, NP!Abstract!Count,
      NP!Abstract!FirstOccurrence, NP!Abstract!Cardinality, NP!Abstract!IsFiniteSet,
      Naive!Abstract!Permutes, Naive!Abstract!Rearranged, Naive!Abstract!Count,
      Naive!Abstract!FirstOccurrence, Naive!Abstract!Cardinality, Naive!Abstract!IsFiniteSet
<1>3. \A a, b : NP!Abstract!SizesFit(a, b) <=> Naive!Abstract!SizesFit(a, b)
  BY Zenon
  DEF NP!Abstract!SizesFit, NP!Abstract!Length, NP!Abstract!Sortable, NP!Abstract!PowerOfTwo,
      NP!Abstract!Cardinality, NP!Abstract!IsFiniteSet,
      Naive!Abstract!SizesFit, Naive!Abstract!Length, Naive!Abstract!Sortable,
      Naive!Abstract!PowerOfTwo, Naive!Abstract!Cardinality, Naive!Abstract!IsFiniteSet
<1>4. NP!Abstract!LReturn => Naive!Abstract!LReturn
  BY <1>2, <1>3, Zenon DEF NP!Abstract!LReturn, Naive!Abstract!LReturn
<1>5. NP!Abstract!LReject => Naive!Abstract!LReject
  BY <1>3, Zenon DEF NP!Abstract!LReject, Naive!Abstract!LReject
<1>6. UNCHANGED NP!Abstract!lvars => UNCHANGED Naive!Abstract!lvars
  BY DEF NP!Abstract!lvars, Naive!Abstract!lvars
<1> QED BY <1>1, <1>4, <1>5, <1>6 DEF NP!Abstract!LNext, Naive!Abstract!LNext

\* Run before the other, the naive permutation still implements Lookup,
\* whatever the table, as long as the queries are in it.
THEOREM TwoWaysNaivePromised ==
    ASSUME PositionsFit, QueriesInTable
    PROVE  BothSpec => NaivePromised
<1>1. BInit => Naive!Abstract!LInit
  <2> SUFFICES ASSUME BInit PROVE Naive!Abstract!LInit
    OBVIOUS
  <2>1. NP!Init
    BY NaiveInitAlike DEF BInit
  <2>2. NP!Abstract!LInit
    BY <2>1 DEF NP!Init, NP!Abstract!LInit
  <2> QED BY <2>2, PromisesAlike
<1>2. BothInv => NP!NaiveReturned
  BY CopyReturned DEF BothInv
<1>3. ASSUME BothInv, NP!NaiveReturned', [BothNext]_<<vars, nvars>>
      PROVE  [Naive!Abstract!LNext]_(Naive!Abstract!lvars)
  <2>1. NP!NaiveInv /\ [NP!Next]_(NP!vars)
    BY <1>3, Turns DEF BothInv
  <2>2. [NP!Abstract!LNext]_(NP!Abstract!lvars)
    BY <1>3, <2>1, CopyImplements
  <2> QED BY <2>2, PromisesAlike
<1> QED BY <1>1, <1>2, <1>3, BothInductive, PTL
        DEF BothSpec, NaivePromised, Naive!Promised, Naive!Abstract!LSpec
=============================================================================
