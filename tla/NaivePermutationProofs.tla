------------------------ MODULE NaivePermutationProofs ----------------------
(***************************************************************************)
(* What TLC checks of the naive permutation on small tables, for tables    *)
(* and queries of every length: every first occurrence marks a table       *)
(* element of its own, and what is not marked fills the gaps, one element  *)
(* for each.                                                               *)
(***************************************************************************)
EXTENDS NaivePermutation, AlgorithmProofs

Query == 0 .. m-1

First(i) == i = 0 \/ fPrime[i] # fPrime[i - 1]

PcOK == pc \in {"sort", "place", "mark", "fill", "returned", "panicked"}

SizesOK == pc \notin {"sort", "panicked"} => m <= n /\ PowerOfTwo(n) /\ Sortable(m)

StartOK == pc \in {"sort", "place"} => unused = [j \in Row |-> 1] /\ at = 0

\* f' is f in order.
QueriesOK ==
    pc \in {"place", "mark", "fill", "returned"} =>
        /\ fPrime \in [Query -> Nat]
        /\ Permuted(f, fPrime, m)
        /\ \A x, y \in Query : x < y => fPrime[x] <= fPrime[y]

\* No step takes the row of a first occurrence from it.
FirstsOK ==
    pc \in {"mark", "fill", "returned"} =>
        \A i \in Query : First(i) => mask[i] = 1 /\ tPrime[i] = fPrime[i]

MarkOK ==
    pc = "mark" =>
        /\ at < m
        /\ \A i \in Query : fDouble[i] = Bit(First(i))
        /\ \A i \in Row : mask[i] = 1 <=> i < m /\ First(i)

FillOK == pc = "fill" => at < n

BaseInv == TypeOK /\ PcOK /\ SizesOK /\ StartOK /\ QueriesOK /\ FirstsOK /\ MarkOK /\ FillOK

\* The rows that have got the element they show, and the elements given.
Given == {i \in Row : mask[i] = 1 /\ (pc = "mark" => i < at)}
Used == {j \in Row : unused[j] = 0}

\* Every row that has its element has one of its own.
TakenOK ==
    pc \in {"mark", "fill", "returned"} =>
        \E g : Pairing(g, Given, Used) /\ \A i \in Given : t[g[i]] = tPrime[i]

\* The rows behind the loop are full.
FilledOK ==
    /\ pc = "fill" => \A i \in Row : i < at => mask[i] = 1
    /\ pc = "returned" => \A i \in Row : mask[i] = 1

GapInv == TakenOK /\ FilledOK

-----------------------------------------------------------------------------
LEMMA ArraysAre ==
    ASSUME input \in Inputs
    PROVE  /\ n \in Nat /\ m \in Nat
           /\ DOMAIN t = Row /\ DOMAIN f = Query
           /\ IsFiniteSet(Row)
           /\ \A j \in Row : t[j] \in Nat
           /\ \A i \in Query : f[i] \in Nat /\ f[i] < 2 ^ FieldBits
<1>1. /\ IsFiniteSet(DOMAIN t) /\ DOMAIN t = Row
      /\ IsFiniteSet(DOMAIN f) /\ DOMAIN f = Query
  BY InputsAssumption DEF t, f, n, m, Row, Query
<1>2. n \in Nat /\ m \in Nat
  BY <1>1, FS_CardinalityType DEF n, m
<1> DEFINE w == 2 ^ FieldBits
<1>3. w \in Nat
  BY FieldBitsAssumption, PowerStep
<1>4. (\A j \in DOMAIN t : t[j] \in 0 .. w - 1) /\ (\A i \in DOMAIN f : f[i] \in 0 .. w - 1)
  BY InputsAssumption DEF t, f
<1> HIDE DEF w
<1>5. (\A j \in Row : t[j] \in Nat) /\ (\A i \in Query : f[i] \in Nat /\ f[i] < w)
  BY <1>1, <1>3, <1>4
<1> QED BY <1>1, <1>2, <1>5 DEF w

LEMMA LowestIs ==
    ASSUME NEW S \in SUBSET Nat, S # {}
    PROVE  LowestOf(S) \in S /\ \A y \in S : LowestOf(S) <= y
BY LeastNatural DEF LowestOf

LEMMA NaiveInit == Init => BaseInv /\ GapInv
<1> SUFFICES ASSUME Init PROVE BaseInv /\ GapInv
  OBVIOUS
<1>1. input \in Inputs /\ pc = "sort" /\ at = 0
  BY DEF Init
<1>2. n \in Nat
  BY <1>1, ArraysAre
<1>3. TypeOK
  <2>1. DOMAIN tPrime = Row /\ mask \in [Row -> 0 .. 1] /\ unused \in [Row -> 0 .. 1]
    BY DEF Init
  <2>2. at \in 0 .. n
    BY <1>1, <1>2
  <2> QED BY <1>1, <2>1, <2>2, Zenon DEF TypeOK
<1>4. StartOK
  BY DEF StartOK, Init
<1> QED BY <1>1, <1>3, <1>4 DEF BaseInv, GapInv, PcOK, SizesOK, QueriesOK, FirstsOK,
                                MarkOK, FillOK, TakenOK, FilledOK


LEMMA NaiveReject ==
    ASSUME BaseInv, Reject
    PROVE  BaseInv' /\ GapInv'
<1>1. /\ input' = input /\ fPrime' = fPrime /\ fDouble' = fDouble /\ tPrime' = tPrime
      /\ mask' = mask /\ unused' = unused /\ at' = at /\ pc' = "panicked"
  BY DEF Reject
<1>2. TypeOK'
  BY <1>1 DEF BaseInv, TypeOK, Row, n, t
<1> QED BY <1>1, <1>2 DEF BaseInv, GapInv, PcOK, SizesOK, StartOK, QueriesOK, FirstsOK,
                          MarkOK, FillOK, TakenOK, FilledOK

\* f' is f, sorted by the values themselves.
LEMMA QueriesSorted ==
    ASSUME input \in Inputs, SortQueries
    PROVE  /\ fPrime' \in [Query -> Nat]
           /\ Permuted(f, fPrime', m)
           /\ \A x, y \in Query : x < y => fPrime'[x] <= fPrime'[y]
<1> DEFINE recs == [i \in 0 .. m-1 |-> [key |-> f[i]]]
<1>1. m \in Nat /\ \A i \in 0 .. m-1 : f[i] \in Nat /\ f[i] < 2 ^ FieldBits
  BY ArraysAre DEF Query
<1>2. /\ Sortable(m)
      /\ fPrime' = KeysSorted(recs, m, FieldBits)
  BY DEF SortQueries, KeysSorted
<1>3. RecordsOfValues(recs, f, m, FieldBits)
  BY <1>1 DEF RecordsOfValues
<1> HIDE DEF recs
<1>4. /\ DOMAIN fPrime' = Query
      /\ Permuted(f, fPrime', m)
      /\ \A x, y \in Query : x < y => fPrime'[x] <= fPrime'[y]
  BY <1>1, <1>2, <1>3, FieldBitsAssumption, ValuesSorted, ZenonT(40) DEF Query
<1>5. PICK p : Permutation(p, m) /\ \A i \in 0 .. m-1 : fPrime'[i] = f[p[i]]
  BY <1>4 DEF Permuted
<1>6. \A i \in Query : fPrime'[i] \in Nat
  BY <1>1, <1>5 DEF Permutation, Query
<1>7. fPrime' \in [Query -> Nat]
  BY <1>2, <1>6 DEF Query, KeysSorted
<1> QED BY <1>4, <1>7

LEMMA NaiveSortQueries ==
    ASSUME BaseInv, SortQueries
    PROVE  BaseInv' /\ GapInv'
<1>1. /\ input' = input /\ fDouble' = fDouble /\ tPrime' = tPrime
      /\ mask' = mask /\ unused' = unused /\ at' = at /\ pc = "sort" /\ pc' = "place"
      /\ m <= n /\ PowerOfTwo(n) /\ Sortable(m)
  BY DEF SortQueries
<1>2. n' = n /\ m' = m /\ f' = f /\ Row' = Row /\ Query' = Query
  BY <1>1 DEF n, m, t, f, Row, Query
<1>3. TypeOK'
  BY <1>1, <1>2 DEF BaseInv, TypeOK
<1>4. QueriesOK'
  <2>1. /\ fPrime' \in [Query -> Nat]
        /\ Permuted(f, fPrime', m)
        /\ \A x, y \in Query : x < y => fPrime'[x] <= fPrime'[y]
    BY QueriesSorted DEF BaseInv, TypeOK
  <2> QED BY <1>2, <2>1 DEF QueriesOK
<1>5. StartOK'
  BY <1>1, <1>2 DEF BaseInv, StartOK
<1>6. SizesOK'
  BY <1>1, <1>2 DEF SizesOK
<1> QED BY <1>1, <1>3, <1>4, <1>5, <1>6 DEF BaseInv, GapInv, PcOK, FirstsOK, MarkOK, FillOK,
                                             TakenOK, FilledOK

\* The rows of the queries are rows of the table.
LEMMA QueryRows ==
    ASSUME BaseInv, pc \notin {"sort", "panicked"}
    PROVE  /\ n \in Nat /\ m \in Nat /\ 2 <= m /\ m <= n
           /\ \A i \in Query : i \in Row
           /\ \A i \in Row : i < m => i \in Query
<1>1. n \in Nat /\ m \in Nat
  BY ArraysAre DEF BaseInv, TypeOK
<1>2. 2 <= m /\ m <= n
  BY DEF BaseInv, SizesOK, Sortable
<1> QED BY <1>1, <1>2 DEF Row, Query

LEMMA NaivePlace ==
    ASSUME BaseInv, Place
    PROVE  BaseInv' /\ GapInv'
<1>1. /\ input' = input /\ fPrime' = fPrime /\ unused' = unused /\ at' = at
      /\ pc = "place" /\ pc' = "mark"
  BY DEF Place
<1>2. /\ n' = n /\ m' = m /\ f' = f /\ t' = t /\ Row' = Row /\ Query' = Query
      /\ \A i : First(i)' <=> First(i)
  BY <1>1 DEF n, m, t, f, Row, Query, First
<1>3. /\ n \in Nat /\ m \in Nat /\ 2 <= m /\ m <= n
      /\ \A i \in Query : i \in Row
      /\ \A i \in Row : i < m => i \in Query
  BY <1>1, QueryRows
<1>4. \A i \in Row : fDouble'[i] = Bit(i = 0 \/ (i < m /\ fPrime[i] # fPrime[i - 1]))
  BY DEF Place
<1>5. /\ \A i \in Row : i < m => fDouble'[i] = Bit(First(i))
      /\ \A i \in Row : fDouble'[i] \in 0 .. 1
  BY <1>3, <1>4 DEF First, Bit, Row
<1>6. /\ tPrime' = [i \in Row |-> IF i < m THEN fDouble'[i] * fPrime[i] ELSE 0]
      /\ mask' = [i \in Row |-> IF i < m THEN fDouble'[i] ELSE 0]
  BY DEF Place
<1>7. TypeOK'
  <2>1. DOMAIN tPrime' = Row /\ mask' \in [Row -> 0 .. 1]
    BY <1>5, <1>6
  <2> QED BY <1>1, <1>2, <2>1 DEF BaseInv, TypeOK
<1>8. \A i \in Row : mask'[i] = 1 <=> i < m /\ First(i)
  BY <1>5, <1>6 DEF Bit
<1>9. \A i \in Query : fDouble'[i] = Bit(First(i))
  BY <1>3, <1>5 DEF Query
<1>10. \A i \in Query : First(i) => mask'[i] = 1 /\ tPrime'[i] = fPrime[i]
  <2>1. \A i \in Query : fPrime[i] \in Nat /\ i < m
    BY <1>1, <1>3 DEF BaseInv, QueriesOK, Query
  <2> QED BY <1>3, <1>6, <1>8, <1>9, <2>1 DEF Bit
<1>11. at = 0 /\ at' = 0
  BY <1>1 DEF BaseInv, StartOK
<1>12. TakenOK'
  <2>1. Given' = {} /\ Used' = {}
    <3>1. \A j \in Row : unused[j] = 1
      BY <1>1 DEF BaseInv, StartOK
    <3> QED BY <1>1, <1>2, <1>3, <1>11, <3>1 DEF Given, Used, Row
  <2> DEFINE g == [x \in {} |-> 0]
  <2>2. Pairing(g, {}, {})
    BY DEF Pairing
  <2> HIDE DEF g
  <2>3. Pairing(g, Given', Used') /\ \A i \in Given' : t'[g[i]] = tPrime'[i]
    BY <2>1, <2>2
  <2> QED BY <2>3 DEF TakenOK, Pairing
<1>13. SizesOK' /\ QueriesOK'
  BY <1>1, <1>2 DEF BaseInv, SizesOK, QueriesOK
<1>14. MarkOK' /\ FirstsOK'
  <2>1. at' < m
    BY <1>3, <1>11
  <2>2. FirstsOK'
    BY <1>1, <1>2, <1>10 DEF FirstsOK, First
  <2>3. \A i \in Query : fDouble'[i] = Bit(i = 0 \/ fPrime'[i] # fPrime'[i - 1])
    BY <1>1, <1>9 DEF First
  <2>4. \A i \in Row : mask'[i] = 1 <=> i < m /\ (i = 0 \/ fPrime'[i] # fPrime'[i - 1])
    BY <1>1, <1>8 DEF First
  <2> QED BY <1>2, <2>1, <2>2, <2>3, <2>4, Zenon DEF MarkOK, First
<1> QED BY <1>1, <1>7, <1>12, <1>13, <1>14 DEF BaseInv, GapInv, PcOK, StartOK, FillOK, FilledOK


\* The element of a first occurrence is in the table, and not among those the
\* rows before it have got.
LEMMA MarkHits ==
    ASSUME BaseInv, GapInv, pc = "mark", QueriesInTable, First(at)
    PROVE  \E j \in Row : t[j] = fPrime[at] /\ unused[j] = 1
<1>1. /\ n \in Nat /\ m \in Nat /\ 2 <= m /\ m <= n
      /\ \A i \in Row : i < m => i \in Query
  BY QueryRows
<1>2. /\ input \in Inputs /\ unused \in [Row -> 0 .. 1] /\ at \in 0 .. n /\ at < m
  BY DEF BaseInv, TypeOK, MarkOK
<1>3. at \in Query /\ at \in Nat
  BY <1>1, <1>2 DEF Query
<1>4. /\ fPrime \in [Query -> Nat]
      /\ Permuted(f, fPrime, m)
      /\ \A x, y \in Query : x < y => fPrime[x] <= fPrime[y]
  BY DEF BaseInv, QueriesOK
<1>5. DOMAIN t = Row /\ DOMAIN f = Query
  BY <1>2, ArraysAre
<1>6. PICK j \in Row : t[j] = fPrime[at]
  <2>1. PICK p : Permutation(p, m) /\ \A i \in 0 .. m-1 : fPrime[i] = f[p[i]]
    BY <1>4 DEF Permuted
  <2>2. p[at] \in Query /\ fPrime[at] = f[p[at]]
    BY <1>3, <2>1 DEF Permutation, Query
  <2>3. \E j \in DOMAIN input.t : input.t[j] = input.f[p[at]]
    BY <1>2, <1>5, <2>2 DEF QueriesInTable, f
  <2> QED BY <1>5, <2>2, <2>3 DEF t, f
<1>7. ASSUME unused[j] # 1
      PROVE  FALSE
  <2>1. PICK g : Pairing(g, Given, Used) /\ \A i \in Given : t[g[i]] = tPrime[i]
    BY DEF GapInv, TakenOK
  <2>2. j \in Used
    BY <1>2, <1>7 DEF Used
  <2>3. PICK i \in Given : g[i] = j
    BY <2>1, <2>2 DEF Pairing
  <2>4. i \in Row /\ mask[i] = 1 /\ i < at
    BY <2>3 DEF Given
  <2>5. i \in Query /\ First(i) /\ i \in Nat
    BY <1>1, <2>4 DEF BaseInv, MarkOK, Query
  <2>6. fPrime[i] = fPrime[at]
    BY <1>6, <2>1, <2>3, <2>5 DEF BaseInv, FirstsOK
  <2>7. at # 0 /\ at - 1 \in Query /\ fPrime[at - 1] # fPrime[at]
    BY <1>1, <1>3, <2>4, <2>5 DEF First, Query
  <2>8. fPrime[i] <= fPrime[at - 1]
    BY <1>1, <1>3, <1>4, <2>4, <2>5, <2>7
  <2>9. fPrime[at - 1] <= fPrime[at]
    BY <1>3, <1>4, <2>7
  <2>10. fPrime[i] \in Nat /\ fPrime[at] \in Nat /\ fPrime[at - 1] \in Nat
    BY <1>3, <1>4, <2>5, <2>7
  <2> QED BY <2>6, <2>7, <2>8, <2>9, <2>10
<1> QED BY <1>6, <1>7

\* What Mark does to the table: it takes one of the elements, or none.
LEMMA MarkTakes ==
    ASSUME BaseInv, Mark
    PROVE  \/ /\ First(at)
              /\ \E h \in Row : /\ t[h] = fPrime[at] /\ unused[h] = 1
                                /\ unused' = [unused EXCEPT ![h] = 0]
           \/ /\ First(at) => \A j \in Row : ~ (t[j] = fPrime[at] /\ unused[j] = 1)
              /\ unused' = unused
<1> DEFINE hits == {j \in Row : t[j] = fPrime[at] /\ unused[j] = 1 /\ fDouble[at] = 1}
<1>1. unused' = IF hits = {} THEN unused ELSE [unused EXCEPT ![LowestOf(hits)] = 0]
  BY DEF Mark
<1>2. pc = "mark" /\ at < m /\ at \in 0 .. n
  BY DEF Mark, BaseInv, MarkOK, TypeOK
<1>3. n \in Nat /\ m \in Nat
  BY <1>2, QueryRows
<1>4. at \in Query
  BY <1>2, <1>3 DEF Query
<1>5. fDouble[at] = 1 <=> First(at)
  BY <1>2, <1>4 DEF BaseInv, MarkOK, Bit
<1>6. hits \in SUBSET Nat
  BY <1>3 DEF Row
<1>7. CASE hits = {}
  <2>1. unused' = unused
    BY <1>1, <1>7
  <2>2. First(at) => \A j \in Row : ~ (t[j] = fPrime[at] /\ unused[j] = 1)
    BY <1>5, <1>7
  <2> QED BY <2>1, <2>2
<1>8. CASE hits # {}
  <2> DEFINE h == LowestOf(hits)
  <2>1. h \in hits
    <3> HIDE DEF hits
    <3> QED BY <1>6, <1>8, LowestIs
  <2>2. unused' = [unused EXCEPT ![h] = 0]
    BY <1>1, <1>8
  <2> HIDE DEF h
  <2>3. h \in Row /\ t[h] = fPrime[at] /\ unused[h] = 1 /\ First(at)
    BY <1>5, <2>1
  <2> HIDE DEF hits
  <2> QED BY <2>2, <2>3
<1> QED BY <1>7, <1>8

LEMMA NaiveMarkBase ==
    ASSUME BaseInv, Mark
    PROVE  BaseInv'
<1>1. /\ input' = input /\ fPrime' = fPrime /\ fDouble' = fDouble /\ tPrime' = tPrime
      /\ mask' = mask /\ pc = "mark"
      /\ at' = IF at + 1 < m THEN at + 1 ELSE 0
      /\ pc' = IF at + 1 < m THEN "mark" ELSE "fill"
  BY DEF Mark
<1>2. /\ n' = n /\ m' = m /\ f' = f /\ t' = t /\ Row' = Row /\ Query' = Query
  BY <1>1 DEF n, m, t, f, Row, Query
<1>3. /\ n \in Nat /\ m \in Nat /\ 2 <= m /\ m <= n /\ at < m /\ at \in 0 .. n
  BY <1>1, QueryRows DEF BaseInv, TypeOK, MarkOK
<1>4. unused' \in [Row -> 0 .. 1]
  <2>1. unused \in [Row -> 0 .. 1]
    BY DEF BaseInv, TypeOK
  <2> QED BY <2>1, MarkTakes
<1>5. at' \in 0 .. n /\ at' < n /\ (pc' = "mark" => at' < m) /\ (pc' = "mark" \/ pc' = "fill")
  BY <1>1, <1>3
<1>6. TypeOK'
  BY <1>1, <1>2, <1>4, <1>5 DEF BaseInv, TypeOK
<1>7. SizesOK' /\ QueriesOK' /\ StartOK' /\ FillOK' /\ PcOK'
  BY <1>1, <1>2, <1>5 DEF BaseInv, SizesOK, QueriesOK, StartOK, FillOK, PcOK
<1>8. FirstsOK'
  BY <1>1, <1>2 DEF BaseInv, FirstsOK, First
<1>9. MarkOK'
  <2>1. /\ \A i \in Query : fDouble'[i] = Bit(i = 0 \/ fPrime'[i] # fPrime'[i - 1])
        /\ \A i \in Row : mask'[i] = 1 <=> i < m /\ (i = 0 \/ fPrime'[i] # fPrime'[i - 1])
    BY <1>1 DEF BaseInv, MarkOK, First
  <2> QED BY <1>2, <1>5, <2>1, Zenon DEF MarkOK, First
<1> QED BY <1>6, <1>7, <1>8, <1>9 DEF BaseInv

LEMMA NaiveMarkGap ==
    ASSUME BaseInv, GapInv, QueriesInTable, Mark
    PROVE  GapInv'
<1>1. /\ input' = input /\ fPrime' = fPrime /\ tPrime' = tPrime
      /\ mask' = mask /\ pc = "mark"
      /\ at' = IF at + 1 < m THEN at + 1 ELSE 0
      /\ pc' = IF at + 1 < m THEN "mark" ELSE "fill"
  BY DEF Mark
<1>2. /\ t' = t /\ Row' = Row
  BY <1>1 DEF n, t, Row
<1>3. /\ n \in Nat /\ m \in Nat /\ 2 <= m /\ m <= n /\ at < m /\ at \in 0 .. n
      /\ unused \in [Row -> 0 .. 1]
  BY <1>1, QueryRows DEF BaseInv, TypeOK, MarkOK
<1>4. \A i \in Row : mask[i] = 1 <=> i < m /\ First(i)
  BY <1>1 DEF BaseInv, MarkOK
<1>5. at \in Row /\ at \in Query /\ at \notin Given
  BY <1>1, <1>3 DEF Row, Query, Given
<1>6. Given = {i \in Row : mask[i] = 1 /\ i < at}
  BY <1>1 DEF Given
<1>7. Given' = {i \in Row : mask[i] = 1 /\ i < at + 1}
  <2>1. CASE at + 1 < m
    BY <1>1, <1>2, <2>1 DEF Given
  <2>2. CASE ~ (at + 1 < m)
    <3>1. \A i \in Row : mask[i] = 1 => i < at + 1
      BY <1>3, <1>4, <2>2 DEF Row
    <3>2. Given' = {i \in Row : mask[i] = 1}
      BY <1>1, <1>2, <2>2 DEF Given
    <3> QED BY <3>1, <3>2
  <2> QED BY <2>1, <2>2
<1>8. PICK g : Pairing(g, Given, Used) /\ \A i \in Given : t[g[i]] = tPrime[i]
  BY <1>1 DEF GapInv, TakenOK
<1>9. \E g2 : Pairing(g2, Given', Used') /\ \A i \in Given' : t[g2[i]] = tPrime[i]
  <2>1. CASE First(at)
    <3>1. \E j \in Row : t[j] = fPrime[at] /\ unused[j] = 1
      BY <1>1, <2>1, MarkHits
    <3>2. PICK h \in Row : /\ t[h] = fPrime[at] /\ unused[h] = 1
                           /\ unused' = [unused EXCEPT ![h] = 0]
      BY <2>1, <3>1, MarkTakes
    <3>3. Given' = Given \cup {at}
      BY <1>3, <1>4, <1>5, <1>6, <1>7, <2>1 DEF Row
    <3>4. Used' = Used \cup {h} /\ h \notin Used
      BY <1>2, <1>3, <3>2 DEF Used
    <3> DEFINE g2 == [x \in Given \cup {at} |-> IF x = at THEN h ELSE g[x]]
    <3>5. Pairing(g2, Given \cup {at}, Used \cup {h}) /\ g2[at] = h /\ \A x \in Given : g2[x] = g[x]
      BY <1>5, <1>8, <3>4, PairingMore
    <3> HIDE DEF g2
    <3>6. tPrime[at] = fPrime[at]
      BY <1>1, <1>5, <2>1 DEF BaseInv, FirstsOK
    <3>7. \A i \in Given \cup {at} : t[g2[i]] = tPrime[i]
      BY <1>8, <3>2, <3>5, <3>6
    <3> QED BY <3>3, <3>4, <3>5, <3>7
  <2>2. CASE ~ First(at)
    <3>1. unused' = unused
      BY <2>2, MarkTakes
    <3>2. Given' = Given
      BY <1>3, <1>4, <1>5, <1>6, <1>7, <2>2 DEF Row
    <3>3. Used' = Used
      BY <1>2, <3>1 DEF Used
    <3> QED BY <1>8, <3>2, <3>3
  <2> QED BY <2>1, <2>2
<1>10. TakenOK'
  BY <1>1, <1>2, <1>9, Zenon DEF TakenOK
<1>11. FilledOK'
  BY <1>1, <1>2, <1>3 DEF FilledOK, Row
<1> QED BY <1>10, <1>11 DEF GapInv


\* What Fill does: it gives an empty row the first element that is left, if one is.
LEMMA FillGives ==
    ASSUME BaseInv, Fill
    PROVE  \/ /\ mask[at] = 0
              /\ \E h \in Row : /\ unused[h] = 1 /\ \A j \in Row : unused[j] = 1 => h <= j
                                /\ unused' = [unused EXCEPT ![h] = 0]
                                /\ tPrime' = [tPrime EXCEPT ![at] = t[h]]
                                /\ mask' = [mask EXCEPT ![at] = 1]
           \/ /\ mask[at] = 0 => \A j \in Row : unused[j] # 1
              /\ unused' = unused /\ tPrime' = tPrime /\ mask' = mask
<1> DEFINE left == {j \in Row : mask[at] = 0 /\ unused[j] = 1}
<1>1. /\ tPrime' = IF left = {} THEN tPrime ELSE [tPrime EXCEPT ![at] = t[LowestOf(left)]]
      /\ unused' = IF left = {} THEN unused ELSE [unused EXCEPT ![LowestOf(left)] = 0]
      /\ mask' = [mask EXCEPT ![at] = @ + Bit(left # {})]
  BY DEF Fill
<1>2. pc = "fill" /\ at < n /\ at \in 0 .. n /\ mask \in [Row -> 0 .. 1]
  BY DEF Fill, BaseInv, FillOK, TypeOK
<1>3. n \in Nat /\ at \in Row
  BY <1>2, QueryRows DEF Row
<1>4. left \in SUBSET Nat
  BY <1>3 DEF Row
<1>5. CASE left = {}
  <2>1. mask[at] + Bit(left # {}) = mask[at]
    BY <1>2, <1>3, <1>5 DEF Bit
  <2>2. mask' = [mask EXCEPT ![at] = mask[at]]
    BY <1>1, <2>1
  <2>3. mask' = mask
    BY <1>2, <2>2
  <2>4. mask[at] = 0 => \A j \in Row : unused[j] # 1
    BY <1>5
  <2> HIDE DEF left
  <2> QED BY <1>1, <1>5, <2>3, <2>4
<1>6. CASE left # {}
  <2> DEFINE h == LowestOf(left)
  <2>1. h \in left
    <3> HIDE DEF left
    <3> QED BY <1>4, <1>6, LowestIs
  <2>2. unused' = [unused EXCEPT ![h] = 0] /\ tPrime' = [tPrime EXCEPT ![at] = t[h]]
    BY <1>1, <1>6
  <2> HIDE DEF h
  <2>3. h \in Row /\ unused[h] = 1 /\ mask[at] = 0
    BY <2>1
  <2>6. \A j \in Row : unused[j] = 1 => h <= j
    <3>1. \A j \in left : h <= j
      BY <1>4, <1>6, LowestIs DEF h
    <3> QED BY <2>3, <3>1
  <2>4. mask[at] + Bit(left # {}) = 1
    <3> HIDE DEF left
    <3> QED BY <1>6, <2>3 DEF Bit
  <2>5. mask' = [mask EXCEPT ![at] = 1]
    BY <1>1, <2>4
  <2> HIDE DEF left
  <2> QED BY <2>2, <2>3, <2>5, <2>6
<1> QED BY <1>5, <1>6

LEMMA NaiveFillBase ==
    ASSUME BaseInv, Fill
    PROVE  BaseInv'
<1>1. /\ input' = input /\ fPrime' = fPrime /\ fDouble' = fDouble
      /\ pc = "fill" /\ at' = at + 1
      /\ pc' = IF at + 1 < n THEN "fill" ELSE "returned"
  BY DEF Fill
<1>2. /\ n' = n /\ m' = m /\ f' = f /\ t' = t /\ Row' = Row /\ Query' = Query
  BY <1>1 DEF n, m, t, f, Row, Query
<1>3. /\ n \in Nat /\ m \in Nat /\ at < n /\ at \in 0 .. n /\ at \in Row
      /\ \A i \in Query : i \in Row
  BY <1>1, QueryRows DEF BaseInv, TypeOK, FillOK, Row
<1>4. DOMAIN tPrime = Row /\ mask \in [Row -> 0 .. 1] /\ unused \in [Row -> 0 .. 1]
  BY DEF BaseInv, TypeOK
<1>5. DOMAIN tPrime' = Row /\ mask' \in [Row -> 0 .. 1] /\ unused' \in [Row -> 0 .. 1]
  BY <1>3, <1>4, FillGives
<1>6. at' \in 0 .. n /\ (pc' = "fill" => at' < n) /\ (pc' = "fill" \/ pc' = "returned")
  BY <1>1, <1>3
<1>7. TypeOK'
  BY <1>1, <1>2, <1>5, <1>6 DEF BaseInv, TypeOK
<1>8. SizesOK' /\ QueriesOK' /\ StartOK' /\ FillOK' /\ PcOK' /\ MarkOK'
  BY <1>1, <1>2, <1>6 DEF BaseInv, SizesOK, QueriesOK, StartOK, FillOK, PcOK, MarkOK
<1>9. \A i \in Query : First(i) => mask'[i] = 1 /\ tPrime'[i] = fPrime[i]
  <2> SUFFICES ASSUME NEW i \in Query, First(i)
               PROVE  mask'[i] = 1 /\ tPrime'[i] = fPrime[i]
    OBVIOUS
  <2>1. mask[i] = 1 /\ tPrime[i] = fPrime[i] /\ i \in Row
    BY <1>1, <1>3 DEF BaseInv, FirstsOK
  <2> QED BY <1>3, <1>4, <2>1, FillGives
<1>10. FirstsOK'
  BY <1>1, <1>2, <1>9 DEF FirstsOK, First
<1> QED BY <1>7, <1>8, <1>10 DEF BaseInv

\* An empty row finds an element: the rows given are fewer than all.
LEMMA UnusedLeft ==
    ASSUME BaseInv, GapInv, pc = "fill", NEW i \in Row, mask[i] = 0
    PROVE  \E j \in Row : unused[j] = 1
<1>1. Given = {r \in Row : mask[r] = 1} /\ unused \in [Row -> 0 .. 1]
  BY DEF Given, BaseInv, TypeOK
<1>2. PICK g : Pairing(g, Given, Used)
  BY DEF GapInv, TakenOK
<1>3. Given # Row
  BY <1>1
<1>4. Given \in SUBSET Row /\ Used \in SUBSET Row /\ IsFiniteSet(Row)
  BY ArraysAre DEF Given, Used, BaseInv, TypeOK
<1>5. Used # Row
  BY <1>2, <1>3, <1>4, PairingFills
<1>6. PICK j \in Row : j \notin Used
  BY <1>4, <1>5
<1>7. unused[j] = 1
  BY <1>1, <1>6 DEF Used
<1> QED BY <1>7

LEMMA NaiveFillGap ==
    ASSUME BaseInv, GapInv, Fill
    PROVE  GapInv'
<1>1. /\ input' = input /\ pc = "fill" /\ at' = at + 1
      /\ pc' = IF at + 1 < n THEN "fill" ELSE "returned"
  BY DEF Fill
<1>2. /\ t' = t /\ Row' = Row
  BY <1>1 DEF n, t, Row
<1>3. /\ n \in Nat /\ at < n /\ at \in Nat /\ at \in Row
      /\ DOMAIN tPrime = Row /\ mask \in [Row -> 0 .. 1] /\ unused \in [Row -> 0 .. 1]
  BY <1>1, QueryRows DEF BaseInv, TypeOK, FillOK, Row
<1>4. Given = {i \in Row : mask[i] = 1} /\ Given' = {i \in Row : mask'[i] = 1}
  BY <1>1, <1>2 DEF Given
<1>5. PICK g : Pairing(g, Given, Used) /\ \A i \in Given : t[g[i]] = tPrime[i]
  BY <1>1 DEF GapInv, TakenOK
<1>6. /\ \E g2 : Pairing(g2, Given', Used') /\ \A i \in Given' : t[g2[i]] = tPrime'[i]
      /\ mask'[at] = 1
      /\ \A i \in Row : mask[i] = 1 => mask'[i] = 1
  <2>1. CASE mask[at] = 0
    <3>1. \E j \in Row : unused[j] = 1
      BY <1>1, <1>3, <2>1, UnusedLeft
    <3>2. PICK h \in Row : /\ unused[h] = 1
                           /\ unused' = [unused EXCEPT ![h] = 0]
                           /\ tPrime' = [tPrime EXCEPT ![at] = t[h]]
                           /\ mask' = [mask EXCEPT ![at] = 1]
      BY <2>1, <3>1, FillGives
    <3>3. Given' = Given \cup {at} /\ at \notin Given
      BY <1>3, <1>4, <2>1, <3>2
    <3>4. Used' = Used \cup {h} /\ h \notin Used
      BY <1>2, <1>3, <3>2 DEF Used
    <3> DEFINE g2 == [x \in Given \cup {at} |-> IF x = at THEN h ELSE g[x]]
    <3>5. Pairing(g2, Given \cup {at}, Used \cup {h}) /\ g2[at] = h /\ \A x \in Given : g2[x] = g[x]
      BY <1>5, <3>3, <3>4, PairingMore
    <3> HIDE DEF g2
    <3>6. tPrime'[at] = t[h] /\ \A i \in Given : tPrime'[i] = tPrime[i]
      BY <1>3, <1>4, <3>2, <3>3
    <3>7. \A i \in Given \cup {at} : t[g2[i]] = tPrime'[i]
      BY <1>5, <3>5, <3>6
    <3>8. mask'[at] = 1 /\ \A i \in Row : mask[i] = 1 => mask'[i] = 1
      BY <1>3, <3>2
    <3> QED BY <3>3, <3>4, <3>5, <3>7, <3>8
  <2>2. CASE mask[at] # 0
    <3>1. unused' = unused /\ tPrime' = tPrime /\ mask' = mask /\ mask[at] = 1
      BY <1>3, <2>2, FillGives
    <3>2. Given' = Given /\ Used' = Used
      BY <1>2, <1>4, <3>1 DEF Used
    <3> QED BY <1>5, <3>1, <3>2
  <2> QED BY <2>1, <2>2
<1>7. TakenOK'
  BY <1>1, <1>2, <1>6, Zenon DEF TakenOK
<1>8. \A i \in Row : i < at + 1 => mask'[i] = 1
  <2>1. mask'[at] = 1 /\ \A i \in Row : mask[i] = 1 => mask'[i] = 1
    BY <1>6, Zenon
  <2>2. \A i \in Row : i < at => mask[i] = 1
    BY <1>1 DEF GapInv, FilledOK
  <2>3. \A i \in Row : i < at + 1 => i < at \/ i = at
    BY <1>3 DEF Row
  <2> QED BY <2>1, <2>2, <2>3
<1>9. ~ (at + 1 < n) => \A i \in Row : i < at + 1
  BY <1>3 DEF Row
<1>10. FilledOK'
  <2>1. CASE at + 1 < n
    BY <1>1, <1>2, <1>8, <2>1 DEF FilledOK
  <2>2. CASE ~ (at + 1 < n)
    BY <1>1, <1>2, <1>8, <1>9, <2>2 DEF FilledOK
  <2> QED BY <2>1, <2>2
<1> QED BY <1>7, <1>10 DEF GapInv

LEMMA NaiveStutter ==
    ASSUME BaseInv, UNCHANGED vars
    PROVE  BaseInv' /\ (GapInv => GapInv')
<1>1. /\ input' = input /\ fPrime' = fPrime /\ fDouble' = fDouble /\ tPrime' = tPrime
      /\ mask' = mask /\ unused' = unused /\ at' = at /\ pc' = pc
  BY DEF vars
<1>2. /\ n' = n /\ m' = m /\ f' = f /\ t' = t /\ Row' = Row /\ Query' = Query
  BY <1>1 DEF n, m, t, f, Row, Query
<1>3. BaseInv'
  <2>1. TypeOK' /\ PcOK' /\ SizesOK' /\ StartOK' /\ QueriesOK' /\ FillOK'
    BY <1>1, <1>2 DEF BaseInv, TypeOK, PcOK, SizesOK, StartOK, QueriesOK, FillOK
  <2>2. FirstsOK'
    BY <1>1, <1>2 DEF BaseInv, FirstsOK, First
  <2>3. MarkOK'
    BY <1>1, <1>2 DEF BaseInv, MarkOK, First
  <2> QED BY <2>1, <2>2, <2>3 DEF BaseInv
<1>4. ASSUME GapInv
      PROVE  GapInv'
  <2>1. Given' = Given /\ Used' = Used
    BY <1>1, <1>2 DEF Given, Used
  <2> QED BY <1>1, <1>2, <1>4, <2>1 DEF GapInv, TakenOK, FilledOK
<1> QED BY <1>3, <1>4

\* The inductive invariant: the first part for every input, the second for
\* queries that are in the table.
NaiveInv == BaseInv /\ (QueriesInTable => GapInv)

LEMMA NaiveKept ==
    ASSUME NaiveInv, [Next]_vars
    PROVE  NaiveInv'
<1> SUFFICES BaseInv' /\ (QueriesInTable => GapInv')
  BY DEF NaiveInv, QueriesInTable
<1>1. CASE Reject
  BY <1>1, NaiveReject DEF NaiveInv
<1>2. CASE SortQueries
  BY <1>2, NaiveSortQueries DEF NaiveInv
<1>3. CASE Place
  BY <1>3, NaivePlace DEF NaiveInv
<1>4. CASE Mark
  BY <1>4, NaiveMarkBase, NaiveMarkGap DEF NaiveInv
<1>5. CASE Fill
  BY <1>5, NaiveFillBase, NaiveFillGap DEF NaiveInv
<1>6. CASE UNCHANGED vars
  BY <1>6, NaiveStutter DEF NaiveInv
<1> QED BY <1>1, <1>2, <1>3, <1>4, <1>5, <1>6 DEF Next

THEOREM NaiveInductive == Spec => []NaiveInv
<1>1. Init => NaiveInv
  BY NaiveInit DEF NaiveInv
<1> QED BY <1>1, NaiveKept, PTL DEF Spec


-----------------------------------------------------------------------------
(* What follows from it.                                                   *)

\* The naive permutation keeps its arrays at the size of the table and its
\* indicators bits, for every table and all queries.
THEOREM NaiveTypeOK == Spec => []TypeOK
<1>1. NaiveInv => TypeOK
  BY DEF NaiveInv, BaseInv
<1> QED BY <1>1, NaiveInductive, PTL

LEMMA NaiveGapCounts ==
    ASSUME QueriesInTable, NaiveInv
    PROVE  OneForEachGap
<1> SUFFICES ASSUME pc = "fill"
             PROVE  Cardinality({j \in Row : unused[j] = 1}) = Cardinality({i \in Row : mask[i] = 0})
  BY DEF OneForEachGap
<1>1. PICK g : Pairing(g, Given, Used)
  BY DEF NaiveInv, GapInv, TakenOK
<1>2. /\ IsFiniteSet(Row) /\ mask \in [Row -> 0 .. 1] /\ unused \in [Row -> 0 .. 1]
      /\ Given \in SUBSET Row /\ Used \in SUBSET Row
  BY ArraysAre DEF NaiveInv, BaseInv, TypeOK, Given, Used
<1>3. Cardinality(Row \ Given) = Cardinality(Row \ Used)
  BY <1>1, <1>2, PairingFills
<1>4. \A i \in Row : i \notin Given <=> mask[i] = 0
  <2>1. \A i \in Row : mask[i] = 0 \/ mask[i] = 1
    BY <1>2
  <2>2. \A i \in Row : i \in Given <=> mask[i] = 1
    BY DEF Given
  <2> QED BY <2>1, <2>2
<1>5. \A j \in Row : j \notin Used <=> unused[j] = 1
  BY <1>2 DEF Used
<1>6. Row \ Given = {i \in Row : mask[i] = 0} /\ Row \ Used = {j \in Row : unused[j] = 1}
  BY <1>4, <1>5, Zenon
<1> QED BY <1>3, <1>6, Zenon

\* When the rows are filled, there is one unused element for every empty row,
\* whatever the table, as long as the queries are in it.
THEOREM NaiveOneForEachGap ==
    ASSUME QueriesInTable
    PROVE  Spec => []OneForEachGap
BY NaiveGapCounts, NaiveInductive, PTL

\* When the naive permutation has returned, t' is t and f' is f, both in
\* another order.
LEMMA NaivePermutes ==
    ASSUME QueriesInTable, NaiveInv, pc = "returned"
    PROVE  /\ n \in Nat /\ m \in Nat
           /\ DOMAIN t = Row /\ DOMAIN tPrime = Row /\ DOMAIN f = Query /\ DOMAIN fPrime = Query
           /\ Permuted(t, tPrime, n) /\ Permuted(f, fPrime, m)
           /\ \A i \in Query : First(i) => fPrime[i] = tPrime[i]
<1>1. BaseInv /\ GapInv
  BY DEF NaiveInv
<1>2. /\ n \in Nat /\ m \in Nat /\ IsFiniteSet(Row)
      /\ DOMAIN t = Row /\ DOMAIN tPrime = Row /\ DOMAIN f = Query
  BY <1>1, ArraysAre DEF BaseInv, TypeOK
<1>3. DOMAIN fPrime = Query /\ Permuted(f, fPrime, m)
  BY <1>1 DEF BaseInv, QueriesOK
<1>4. \A i \in Query : First(i) => fPrime[i] = tPrime[i]
  BY <1>1 DEF BaseInv, FirstsOK
<1>5. Permuted(t, tPrime, n)
  <2>1. PICK g : Pairing(g, Given, Used) /\ \A i \in Given : t[g[i]] = tPrime[i]
    BY <1>1 DEF GapInv, TakenOK
  <2>2. Given = Row /\ Used \in SUBSET Row
    BY <1>1 DEF GapInv, FilledOK, Given, Used
  <2>3. Used = Row
    BY <1>2, <2>1, <2>2, PairingFills
  <2>4. Permutation(g, n)
    BY <2>1, <2>2, <2>3 DEF Pairing, Permutation, Row
  <2>5. \A i \in 0 .. n-1 : tPrime[i] = t[g[i]]
    BY <2>1, <2>2 DEF Row
  <2> QED BY <2>4, <2>5 DEF Permuted
<1> QED BY <1>2, <1>3, <1>4, <1>5

\* The abstract specification counts alike.
LEMMA LookupCounts == \A S : Abstract!Cardinality(S) = Cardinality(S)
BY DEF Abstract!Cardinality, Cardinality

LEMMA PermutedRearranged ==
    ASSUME NEW len \in Nat, NEW a, NEW b, DOMAIN a = 0 .. len-1, DOMAIN b = 0 .. len-1,
           Permuted(a, b, len)
    PROVE  Abstract!Rearranged(a, b)
<1>1. ASSUME NEW x
      PROVE  Abstract!Count(a, x) = Abstract!Count(b, x)
  <2>1. Often(a, len, x) = Often(b, len, x)
    BY PermutedOccurs
  <2>2. /\ Abstract!Count(a, x) = Often(a, len, x)
        /\ Abstract!Count(b, x) = Often(b, len, x)
    BY LookupCounts DEF Abstract!Count, Often
  <2> QED BY <2>1, <2>2, Zenon
<1> QED BY <1>1 DEF Abstract!Rearranged

\* What a state that has returned shows.
NaiveReturned == pc = "returned" => Abstract!Permutes(input, [t |-> tPrime, f |-> fPrime])

LEMMA NaiveReturnedIs ==
    ASSUME QueriesInTable
    PROVE  NaiveInv => NaiveReturned
<1> SUFFICES ASSUME NaiveInv, pc = "returned"
             PROVE  Abstract!Permutes(input, [t |-> tPrime, f |-> fPrime])
  BY DEF NaiveReturned
<1>1. /\ n \in Nat /\ m \in Nat
      /\ DOMAIN t = Row /\ DOMAIN tPrime = Row /\ DOMAIN f = Query /\ DOMAIN fPrime = Query
      /\ Permuted(t, tPrime, n) /\ Permuted(f, fPrime, m)
      /\ \A i \in Query : First(i) => fPrime[i] = tPrime[i]
  BY NaivePermutes
<1>2. Abstract!Rearranged(t, tPrime)
  BY <1>1, PermutedRearranged DEF Row
<1>3. Abstract!Rearranged(f, fPrime)
  BY <1>1, PermutedRearranged DEF Query
<1>4. \A i \in DOMAIN fPrime : Abstract!FirstOccurrence(fPrime, i) => fPrime[i] = tPrime[i]
  BY <1>1 DEF Abstract!FirstOccurrence, First
<1> DEFINE out == [t |-> tPrime, f |-> fPrime]
<1>5. out.t = tPrime /\ out.f = fPrime
  OBVIOUS
<1> HIDE DEF out
<1>6. Abstract!Permutes(input, out)
  BY <1>2, <1>3, <1>4, <1>5 DEF Abstract!Permutes, t, f
<1> QED BY <1>6 DEF out

LEMMA NaiveSizesFit ==
    ASSUME NaiveInv
    PROVE  Abstract!SizesFit(input.t, input.f) <=>
             m <= n /\ PowerOfTwo(m) /\ PowerOfTwo(n) /\ Sortable(m)
<1>1. Abstract!Length(input.t) = n /\ Abstract!Length(input.f) = m
  BY LookupCounts DEF Abstract!Length, n, m, t, f
<1>2. \A x : Abstract!Sortable(x) <=> x >= 2 /\ PowerOfTwo(x)
  BY DEF Abstract!Sortable, Abstract!PowerOfTwo, PowerOfTwo
<1>3. n \in Nat /\ m \in Nat
  BY ArraysAre DEF NaiveInv, BaseInv, TypeOK
<1>4. Abstract!SizesFit(input.t, input.f) <=>
        (n >= 2 /\ PowerOfTwo(n)) /\ (m >= 2 /\ PowerOfTwo(m)) /\ m <= n
  BY <1>1, <1>2, Zenon DEF Abstract!SizesFit
<1>5. Sortable(m) <=> m >= 2 /\ PowerOfTwo(m)
  BY DEF Sortable
<1> QED BY <1>3, <1>4, <1>5

LEMMA NaiveImplements ==
    ASSUME NaiveInv, NaiveReturned', [Next]_vars
    PROVE  [Abstract!LNext]_(Abstract!lvars)
<1>1. CASE Reject
  BY <1>1, NaiveSizesFit DEF Reject, Abstract!LNext, Abstract!LReject
<1>2. CASE Fill /\ pc' = "returned"
  <2>1. /\ input' = input /\ pc = "fill" /\ pc' = "returned"
        /\ m <= n /\ PowerOfTwo(n) /\ Sortable(m)
    BY <1>2 DEF Fill, NaiveInv, BaseInv, SizesOK
  <2>2. Abstract!SizesFit(input.t, input.f)
    BY <2>1, NaiveSizesFit DEF Sortable
  <2>3. Abstract!Permutes(input', [t |-> tPrime', f |-> fPrime'])
    BY <2>1 DEF NaiveReturned
  <2> QED BY <2>1, <2>2, <2>3 DEF Abstract!LNext, Abstract!LReturn
<1>3. CASE SortQueries \/ Place \/ Mark \/ (Fill /\ pc' # "returned")
  <2>1. input' = input /\ pc \in {"sort", "place", "mark", "fill"} /\ pc' \in {"place", "mark", "fill"}
    BY <1>3 DEF SortQueries, Place, Mark, Fill
  <2> QED BY <2>1 DEF Abstract!lvars
<1>4. CASE UNCHANGED vars
  BY <1>4 DEF vars, Abstract!lvars
<1> QED BY <1>1, <1>2, <1>3, <1>4 DEF Next

\* The naive permutation implements Lookup: it panics for exactly the sizes
\* that do not fit, and what it returns is the table and the queries, each
\* rearranged, with every query at the row of its first occurrence.
THEOREM NaivePromised ==
    ASSUME QueriesInTable
    PROVE  Spec => Promised
<1>1. Init => Abstract!LInit
  BY DEF Init, Abstract!LInit
<1> QED BY <1>1, NaiveReturnedIs, NaiveImplements, NaiveInductive, PTL
        DEF Spec, Promised, Abstract!LSpec

-----------------------------------------------------------------------------
(* The order in which the rows are filled, for a table of distinct         *)
(* elements.                                                               *)

\* The rows that no first occurrence takes, and the elements nobody asks for.
Gaps == {i \in Row : ~ (i < m /\ First(i))}
Spare == {j \in Row : \A x \in Query : f[x] # t[j]}

\* An element is unused until the loop is past a query for it.
MarkedOK ==
    pc = "mark" => \A j \in Row : unused[j] = 1 <=> \A x \in Query : x < at => fPrime[x] # t[j]

\* Which element a gap has got: they are given from the first one on.
Gives(b, D) ==
    /\ b \in [D -> Spare]
    /\ \A x, y \in D : x < y => b[x] < b[y]
    /\ \A i \in D : tPrime[i] = t[b[i]] /\ unused[b[i]] = 0
    /\ \A j \in Spare : unused[j] = 0 => \E i \in D : b[i] = j
    /\ \A j \in Row : unused[j] = 1 => j \in Spare /\ \A i \in D : b[i] < j

Done == {i \in Gaps : i < at}

GivenOK == pc \in {"fill", "returned"} => \E b : Gives(b, Done)

EmptyOK == pc = "fill" => \A i \in Row : ~ (i < at) => (mask[i] = 0 <=> i \in Gaps)

EndOK == pc = "returned" => at = n

OrderInv == MarkedOK /\ GivenOK /\ EmptyOK /\ EndOK

LEMMA NaiveMarked ==
    ASSUME BaseInv, Distinct, MarkedOK, Mark
    PROVE  \A j \in Row : unused'[j] = 1 <=> \A x \in Query : x < at + 1 => fPrime[x] # t[j]
<1>1. pc = "mark"
  BY DEF Mark
<1>2. /\ m \in Nat /\ at \in Nat /\ at < m /\ unused \in [Row -> 0 .. 1]
  BY <1>1, QueryRows DEF BaseInv, TypeOK, MarkOK
<1>3. at \in Query /\ \A x \in Query : x < at + 1 <=> x < at \/ x = at
  BY <1>2 DEF Query
<1>4. \A j \in Row : unused[j] = 1 <=> \A x \in Query : x < at => fPrime[x] # t[j]
  BY <1>1 DEF MarkedOK
<1> SUFFICES ASSUME NEW j \in Row
             PROVE  unused'[j] = 1 <=> \A x \in Query : x < at + 1 => fPrime[x] # t[j]
  OBVIOUS
<1>5. (\A x \in Query : x < at + 1 => fPrime[x] # t[j]) <=> unused[j] = 1 /\ fPrime[at] # t[j]
  BY <1>3, <1>4
<1>6. CASE \E h \in Row : /\ t[h] = fPrime[at] /\ unused[h] = 1
                          /\ unused' = [unused EXCEPT ![h] = 0]
  <2>1. PICK h \in Row : t[h] = fPrime[at] /\ unused' = [unused EXCEPT ![h] = 0]
    BY <1>6
  <2>2. j = h <=> t[j] = fPrime[at]
    BY <2>1 DEF Distinct
  <2>3. unused'[j] = 1 <=> j # h /\ unused[j] = 1
    BY <1>2, <2>1
  <2> QED BY <1>5, <2>2, <2>3
<1>7. CASE /\ First(at) => \A i \in Row : ~ (t[i] = fPrime[at] /\ unused[i] = 1)
           /\ unused' = unused
  <2>1. ASSUME unused[j] = 1, fPrime[at] = t[j]
        PROVE  FALSE
    <3>1. ~ First(at)
      BY <1>7, <2>1
    <3>2. at # 0 /\ fPrime[at - 1] = fPrime[at]
      BY <3>1 DEF First
    <3>3. at - 1 \in Query /\ at - 1 < at
      BY <1>2, <3>2 DEF Query
    <3> QED BY <1>4, <2>1, <3>2, <3>3
  <2> QED BY <1>5, <1>7, <2>1
<1> QED BY <1>6, <1>7, MarkTakes

\* What no query asks for, f' does not have either.
LEMMA SpareIs ==
    ASSUME BaseInv, pc = "mark"
    PROVE  \A j \in Row : j \in Spare <=> \A x \in Query : fPrime[x] # t[j]
<1>1. PICK p : Permutation(p, m) /\ \A i \in 0 .. m-1 : fPrime[i] = f[p[i]]
  BY DEF BaseInv, QueriesOK, Permuted
<1>2. \A i \in Query : p[i] \in Query /\ fPrime[i] = f[p[i]]
  BY <1>1 DEF Permutation, Query
<1>3. \A x \in Query : \E i \in Query : p[i] = x
  BY <1>1 DEF Permutation, Query
<1> QED BY <1>2, <1>3 DEF Spare

LEMMA NaiveMarkOrder ==
    ASSUME BaseInv, Distinct, OrderInv, Mark
    PROVE  OrderInv'
<1>1. /\ input' = input /\ fPrime' = fPrime /\ tPrime' = tPrime /\ mask' = mask /\ pc = "mark"
      /\ at' = IF at + 1 < m THEN at + 1 ELSE 0
      /\ pc' = IF at + 1 < m THEN "mark" ELSE "fill"
  BY DEF Mark
<1>2. /\ n' = n /\ m' = m /\ f' = f /\ t' = t /\ Row' = Row /\ Query' = Query
      /\ Spare' = Spare
  BY <1>1 DEF n, m, t, f, Row, Query, Spare
<1>3. Gaps' = Gaps
  BY <1>1, <1>2 DEF Gaps, First
<1>4. /\ m \in Nat /\ n \in Nat /\ at \in Nat /\ at < m /\ mask \in [Row -> 0 .. 1]
      /\ unused' \in [Row -> 0 .. 1]
  <2>1. unused' \in [Row -> 0 .. 1]
    BY <1>2, NaiveMarkBase DEF BaseInv, TypeOK
  <2> QED BY <1>1, <2>1, QueryRows DEF BaseInv, TypeOK, MarkOK
<1>5. \A j \in Row : unused'[j] = 1 <=> \A x \in Query : x < at + 1 => fPrime[x] # t[j]
  BY NaiveMarked DEF OrderInv
<1>6. CASE at + 1 < m
  <2>1. pc' = "mark" /\ at' = at + 1
    BY <1>1, <1>6
  <2> QED BY <1>1, <1>2, <1>5, <2>1 DEF OrderInv, MarkedOK, GivenOK, EmptyOK, EndOK
<1>7. CASE ~ (at + 1 < m)
  <2>1. pc' = "fill" /\ at' = 0
    BY <1>1, <1>7
  <2>2. \A x \in Query : x < at + 1
    BY <1>4, <1>7 DEF Query
  <2>3. \A j \in Row : unused'[j] = 1 <=> j \in Spare
    BY <1>1, <1>5, <2>2, SpareIs
  <2>4. Done' = {}
    BY <1>3, <1>4, <2>1 DEF Done, Gaps, Row
  <2> DEFINE b == [x \in {} |-> 0]
  <2>5. Gives(b, {})'
    <3>1. \A j \in Spare : j \in Row /\ unused'[j] # 0
      BY <2>3 DEF Spare
    <3> QED BY <1>2, <2>3, <3>1 DEF Gives
  <2> HIDE DEF b
  <2>6. GivenOK'
    <3>1. \E b2 : Gives(b2, {})'
      BY <2>5
    <3> QED BY <2>4, <3>1 DEF GivenOK
  <2>7. EmptyOK'
    <3>1. \A i \in Row : mask[i] = 1 <=> i < m /\ First(i)
      BY <1>1 DEF BaseInv, MarkOK
    <3>2. \A i \in Row : mask[i] = 0 \/ mask[i] = 1
      BY <1>4
    <3>3. \A i \in Row : mask[i] = 0 <=> i \in Gaps
      BY <3>1, <3>2 DEF Gaps
    <3> QED BY <1>1, <1>2, <1>3, <3>3 DEF EmptyOK
  <2> QED BY <2>1, <2>6, <2>7 DEF OrderInv, MarkedOK, EndOK
<1> QED BY <1>6, <1>7

\* A gap is given the first element that is left, which comes after all that
\* have been given.
LEMMA GivesMore ==
    ASSUME BaseInv, NEW D \in SUBSET Nat, NEW b, Gives(b, D),
           NEW i \in Row, \A x \in D : x < i, i \in Nat, DOMAIN tPrime = Row, D \subseteq Row,
           unused \in [Row -> 0 .. 1],
           NEW h \in Row, unused[h] = 1, \A j \in Row : unused[j] = 1 => h <= j,
           n \in Nat, input' = input,
           unused' = [unused EXCEPT ![h] = 0], tPrime' = [tPrime EXCEPT ![i] = t[h]]
    PROVE  \E b2 : Gives(b2, D \cup {i})'
<1> DEFINE b2 == [x \in D \cup {i} |-> IF x = i THEN h ELSE b[x]]
<1>1. /\ Row' = Row /\ Spare' = Spare /\ t' = t
  BY DEF n, m, t, f, Row, Query, Spare
<1>2. h \in Spare /\ \A x \in D : b[x] < h
  BY DEF Gives
<1>3. b2[i] = h /\ \A x \in D : b2[x] = b[x] /\ x # i
  OBVIOUS
<1>4. b2 \in [D \cup {i} -> Spare]
  BY <1>2 DEF Gives
<1> HIDE DEF b2
<1>5. ASSUME NEW x \in D \cup {i}, NEW y \in D \cup {i}, x < y
      PROVE  b2[x] < b2[y]
  <2>1. CASE y = i
    <3>1. x \in D
      BY <1>5, <2>1
    <3> QED BY <1>2, <1>3, <2>1, <3>1
  <2>2. CASE y # i
    <3>1. y \in D /\ y < i
      BY <2>2
    <3>2. x \in D
      BY <1>5, <3>1
    <3>3. b[x] < b[y]
      BY <1>5, <3>1, <3>2 DEF Gives
    <3> QED BY <1>3, <3>1, <3>2, <3>3
  <2> QED BY <2>1, <2>2
<1>6. \A j \in Row : unused'[j] = IF j = h THEN 0 ELSE unused[j]
  OBVIOUS
<1>7. \A x \in Row : tPrime'[x] = IF x = i THEN t[h] ELSE tPrime[x]
  OBVIOUS
<1>8. \A x \in D : b[x] \in Row /\ tPrime[x] = t[b[x]] /\ unused[b[x]] = 0 /\ x \in Row
  BY DEF Gives, Spare
<1>9. ASSUME NEW x \in D \cup {i}
      PROVE  tPrime'[x] = t[b2[x]] /\ unused'[b2[x]] = 0
  <2>1. CASE x = i
    BY <1>3, <1>6, <1>7, <2>1
  <2>2. CASE x # i
    BY <1>3, <1>6, <1>7, <1>8, <2>2
  <2> QED BY <2>1, <2>2
<1>10. ASSUME NEW j \in Spare, unused'[j] = 0
       PROVE  \E x \in D \cup {i} : b2[x] = j
  <2>1. CASE j = h
    BY <1>3, <2>1
  <2>2. CASE j # h
    <3>1. j \in Row /\ unused[j] = 0
      BY <1>6, <1>10, <2>2 DEF Spare
    <3>2. PICK x \in D : b[x] = j
      BY <3>1 DEF Gives
    <3> QED BY <1>3, <3>2
  <2> QED BY <2>1, <2>2
<1>11. ASSUME NEW j \in Row, unused'[j] = 1
       PROVE  j \in Spare /\ \A x \in D \cup {i} : b2[x] < j
  <2>1. j # h /\ unused[j] = 1
    BY <1>6, <1>11
  <2>2. j \in Spare /\ (\A x \in D : b[x] < j) /\ h <= j
    BY <2>1 DEF Gives
  <2>3. h < j
    BY <2>1, <2>2 DEF Row
  <2> QED BY <1>3, <2>2, <2>3
<1>12. Gives(b2, D \cup {i})'
  BY <1>1, <1>4, <1>5, <1>9, <1>10, <1>11, Zenon DEF Gives
<1> QED BY <1>12

LEMMA NaiveFillOrder ==
    ASSUME BaseInv, GapInv, OrderInv, Fill
    PROVE  OrderInv'
<1>1. /\ input' = input /\ fPrime' = fPrime /\ pc = "fill" /\ at' = at + 1
      /\ pc' = IF at + 1 < n THEN "fill" ELSE "returned"
  BY DEF Fill
<1>2. /\ n' = n /\ m' = m /\ f' = f /\ t' = t /\ Row' = Row /\ Query' = Query
      /\ Spare' = Spare
  BY <1>1 DEF n, m, t, f, Row, Query, Spare
<1>3. Gaps' = Gaps
  BY <1>1, <1>2 DEF Gaps, First
<1>4. /\ n \in Nat /\ at < n /\ at \in Nat /\ at \in Row
      /\ DOMAIN tPrime = Row /\ mask \in [Row -> 0 .. 1] /\ unused \in [Row -> 0 .. 1]
  BY <1>1, QueryRows DEF BaseInv, TypeOK, FillOK, Row
<1>5. PICK b : Gives(b, Done)
  BY <1>1 DEF OrderInv, GivenOK
<1>6. mask[at] = 0 <=> at \in Gaps
  BY <1>1, <1>4 DEF OrderInv, EmptyOK
<1>7. Done \in SUBSET Nat /\ Done \subseteq Row /\ \A x \in Done : x < at
  BY <1>4 DEF Done, Gaps, Row
<1>8. \A i \in Row : i < at + 1 <=> i < at \/ i = at
  BY <1>4 DEF Row
<1>9. Done' = {i \in Gaps : i < at + 1}
  BY <1>1, <1>3 DEF Done
<1>10. PICK D, i : D = Done /\ i = at
  OBVIOUS
<1>11. /\ \E E, b2 : E = Done' /\ Gives(b2, E)'
       /\ \A x \in Row : x # at => mask'[x] = mask[x]
  <2>1. CASE mask[at] = 0
    <3>1. \E j \in Row : unused[j] = 1
      BY <1>1, <1>4, <2>1, UnusedLeft
    <3>2. PICK h \in Row : /\ unused[h] = 1 /\ \A j \in Row : unused[j] = 1 => h <= j
                           /\ unused' = [unused EXCEPT ![h] = 0]
                           /\ tPrime' = [tPrime EXCEPT ![at] = t[h]]
                           /\ mask' = [mask EXCEPT ![at] = 1]
      BY <2>1, <3>1, FillGives
    <3>3. Done' = D \cup {i}
      BY <1>4, <1>6, <1>8, <1>9, <1>10, <2>1 DEF Done, Gaps
    <3>4. \E b2 : Gives(b2, D \cup {i})'
      <4>1. Gives(b, D) /\ D \in SUBSET Nat /\ D \subseteq Row /\ i \in Row /\ i \in Nat
            /\ \A x \in D : x < i
        BY <1>4, <1>5, <1>7, <1>10
      <4>2. tPrime' = [tPrime EXCEPT ![i] = t[h]]
        BY <1>10, <3>2
      <4> QED BY <1>1, <1>4, <3>2, <4>1, <4>2, GivesMore
    <3>5. \A x \in Row : x # at => mask'[x] = mask[x]
      BY <1>4, <3>2
    <3> QED BY <3>3, <3>4, <3>5
  <2>2. CASE mask[at] # 0
    <3>1. unused' = unused /\ tPrime' = tPrime /\ mask' = mask
      BY <2>2, FillGives
    <3>2. Done' = D
      BY <1>6, <1>8, <1>9, <1>10, <2>2 DEF Done, Gaps
    <3>3. Gives(b, D)
      BY <1>5, <1>10
    <3>4. Gives(b, D)'
      BY <1>2, <3>1, <3>3 DEF Gives
    <3> QED BY <3>1, <3>2, <3>4
  <2> QED BY <2>1, <2>2
<1>12. GivenOK'
  <2>1. PICK E, b2 : E = Done' /\ Gives(b2, E)'
    BY <1>11
  <2>2. \E b3 : Gives(b3, Done)'
    BY <2>1 DEF Gives
  <2> QED BY <2>2 DEF GivenOK
<1>13. EmptyOK'
  <2>1. \A x \in Row : ~ (x < at + 1) => x # at /\ ~ (x < at)
    BY <1>8
  <2>2. \A x \in Row : ~ (x < at + 1) => (mask'[x] = 0 <=> x \in Gaps)
    BY <1>1, <1>11, <2>1 DEF OrderInv, EmptyOK
  <2> QED BY <1>1, <1>2, <1>3, <2>2 DEF EmptyOK
<1>14. EndOK'
  BY <1>1, <1>2, <1>4 DEF EndOK
<1>15. MarkedOK'
  BY <1>1 DEF MarkedOK
<1> QED BY <1>12, <1>13, <1>14, <1>15 DEF OrderInv

LEMMA NaivePlaceOrder ==
    ASSUME BaseInv, Place
    PROVE  OrderInv'
<1>1. /\ input' = input /\ unused' = unused /\ at' = at /\ pc = "place" /\ pc' = "mark"
  BY DEF Place
<1>2. /\ at = 0 /\ unused = [j \in Row |-> 1] /\ m \in Nat
  BY <1>1, QueryRows DEF BaseInv, StartOK
<1>3. Row' = Row /\ Query' = Query
  BY <1>1 DEF Row, Query, n, m, t, f
<1>4. \A x \in Query' : ~ (x < at')
  BY <1>1, <1>2, <1>3 DEF Query
<1>5. \A j \in Row' : unused'[j] = 1
  BY <1>1, <1>2, <1>3
<1>6. MarkedOK'
  BY <1>4, <1>5 DEF MarkedOK
<1> QED BY <1>1, <1>6 DEF OrderInv, GivenOK, EmptyOK, EndOK

\* The order is kept by every step.
LEMMA NaiveOrderKept ==
    ASSUME QueriesInTable, Distinct, NaiveInv, OrderInv, [Next]_vars
    PROVE  OrderInv'
<1>1. BaseInv /\ GapInv
  BY DEF NaiveInv
<1>2. ASSUME pc' \in {"panicked", "place"}
      PROVE  OrderInv'
  BY <1>2 DEF OrderInv, MarkedOK, GivenOK, EmptyOK, EndOK
<1>3. CASE Reject \/ SortQueries
  BY <1>2, <1>3 DEF Reject, SortQueries
<1>4. CASE Place
  BY <1>1, <1>4, NaivePlaceOrder
<1>5. CASE Mark
  BY <1>1, <1>5, NaiveMarkOrder
<1>6. CASE Fill
  BY <1>1, <1>6, NaiveFillOrder
<1>7. CASE UNCHANGED vars
  <2>1. /\ input' = input /\ fPrime' = fPrime /\ tPrime' = tPrime
        /\ mask' = mask /\ unused' = unused /\ at' = at /\ pc' = pc
    BY <1>7 DEF vars
  <2>2. /\ n' = n /\ m' = m /\ f' = f /\ t' = t /\ Row' = Row /\ Query' = Query
        /\ Spare' = Spare
    BY <2>1 DEF n, m, t, f, Row, Query, Spare
  <2>3. Gaps' = Gaps
    BY <2>1, <2>2 DEF Gaps, First
  <2>4. Done' = Done
    BY <2>1, <2>3 DEF Done
  <2>5. MarkedOK' /\ EmptyOK' /\ EndOK'
    BY <2>1, <2>2, <2>3 DEF OrderInv, MarkedOK, EmptyOK, EndOK
  <2>6. GivenOK'
    BY <2>1, <2>2, <2>4 DEF OrderInv, GivenOK, Gives
  <2> QED BY <2>5, <2>6 DEF OrderInv
<1> QED BY <1>3, <1>4, <1>5, <1>6, <1>7 DEF Next

\* When all rows are full, the gaps have, in order, the elements nobody asks
\* for, and all of them.
LEMMA NaiveFilledInOrder ==
    ASSUME QueriesInTable, NaiveInv, OrderInv, pc = "returned"
    PROVE  \E b : InOrderOnto(b, Gaps, Spare) /\ \A i \in Gaps : tPrime[i] = t[b[i]]
<1>1. BaseInv /\ GapInv
  BY DEF NaiveInv
<1>2. n \in Nat /\ at = n /\ IsFiniteSet(Row)
  BY <1>1, ArraysAre DEF BaseInv, TypeOK, OrderInv, EndOK
<1>3. Done = Gaps
  BY <1>2 DEF Done, Gaps, Row
<1>4. PICK b : Gives(b, Gaps)
  BY <1>3 DEF OrderInv, GivenOK
<1>5. \A j \in Row : unused[j] = 0
  <2>1. PICK g : Pairing(g, Given, Used)
    BY <1>1 DEF GapInv, TakenOK
  <2>2. Given = Row /\ Used \in SUBSET Row
    BY <1>1 DEF GapInv, FilledOK, Given, Used
  <2>3. Used = Row
    BY <1>2, <2>1, <2>2, PairingFills
  <2> QED BY <2>3 DEF Used
<1>6. \A j \in Spare : unused[j] = 0
  BY <1>5 DEF Spare
<1>7. InOrderOnto(b, Gaps, Spare)
  BY <1>4, <1>6 DEF Gives, InOrderOnto
<1> QED BY <1>4, <1>7 DEF Gives

-----------------------------------------------------------------------------
(* What the sort has left, and what is refused.                            *)

SortedOK ==
    pc \notin {"sort", "panicked"} =>
        fPrime = KeysSorted([i \in 0 .. m-1 |-> [key |-> f[i]]], m, FieldBits)

RefusedOK == pc = "panicked" => ~ (m <= n /\ PowerOfTwo(m) /\ PowerOfTwo(n) /\ Sortable(m))

ArrayOK == tPrime = [i \in Row |-> tPrime[i]]

SortedInv == SortedOK /\ RefusedOK /\ ArrayOK

LEMMA NaiveArrayKept ==
    ASSUME BaseInv, ArrayOK, [Next]_vars
    PROVE  ArrayOK'
<1>1. input' = input /\ Row' = Row
  BY DEF Row, n, t, Next, Reject, SortQueries, Place, Mark, Fill, vars
<1>2. CASE tPrime' = tPrime
  BY <1>1, <1>2 DEF ArrayOK
<1>3. CASE Place
  <2> DEFINE a == [i \in Row |-> IF i < m THEN fDouble'[i] * fPrime[i] ELSE 0]
  <2>1. a = [i \in Row |-> a[i]]
    OBVIOUS
  <2>2. tPrime' = a
    BY <1>3 DEF Place
  <2> HIDE DEF a
  <2> QED BY <1>1, <2>1, <2>2 DEF ArrayOK
<1>4. CASE Fill
  <2>1. CASE \E h : tPrime' = [tPrime EXCEPT ![at] = h]
    <3>1. PICK h : tPrime' = [tPrime EXCEPT ![at] = h]
      BY <2>1
    <3>2. DOMAIN tPrime = Row
      BY DEF BaseInv, TypeOK
    <3> DEFINE a == [tPrime EXCEPT ![at] = h]
    <3>3. a = [i \in Row |-> a[i]]
      BY <3>2
    <3> HIDE DEF a
    <3>4. tPrime' = a
      BY <3>1 DEF a
    <3> QED BY <1>1, <3>3, <3>4 DEF ArrayOK
  <2> QED BY <1>2, <1>4, <2>1, FillGives
<1> QED BY <1>2, <1>3, <1>4 DEF Next, Reject, SortQueries, Mark, vars

LEMMA NaiveSortedKept ==
    ASSUME BaseInv, SortedInv, [Next]_vars
    PROVE  SortedInv'
<1>0. SortedOK /\ RefusedOK /\ ArrayOK' /\ PcOK
  BY NaiveArrayKept DEF SortedInv, BaseInv
<1>1. ASSUME input' = input
      PROVE  n' = n /\ m' = m /\ f' = f
  BY <1>1 DEF n, m, t, f
<1>2. CASE Reject
  <2>1. input' = input /\ pc' = "panicked"
    BY <1>2 DEF Reject
  <2>2. ~ (m <= n /\ PowerOfTwo(m) /\ PowerOfTwo(n) /\ Sortable(m))
    BY <1>2 DEF Reject
  <2> QED BY <1>0, <1>1, <2>1, <2>2, Zenon DEF SortedInv, SortedOK, RefusedOK
<1>3. CASE SortQueries
  <2>1. input' = input /\ pc' = "place"
    BY <1>3 DEF SortQueries
  <2>2. fPrime' = KeysSorted([i \in 0 .. m-1 |-> [key |-> f[i]]], m, FieldBits)
    BY <1>3 DEF SortQueries, KeysSorted
  <2> QED BY <1>0, <1>1, <2>1, <2>2 DEF SortedInv, SortedOK, RefusedOK
<1>4. CASE Place \/ Mark \/ Fill
  <2>1. /\ input' = input /\ fPrime' = fPrime
        /\ pc \in {"place", "mark", "fill"} /\ pc' \in {"mark", "fill", "returned"}
    BY <1>4 DEF Place, Mark, Fill
  <2> QED BY <1>0, <1>1, <2>1 DEF SortedInv, SortedOK, RefusedOK
<1>5. CASE UNCHANGED vars
  <2>1. input' = input /\ fPrime' = fPrime /\ pc' = pc
    BY <1>5 DEF vars
  <2> QED BY <1>0, <1>1, <2>1, Zenon DEF SortedInv, SortedOK, RefusedOK
<1> QED BY <1>2, <1>3, <1>4, <1>5 DEF Next
=============================================================================
