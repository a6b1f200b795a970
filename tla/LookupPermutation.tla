------------------------- MODULE LookupPermutation --------------------------
(***************************************************************************)
(* secure_oblivious_lookup_permutation of                                  *)
(* mpc-lookup/src/halo2_lookup/permutation.rs, step by step, and the       *)
(* padding that mpc-lookup/src/client.rs applies to its result.            *)
(***************************************************************************)
EXTENDS Arguments, Polynomial

CONSTANTS
    Multiplier,  \* SORT_KEY_MULTIPLIER
    KeyBits      \* the bit length of the sorts by key

ASSUME FieldAssumption == Modulus <= 2 ^ FieldBits
ASSUME KeyAssumption ==
    Multiplier \in Nat /\ KeyBits \in Nat /\ 2 * Multiplier <= 2 ^ KeyBits
ASSUME ElementsAssumption ==
    \A in \in Inputs : \A a \in {in.t, in.f} : \A i \in DOMAIN a : a[i] \in Field

VARIABLES
    fPrime,       \* f_prime
    fDouble,      \* f_double: first-occurrence indicators
    unused,       \* table elements no query asks for
    unusedRec,    \* unused_value_rec, compacted
    unfilledRec,  \* unfilled_position_rec, compacted
    writes,       \* all_writes_keyed, sorted
    tPrime,       \* t_prime
    columns,      \* the client's columns A, A' after padding
    pc

work == <<fPrime, fDouble, unused, unusedRec, unfilledRec, writes, tPrime, columns>>

vars == <<input, work, pc>>

\* f_prime, filled up with zeros to the size of the table.
FPrimeFull(i) == IF i < m THEN fPrime[i] ELSE 0

-----------------------------------------------------------------------------
None == <<>>

Init ==
    /\ input \in Inputs
    /\ fPrime = None /\ fDouble = None /\ unused = None
    /\ unusedRec = None /\ unfilledRec = None /\ writes = None
    /\ tPrime = None /\ columns = None
    /\ pc = "sort"

\* The asserts on the sizes, and the panic of radix_sort for a single query.
Reject ==
    /\ pc = "sort"
    /\ ~ (m <= n /\ PowerOfTwo(m) /\ PowerOfTwo(n) /\ Sortable(m))
    /\ pc' = "panicked"
    /\ UNCHANGED <<input, work>>

\* Step 1.  A value is its own key.
SortQueries ==
    /\ pc = "sort"
    /\ m <= n /\ PowerOfTwo(m) /\ PowerOfTwo(n) /\ Sortable(m)
    /\ LET sorted == RadixSortByKey([i \in 0 .. m-1 |-> [key |-> f[i]]], m, FieldBits)
       IN  fPrime' = [i \in 0 .. m-1 |-> sorted[i].key]
    /\ pc' = "indicate"
    /\ UNCHANGED <<input, fDouble, unused, unusedRec, unfilledRec, writes, tPrime, columns>>

\* Slip: the zeros behind the queries are a first occurrence as well.
SlipIndicate ==
    /\ pc = "indicate"
    /\ fDouble' = [i \in Row |-> Bit(i = 0 \/ FPrimeFull(i) # FPrimeFull(i - 1))]
    /\ pc' = "membership"
    /\ UNCHANGED <<input, fPrime, unused, unusedRec, unfilledRec, writes, tPrime, columns>>

\* Step 2.
Indicate ==
    /\ pc = "indicate"
    /\ fDouble' = [i \in Row |->
                     IF i = 0 THEN 1
                     ELSE (1 - Bit(FPrimeFull(i) = FPrimeFull(i - 1))) * Bit(i < m)]
    /\ pc' = "membership"
    /\ UNCHANGED <<input, fPrime, unused, unusedRec, unfilledRec, writes, tPrime, columns>>

\* The polynomial with the queries as roots, from the subproduct tree.
MembershipPolynomial ==
    LET tree == SubproductTree([i \in 1 .. m |-> fPrime[i - 1]])
    IN  tree[Len(tree)][1]

\* The values of p at the table.
AtTable(p) == MultipointEval(p, SubproductTree([j \in 1 .. n |-> t[j - 1]]))

\* Slip: the values are not compared with zero.
SlipFindUnused ==
    /\ pc = "membership"
    /\ unused' = [j \in Row |-> AtTable(MembershipPolynomial)[j + 1]]
    /\ pc' = "values"
    /\ UNCHANGED <<input, fPrime, fDouble, unusedRec, unfilledRec, writes, tPrime, columns>>

\* Steps 3 to 5.
FindUnused ==
    /\ pc = "membership"
    /\ LET values == AtTable(MembershipPolynomial)
       IN  unused' = [j \in Row |-> Bit(values[j + 1] # 0)]
    /\ pc' = "values"
    /\ UNCHANGED <<input, fPrime, fDouble, unusedRec, unfilledRec, writes, tPrime, columns>>

\* Slip: the position does not enter the key of a record that goes last.
SlipKeyed(first, position) ==
    IF first = 1 THEN position ELSE Multiplier

\* A key that puts the records with indicator 1 first, each part in the order
\* of the positions.
Keyed(first, position) == (1 - first) * Multiplier + position

\* Step 6.
CompactUnused ==
    /\ pc = "values"
    /\ unusedRec' = RadixSortByKey(
         [j \in Row |-> [key |-> Keyed(unused[j], j), val |-> t[j], flag |-> unused[j]]],
         n, KeyBits)
    /\ pc' = "positions"
    /\ UNCHANGED <<input, fPrime, fDouble, unused, unfilledRec, writes, tPrime, columns>>

\* Slip: a record carries the indicator of the filled positions.
SlipCompactUnfilled ==
    /\ pc = "positions"
    /\ unfilledRec' = RadixSortByKey(
         [i \in Row |-> [key |-> Keyed(1 - fDouble[i], i), val |-> i, flag |-> fDouble[i]]],
         n, KeyBits)
    /\ pc' = "write"
    /\ UNCHANGED <<input, fPrime, fDouble, unused, unusedRec, writes, tPrime, columns>>

\* Step 7.
CompactUnfilled ==
    /\ pc = "positions"
    /\ unfilledRec' = RadixSortByKey(
         [i \in Row |-> [key |-> Keyed(1 - fDouble[i], i), val |-> i, flag |-> 1 - fDouble[i]]],
         n, KeyBits)
    /\ pc' = "write"
    /\ UNCHANGED <<input, fPrime, fDouble, unused, unusedRec, writes, tPrime, columns>>

WriteRecord(pos, val, valid) == [key |-> Keyed(valid, pos), val |-> val, flag |-> valid]

\* Steps 8 and 9: unused values into unfilled positions, queries into the
\* rows of their first occurrences.
AllWrites == [i \in 0 .. 2 * n - 1 |->
    IF i < n
    THEN WriteRecord(unfilledRec[i].val, unusedRec[i].val, unfilledRec[i].flag)
    ELSE WriteRecord(i - n, FPrimeFull(i - n), fDouble[i - n])]

\* Step 10.
SortWrites ==
    /\ pc = "write"
    /\ writes' = RadixSortByKey(AllWrites, 2 * n, KeyBits)
    /\ pc' = "construct"
    /\ UNCHANGED <<input, fPrime, fDouble, unused, unusedRec, unfilledRec, tPrime, columns>>

\* Slip: all the records are taken, not the first n of them.
SlipConstruct ==
    /\ pc = "construct"
    /\ tPrime' = [i \in DOMAIN writes |-> writes[i].val]
    /\ pc' = "returned"
    /\ UNCHANGED <<input, fPrime, fDouble, unused, unusedRec, unfilledRec, writes, columns>>

\* Step 11, and the return.
Construct ==
    /\ pc = "construct"
    /\ tPrime' = [i \in Row |-> writes[i].val]
    /\ pc' = "returned"
    /\ UNCHANGED <<input, fPrime, fDouble, unused, unusedRec, unfilledRec, writes, columns>>

\* Slip: the queries are filled up with the table as it was.
SlipPadded(a) == [i \in Row |-> IF i < m THEN a[i] ELSE t[i]]

\* The client fills up f and f' with the rows of t' behind the queries.
Padded(a) == [i \in Row |-> IF i < m THEN a[i] ELSE tPrime[i]]

Pad ==
    /\ pc = "returned"
    /\ columns' = [a |-> Padded(f), aPrime |-> Padded(fPrime)]
    /\ pc' = "padded"
    /\ UNCHANGED <<input, fPrime, fDouble, unused, unusedRec, unfilledRec, writes, tPrime>>

Terminated == pc \in {"padded", "panicked"} /\ UNCHANGED vars

Next ==
    \/ Reject \/ SortQueries \/ Indicate \/ FindUnused
    \/ CompactUnused \/ CompactUnfilled \/ SortWrites \/ Construct
    \/ Pad \/ Terminated

Spec == Init /\ [][Next]_vars

-----------------------------------------------------------------------------
\* What a caller sees to: positions are below the multiplier (2^32), and the
\* elements of the table are distinct.
PositionsFit == \A in \in Inputs : Cardinality(DOMAIN in.t) <= Multiplier
TablesDistinct ==
    \A in \in Inputs : \A i, j \in DOMAIN in.t : in.t[i] = in.t[j] => i = j

IndicatorsOf(a) == a \in [Row -> 0 .. 1]
RecordsOf(a, len, vals) ==
    /\ DOMAIN a = 0 .. len - 1
    /\ \A i \in DOMAIN a : /\ a[i].key \in 0 .. 2 ^ KeyBits - 1
                           /\ a[i].val \in vals
                           /\ a[i].flag \in 0 .. 1

\* What a step has computed has the size the next steps take for granted, and
\* no key is longer than the bits that the sorts compare.
TypeOK ==
    /\ input \in Inputs
    /\ fPrime # None => fPrime \in [0 .. m-1 -> Field]
    /\ fDouble # None => IndicatorsOf(fDouble)
    /\ unused # None => IndicatorsOf(unused)
    /\ unusedRec # None => RecordsOf(unusedRec, n, Field)
    /\ unfilledRec # None => RecordsOf(unfilledRec, n, Row)
    /\ writes # None => RecordsOf(writes, 2 * n, Field)
    /\ tPrime # None => tPrime \in [Row -> Field]

\* The polynomial division and the evaluation at many points at once find the
\* table elements that no query asks for.
UnusedAreUnasked ==
    unused # None => \A j \in Row : (unused[j] = 1) = (\A i \in DOMAIN f : f[i] # t[j])

\* The two compactions meet: there are as many unused values as unfilled
\* positions, so record i of one is for record i of the other.
ValuesMeetPositions ==
    pc = "write" => \A i \in Row : unfilledRec[i].flag = unusedRec[i].flag

\* Every row of t' is written by exactly one valid record, and the valid
\* records are in front.
RowsWrittenOnce ==
    pc = "construct" =>
        \A i \in 0 .. 2 * n - 1 :
            IF i < n THEN writes[i].flag = 1 /\ writes[i].key = i
            ELSE writes[i].flag = 0

\* No two records of a sort by key have equal keys, so that it does not matter
\* in which order the network leaves them.
KeysDiffer ==
    \A recs \in {unusedRec, unfilledRec, writes} :
        \A i, j \in DOMAIN recs : i # j => recs[i].key # recs[j].key

\* The permutation does what its outputs are checked for: it implements
\* Lookup.
Abstract == INSTANCE Lookup WITH
    answer <- IF pc \in {"returned", "padded"} THEN [t |-> tPrime, f |-> fPrime] ELSE input,
    status <- IF pc \in {"returned", "panicked"} THEN pc
              ELSE IF pc = "padded" THEN "returned" ELSE "running"

Promised == Abstract!LSpec

\* The columns that are proved about satisfy the lookup argument: A' is A
\* rearranged, and each of its rows equals its row of S' or the row above.
LookupHolds ==
    pc = "padded" =>
        /\ Abstract!Rearranged(columns.a, columns.aPrime)
        /\ \A i \in Row : \/ columns.aPrime[i] = tPrime[i]
                          \/ i > 0 /\ columns.aPrime[i] = columns.aPrime[i - 1]

\* The comment on the asserts: sizes that are powers of two with m at most n
\* are accepted.
AcceptsPowersOfTwo ==
    m <= n /\ PowerOfTwo(m) /\ PowerOfTwo(n) => pc # "panicked"
=============================================================================
