-------------------------- MODULE NaivePermutation --------------------------
(***************************************************************************)
(* naive_secure_oblivious_lookup_permutation of                            *)
(* mpc-lookup/src/halo2_lookup/permutation.rs: no compaction, but nested   *)
(* loops that mark the table element of every query and then give every    *)
(* row that is still empty the first element not marked.                   *)
(***************************************************************************)
EXTENDS Arguments

VARIABLES
    fPrime,   \* f_prime
    fDouble,  \* f_double
    tPrime,   \* t_prime
    mask,     \* fill_mask
    unused,   \* is_table_element_unused
    at,       \* the outer loop variable i
    pc

vars == <<input, fPrime, fDouble, tPrime, mask, unused, at, pc>>

-----------------------------------------------------------------------------
Init ==
    /\ input \in Inputs
    /\ fPrime = <<>> /\ fDouble = <<>>
    /\ tPrime = [i \in Row |-> 0]
    /\ mask = [i \in Row |-> 0]
    /\ unused = [j \in Row |-> 1]
    /\ at = 0
    /\ pc = "sort"

Reject ==
    /\ pc = "sort"
    /\ ~ (m <= n /\ PowerOfTwo(m) /\ PowerOfTwo(n) /\ Sortable(m))
    /\ pc' = "panicked"
    /\ UNCHANGED <<input, fPrime, fDouble, tPrime, mask, unused, at>>

\* Step 1.
SortQueries ==
    /\ pc = "sort"
    /\ m <= n /\ PowerOfTwo(m) /\ PowerOfTwo(n) /\ Sortable(m)
    /\ LET sorted == RadixSortByKey([i \in 0 .. m-1 |-> [key |-> f[i]]], m, FieldBits)
       IN  fPrime' = [i \in 0 .. m-1 |-> sorted[i].key]
    /\ pc' = "place"
    /\ UNCHANGED <<input, fDouble, tPrime, mask, unused, at>>

\* Steps 2 and 3: the first occurrences go to their own rows.
Place ==
    /\ pc = "place"
    /\ fDouble' = [i \in Row |-> Bit(i = 0 \/ (i < m /\ fPrime[i] # fPrime[i - 1]))]
    /\ tPrime' = [i \in Row |-> IF i < m THEN fDouble'[i] * fPrime[i] ELSE 0]
    /\ mask' = [i \in Row |-> IF i < m THEN fDouble'[i] ELSE 0]
    /\ pc' = "mark"
    /\ UNCHANGED <<input, fPrime, unused, at>>

\* Slip: the last element is taken, not the first.
SlipLowestOf(S) == CHOOSE x \in S : \A y \in S : y <= x

LowestOf(S) == CHOOSE x \in S : \A y \in S : x <= y

\* Slip: every copy of the element is marked.
SlipMark ==
    /\ pc = "mark"
    /\ unused' = [j \in Row |-> IF t[j] = fPrime[at] THEN 0 ELSE unused[j]]
    /\ at' = IF at + 1 < m THEN at + 1 ELSE 0
    /\ pc' = IF at + 1 < m THEN "mark" ELSE "fill"
    /\ UNCHANGED <<input, fPrime, fDouble, tPrime, mask>>

\* Step 4: a first occurrence marks the first unused table element equal to
\* it, once.
Mark ==
    /\ pc = "mark"
    /\ LET hits == {j \in Row : t[j] = fPrime[at] /\ unused[j] = 1 /\ fDouble[at] = 1}
       IN  unused' = IF hits = {} THEN unused ELSE [unused EXCEPT ![LowestOf(hits)] = 0]
    /\ at' = IF at + 1 < m THEN at + 1 ELSE 0
    /\ pc' = IF at + 1 < m THEN "mark" ELSE "fill"
    /\ UNCHANGED <<input, fPrime, fDouble, tPrime, mask>>

\* Slip: an element that is given away stays unused.
SlipFill ==
    /\ pc = "fill"
    /\ LET left == {j \in Row : mask[at] = 0 /\ unused[j] = 1}
       IN  /\ tPrime' = IF left = {} THEN tPrime ELSE [tPrime EXCEPT ![at] = t[LowestOf(left)]]
           /\ mask' = [mask EXCEPT ![at] = @ + Bit(left # {})]
    /\ at' = at + 1
    /\ pc' = IF at + 1 < n THEN "fill" ELSE "returned"
    /\ UNCHANGED <<input, fPrime, fDouble, unused>>

\* Slip: a row that has a query takes an element as well.
SlipFillAll ==
    /\ pc = "fill"
    /\ LET left == {j \in Row : unused[j] = 1}
       IN  /\ tPrime' = IF left = {} THEN tPrime ELSE [tPrime EXCEPT ![at] = t[LowestOf(left)]]
           /\ unused' = IF left = {} THEN unused ELSE [unused EXCEPT ![LowestOf(left)] = 0]
           /\ mask' = [mask EXCEPT ![at] = @ + Bit(left # {})]
    /\ at' = at + 1
    /\ pc' = IF at + 1 < n THEN "fill" ELSE "returned"
    /\ UNCHANGED <<input, fPrime, fDouble>>

\* Step 5: an empty row takes the first unused element.
Fill ==
    /\ pc = "fill"
    /\ LET left == {j \in Row : mask[at] = 0 /\ unused[j] = 1}
       IN  /\ tPrime' = IF left = {} THEN tPrime ELSE [tPrime EXCEPT ![at] = t[LowestOf(left)]]
           /\ unused' = IF left = {} THEN unused ELSE [unused EXCEPT ![LowestOf(left)] = 0]
           /\ mask' = [mask EXCEPT ![at] = @ + Bit(left # {})]
    /\ at' = at + 1
    /\ pc' = IF at + 1 < n THEN "fill" ELSE "returned"
    /\ UNCHANGED <<input, fPrime, fDouble>>

Next == Reject \/ SortQueries \/ Place \/ Mark \/ Fill

Spec == Init /\ [][Next]_vars

-----------------------------------------------------------------------------
TypeOK ==
    /\ input \in Inputs
    /\ DOMAIN tPrime = Row
    /\ mask \in [Row -> 0 .. 1]
    /\ unused \in [Row -> 0 .. 1]
    /\ at \in 0 .. n

\* When the rows are filled, there is exactly one unused element for every
\* empty row that is still to come.
OneForEachGap ==
    pc = "fill" =>
        Cardinality({j \in Row : unused[j] = 1}) = Cardinality({i \in Row : mask[i] = 0})

\* The naive permutation promises the same as the other one.
Abstract == INSTANCE Lookup WITH
    answer <- IF pc = "returned" THEN [t |-> tPrime, f |-> fPrime] ELSE input,
    status <- IF pc \in {"returned", "panicked"} THEN pc ELSE "running"

Promised == Abstract!LSpec
=============================================================================
