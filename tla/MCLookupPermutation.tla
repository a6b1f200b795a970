------------------------- MODULE MCLookupPermutation ------------------------
EXTENDS LookupPermutation

Arrays(len, values) == [0 .. len-1 -> values]

\* Tables of distinct values.
Tables(len, values) ==
    {a \in Arrays(len, values) : \A i, l \in 0 .. len-1 : a[i] = a[l] => i = l}

\* Every array of queries to the table, of one of the sizes.
QueriesTo(tables, sizes) ==
    UNION {{[t |-> tab, f |-> q] : q \in UNION {Arrays(s, {tab[i] : i \in DOMAIN tab}) : s \in sizes}}
             : tab \in tables}

\* A table as in the unit test, with 0 in the middle.
Eight == {[i \in 0 .. 7 |-> (3 * i + 4) % 11]}

\* Small sizes, the good and the bad ones; a table of four in every order; a
\* table of eight in one.
AllInputs ==
    QueriesTo(Tables(1, {0, 3}) \cup Tables(2, {0, 3, 5}), 0 .. 3)
    \cup QueriesTo(Tables(3, {0, 2, 5}), {1, 2})
    \cup QueriesTo(Tables(4, {0, 2, 3, 9}), {1, 2})
    \cup QueriesTo({a \in Tables(4, {0, 2, 3, 9}) : a[0] = 2 \/ a[3] = 2}, {3, 4})
    \cup QueriesTo(Eight, {1, 2})
    \cup {in \in QueriesTo(Eight, {4}) : in.f[0] # 5 /\ in.f[2] \in {0, 10} /\ in.f[3] = 0}

\* Enumerated once.
MCInputs == {in \in AllInputs : TRUE}


\* The instance meets what the theorems about it ask for.
ASSUME TheoremsApply == PositionsFit /\ TablesDistinct /\ QueriesInTable
=============================================================================
