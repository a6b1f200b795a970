------------------------------ MODULE MCTwoWays -----------------------------
EXTENDS TwoWays

Arrays(len, values) == [0 .. len-1 -> values]

\* Every array of queries to the table, of one of the sizes.
QueriesTo(tables, sizes) ==
    UNION {{[t |-> tab, f |-> q] : q \in UNION {Arrays(s, {tab[i] : i \in DOMAIN tab}) : s \in sizes}}
             : tab \in tables}

\* Tables of up to four elements, distinct or not; one of eight.
AllInputs ==
    QueriesTo(UNION {Arrays(len, {0, 3, 5}) : len \in 1 .. 3}, 0 .. 3)
    \cup QueriesTo(Arrays(4, {0, 3, 5, 6}), {2})
    \cup QueriesTo({a \in Arrays(4, {0, 3, 5, 6}) : a[0] = 5 /\ a[2] = 0}, {4})
    \cup QueriesTo({[i \in 0 .. 7 |-> (3 * i + 4) % 11]}, {2})

\* Enumerated once.
MCInputs == {in \in AllInputs : TRUE}

\* The instance meets what the theorems about it ask for.
ASSUME TheoremsApply == PositionsFit /\ QueriesInTable
=============================================================================
