--------------------------- MODULE MCLookupProof ----------------------------
EXTENDS LookupProof

Pairs(values) == {<<x, y>> : x, y \in values}

\* Two rows, right or wrong: a table of two values, in either order and with
\* the primed columns anything.
Small == {0, 3, 16}
Two ==
    {[a |-> a, s |-> s, aPrime |-> b, sPrime |-> u, blinding |-> l] :
        l \in {1, 5}, a \in {<<3, 3>>, <<16, 3>>, <<0, 16>>}, s \in {<<3, 16>>, <<16, 0>>},
        b \in Pairs(Small), u \in Pairs(Small)}

\* One row, and blinding rows from none to the five of the client.
One ==
    {[a |-> <<x>>, s |-> <<y>>, aPrime |-> <<x>>, sPrime |-> <<y>>, blinding |-> l] :
        x, y \in Small, l \in {0, 1, 5}}

\* Four rows: lookups, and the same with one row of A' wrong.
Four ==
    {[a |-> <<7, 2, 7, 9>>, s |-> <<2, 7, 0, 9>>,
      aPrime |-> [<<2, 7, 7, 9>> EXCEPT ![i] = x], sPrime |-> <<2, 7, 0, 9>>, blinding |-> l] :
        i \in 1 .. 4, x \in {2, 7, 9}, l \in {1, 3}}

MCColumns == One \cup Two \cup Four
=============================================================================
