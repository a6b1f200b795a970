----------------------------- MODULE MCRadixSort ----------------------------
EXTENDS RadixSort

\* Every array of a few keys at the small lengths, and of three keys at the
\* largest one; a tag tells records with equal keys apart.
AllInputs ==
    UNION {{[i \in 0 .. len-1 |-> [key |-> keys[i], tag |-> i]] : keys \in [0 .. len-1 -> 0 .. 3]}
             : len \in {0, 1, 2, 3, 4}}
    \cup {[i \in 0 .. 7 |-> [key |-> keys[i], tag |-> i]] : keys \in [0 .. 7 -> 0 .. 2]}

\* Enumerated once.
MCInputs == {a \in AllInputs : TRUE}


\* The instance meets what the theorems about it ask for.
ASSUME TheoremsApply == KeysFit
=============================================================================
