------------------------------ MODULE RadixSort -----------------------------
(***************************************************************************)
(* radix_sort_by_key of mpc-lookup/src/halo2_lookup/sorting.rs (and        *)
(* radix_sort, whose records are their keys), level by level.  A tag of a  *)
(* record stands for the two values that travel with its key.              *)
(***************************************************************************)
EXTENDS SortingNetwork, FiniteSets

CONSTANTS
    Inputs,    \* the arrays of records [key, tag] to sort
    BitLength  \* bit_length: key bits that take part in comparisons

ASSUME InputsAssumption ==
    \A a \in Inputs :
        /\ IsFiniteSet(DOMAIN a)
        /\ DOMAIN a = 0 .. Cardinality(DOMAIN a) - 1
        /\ \A i \in DOMAIN a : a[i].key \in Nat
ASSUME BitLengthAssumption == BitLength \in Nat

VARIABLES
    input,   \* the argument vec
    public,  \* are all values MF::Public?
    vec,     \* the records, moved from level to level
    bits,    \* the precomputed bits of their keys
    k, j,    \* the loops
    pc

vars == <<input, public, vec, bits, k, j, pc>>

n == Cardinality(DOMAIN input)

Init ==
    /\ input \in Inputs
    /\ public \in BOOLEAN
    /\ vec = input
    /\ bits = [i \in DOMAIN input |-> 0]
    /\ k = 2 /\ j = 1
    /\ pc = "entry"

\* The length is no power of two, or below two.
Reject ==
    /\ pc = "entry" /\ ~ Sortable(n)
    /\ pc' = "panicked"
    /\ UNCHANGED <<input, public, vec, bits, k, j>>

\* The stable sort of the standard library, on public values.
Rank(a, i) ==
    Cardinality({x \in DOMAIN a : a[x].key < a[i].key \/ (a[x].key = a[i].key /\ x < i)})

SortPublic ==
    /\ pc = "entry" /\ Sortable(n) /\ public
    /\ vec' = [r \in DOMAIN vec |-> vec[CHOOSE i \in DOMAIN vec : Rank(vec, i) = r]]
    /\ pc' = "done"
    /\ UNCHANGED <<input, public, bits, k, j>>

Decompose ==
    /\ pc = "entry" /\ Sortable(n) /\ ~ public
    /\ bits' = [i \in DOMAIN vec |-> Truncated(vec[i].key, BitLength)]
    /\ pc' = "levels"
    /\ UNCHANGED <<input, public, vec, k, j>>

\* Slip: the bits are not moved with the records.
SlipLevel ==
    /\ pc = "levels" /\ k <= n
    /\ vec' = Exchange(vec, bits, k, j)
    /\ k' = NextLevel(k, j)[1]
    /\ j' = NextLevel(k, j)[2]
    /\ UNCHANGED <<input, public, bits, pc>>

\* Compare all pairs of the level, then exchange records and bits.
Level ==
    /\ pc = "levels" /\ k <= n
    /\ vec' = Exchange(vec, bits, k, j)
    /\ bits' = Exchange(bits, bits, k, j)
    /\ k' = NextLevel(k, j)[1]
    /\ j' = NextLevel(k, j)[2]
    /\ UNCHANGED <<input, public, pc>>

Return ==
    /\ pc = "levels" /\ k > n
    /\ pc' = "done"
    /\ UNCHANGED <<input, public, vec, bits, k, j>>

Terminated == pc \in {"done", "panicked"} /\ UNCHANGED vars

Next == Reject \/ SortPublic \/ Decompose \/ Level \/ Return \/ Terminated

Spec == Init /\ [][Next]_vars

FairSpec == Spec /\ WF_vars(Next)

-----------------------------------------------------------------------------
TypeOK ==
    /\ input \in Inputs
    /\ public \in BOOLEAN
    /\ DOMAIN vec = DOMAIN input /\ \A i \in DOMAIN vec : vec[i] \in {input[x] : x \in DOMAIN input}
    /\ DOMAIN bits = DOMAIN input /\ \A i \in DOMAIN bits : bits[i] \in 0 .. 2 ^ BitLength - 1
    /\ k >= 2 /\ j >= 1 /\ 2 * j <= k
    /\ pc \in {"entry", "levels", "done", "panicked"}

\* What the callers see to: no key has more bits than are compared.
KeysFit == \A a \in Inputs : \A i \in DOMAIN a : a[i].key < 2 ^ BitLength

\* The bits decomposed at the start are still those of the record they are
\* kept with, after any number of exchanges.
BitsFollowKeys ==
    pc = "levels" => \A i \in DOMAIN vec : bits[i] = Truncated(vec[i].key, BitLength)

\* When the stage of k begins, every block of k/2 records is in order, the
\* blocks by turns in ascending and in descending order.
BlocksInOrder ==
    pc = "levels" /\ j = k \div 2 =>
        \A a, b \in DOMAIN vec : a < b /\ a \div j = b \div j =>
            IF Ascending(a, j) THEN vec[a].key <= vec[b].key
            ELSE vec[a].key >= vec[b].key

\* Inside a stage, the exchanges done so far have separated the halves they
\* compared: each block of 2j records lies on one side of its neighbour.
HalvesSeparated ==
    pc = "levels" /\ k <= n =>
        \A a, b \in DOMAIN vec :
            a < b /\ a \div k = b \div k /\ a \div (2 * j) # b \div (2 * j) =>
                IF Ascending(a, k) THEN vec[a].key <= vec[b].key
                ELSE vec[a].key >= vec[b].key

\* The sort returns the records it was given, in order: it implements Sort.
Abstract == INSTANCE Sort WITH
    output <- IF pc = "done" THEN vec ELSE input,
    status <- IF pc \in {"done", "panicked"} THEN pc ELSE "running"

Sorts == Abstract!SSpec

\* The loops end.
Ends == <>(pc \in {"done", "panicked"})
=============================================================================
