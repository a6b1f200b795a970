------------------------------ MODULE Arguments -----------------------------
(***************************************************************************)
(* The arguments of both permutations of                                   *)
(* mpc-lookup/src/halo2_lookup/permutation.rs: a table t and queries f to  *)
(* it.  Arrays are functions over 0 .. len-1; the values are those the     *)
(* shares stand for.                                                       *)
(***************************************************************************)
EXTENDS SortingNetwork, FiniteSets

CONSTANTS
    Inputs,    \* the pairs [t, f]
    FieldBits  \* bits of the modulus

ASSUME FieldBitsAssumption == FieldBits \in Nat
ASSUME InputsAssumption ==
    \A in \in Inputs : \A a \in {in.t, in.f} :
        /\ IsFiniteSet(DOMAIN a)
        /\ DOMAIN a = 0 .. Cardinality(DOMAIN a) - 1
        /\ \A i \in DOMAIN a : a[i] \in 0 .. 2 ^ FieldBits - 1

VARIABLE input  \* the arguments t and f

t == input.t
f == input.f
n == Cardinality(DOMAIN t)
m == Cardinality(DOMAIN f)
Row == 0 .. n-1

\* An indicator that is shared is a field element, 0 or 1.
Bit(b) == IF b THEN 1 ELSE 0

\* What a caller sees to: the table has every element that is asked for.
QueriesInTable ==
    \A in \in Inputs : \A i \in DOMAIN in.f : \E j \in DOMAIN in.t : in.t[j] = in.f[i]

\* What the compacting permutation is for: a table of distinct elements.
Distinct == \A i, j \in Row : t[i] = t[j] => i = j
=============================================================================
