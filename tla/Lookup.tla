------------------------------- MODULE Lookup -------------------------------
(***************************************************************************)
(* What the lookup permutation promises, as                                *)
(* verify_lookup_permutation_outputs_in_plaintext of                       *)
(* mpc-lookup/src/halo2_lookup/permutation.rs asserts it: queries f over a *)
(* table t become f', rearranged, and t', rearranged, such that t' holds   *)
(* every query at the row of its first occurrence in f'.                   *)
(***************************************************************************)
EXTENDS SortingNetwork, FiniteSets

CONSTANT Inputs  \* the pairs [t, f] of arrays to permute

VARIABLES input, answer, status

lvars == <<input, answer, status>>

Length(a) == Cardinality(DOMAIN a)

\* Sizes the algorithm works for.
SizesFit(t, f) ==
    /\ Sortable(Length(t)) /\ Sortable(Length(f))
    /\ Length(f) <= Length(t)

Count(a, x) == Cardinality({i \in DOMAIN a : a[i] = x})

Rearranged(a, b) ==
    /\ DOMAIN a = DOMAIN b
    /\ \A i \in DOMAIN a : Count(a, a[i]) = Count(b, a[i])

FirstOccurrence(a, i) == i = 0 \/ a[i] # a[i - 1]

Permutes(in, out) ==
    /\ Rearranged(in.t, out.t)
    /\ Rearranged(in.f, out.f)
    /\ \A i \in DOMAIN out.f : FirstOccurrence(out.f, i) => out.f[i] = out.t[i]

LInit == input \in Inputs /\ answer = input /\ status = "running"

LReturn ==
    /\ status = "running" /\ SizesFit(input.t, input.f)
    /\ status' = "returned"
    /\ Permutes(input, answer')
    /\ UNCHANGED input

LReject ==
    /\ status = "running" /\ ~ SizesFit(input.t, input.f)
    /\ status' = "panicked"
    /\ UNCHANGED <<input, answer>>

LNext == LReturn \/ LReject

LSpec == LInit /\ [][LNext]_lvars
=============================================================================
