------------------------------ MODULE TwoWays -------------------------------
(***************************************************************************)
(* The switch --naive of mpc-lookup/src/client.rs: both permutations, one  *)
(* after the other on the same input.  The compacting one is for tables of *)
(* distinct elements.                                                      *)
(***************************************************************************)
EXTENDS LookupPermutation

\* The variables of the naive one.
VARIABLES nFPrime, nFDouble, nTPrime, nMask, nUnused, nAt, nPc

nvars == <<nFPrime, nFDouble, nTPrime, nMask, nUnused, nAt, nPc>>

Naive == INSTANCE NaivePermutation WITH
    fPrime <- nFPrime, fDouble <- nFDouble, tPrime <- nTPrime, mask <- nMask,
    unused <- nUnused, at <- nAt, pc <- nPc

BInit == Init /\ Naive!Init

BothNext ==
    \/ Naive!Next /\ UNCHANGED work /\ UNCHANGED pc
    \/ /\ nPc \in {"returned", "panicked"} /\ Distinct
       /\ Next
       /\ UNCHANGED nvars
    \/ nPc \in {"returned", "panicked"} /\ ~ Distinct /\ UNCHANGED <<vars, nvars>>

BothSpec == BInit /\ [][BothNext]_<<vars, nvars>>

-----------------------------------------------------------------------------
\* The arrays of the naive one keep the size of the table, its indicators are
\* bits and its loops stay in the arrays.
NaiveTypeOK == Naive!TypeOK

\* When the naive one fills the rows, there is exactly one unused element for
\* every empty row that is still to come.
OneForEachGap == Naive!OneForEachGap

\* The naive one promises the same as the compacting one: Lookup.
NaivePromised == Naive!Promised

\* The switch changes the cost and not the answer: the same t' and the same
\* f', and the same inputs are refused.
SameAnswer ==
    /\ nPc = "returned" /\ pc = "returned" => nTPrime = tPrime /\ nFPrime = fPrime
    /\ pc \in {"panicked", "padded"} => (nPc = "panicked") = (pc = "panicked")
=============================================================================
