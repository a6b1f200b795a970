-------------------------------- MODULE Sort --------------------------------
(***************************************************************************)
(* What a sort by key promises: the records of its input, each one as it   *)
(* was, in ascending order of their keys.  Records with equal keys come in *)
(* any order.  A length the sort does not accept ends it without output.   *)
(***************************************************************************)
EXTENDS SortingNetwork, FiniteSets

CONSTANT Inputs  \* the arrays of records [key, tag] to sort

VARIABLES input, output, status

svars == <<input, output, status>>

Size == Cardinality(DOMAIN input)

\* How often each record occurs.
Occurs(a, r) == Cardinality({i \in DOMAIN a : a[i] = r})

Rearranged(a, b) ==
    /\ DOMAIN a = DOMAIN b
    /\ \A i \in DOMAIN a : Occurs(a, a[i]) = Occurs(b, a[i])

Ordered(a) == \A i, j \in DOMAIN a : i < j => a[i].key <= a[j].key

SInit == input \in Inputs /\ output = input /\ status = "running"

SReturn ==
    /\ status = "running" /\ Sortable(Size)
    /\ status' = "done"
    /\ Rearranged(input, output') /\ Ordered(output')
    /\ UNCHANGED input

SReject ==
    /\ status = "running" /\ ~ Sortable(Size)
    /\ status' = "panicked"
    /\ UNCHANGED <<input, output>>

SNext == SReturn \/ SReject

SSpec == SInit /\ [][SNext]_svars
=============================================================================
