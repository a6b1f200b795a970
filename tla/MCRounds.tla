------------------------------ MODULE MCRounds ------------------------------
EXTENDS Rounds

MCCalls == {[kind |-> k, len |-> n] : k \in Kind, n \in 1 .. 2}

\* Every program of one or two calls.
MCPrograms == {<<c>> : c \in MCCalls} \cup (MCCalls \X MCCalls)

\* One call of each kind, for more parties.
MCOneCall == {<<[kind |-> k, len |-> 1]>> : k \in Kind}
=============================================================================
