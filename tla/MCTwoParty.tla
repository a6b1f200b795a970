----------------------------- MODULE MCTwoParty -----------------------------
EXTENDS TwoParty

MCCalls == {[kind |-> k, len |-> n] : k \in Kind, n \in {1, 3}}

\* Every program of one or two calls.
MCPrograms == {<<c>> : c \in MCCalls} \cup (MCCalls \X MCCalls)
=============================================================================
