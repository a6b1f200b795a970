------------------------------ MODULE MCConnect ------------------------------
(* Model checking of Connect: the constants come from the .cfg files.        *)
EXTENDS Connect
=============================================================================
