------------------------------ MODULE MCShares ------------------------------
EXTENDS Shares
=============================================================================
