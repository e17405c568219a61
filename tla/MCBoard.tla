------------------------------ MODULE MCBoard ------------------------------
EXTENDS Board
=============================================================================
