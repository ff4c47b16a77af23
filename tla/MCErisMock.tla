------------------------------ MODULE MCErisMock ------------------------------
EXTENDS ErisMock
Symmetric == Permutations(Requests)
=============================================================================
