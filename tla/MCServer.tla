------------------------------ MODULE MCServer ------------------------------
EXTENDS Server, TLC

\* Connections are interchangeable (safety runs only).
Symmetry == Permutations(Clients)
=============================================================================
