------------------------------ MODULE MCTPool ------------------------------
EXTENDS TPool, TLC

\* Workers, callers and work objects are interchangeable (safety runs only).
Symmetry == Permutations(Workers) \cup Permutations(Callers) \cup Permutations(Jobs)
=============================================================================
