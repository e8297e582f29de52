--------------------------- MODULE MC_PostgresCopy ---------------------------
EXTENDS PostgresCopy, TLC

MCInitialEvents == <<3, 1, 3, 1>>

\* no process is named anywhere
Symmetry == Permutations(Runs)
=============================================================================
