------------------------ MODULE MC_OperationLifecycle ------------------------
EXTENDS OperationLifecycle, TLC

\* Operations and request sessions are interchangeable.
Symmetry == Permutations(Operations) \union Permutations(Sessions)
=============================================================================
