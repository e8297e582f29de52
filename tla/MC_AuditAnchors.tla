--------------------------- MODULE MC_AuditAnchors ---------------------------
EXTENDS AuditAnchors, TLC

\* Publishers are interchangeable.
Symmetry == Permutations(Publishers)
=============================================================================
