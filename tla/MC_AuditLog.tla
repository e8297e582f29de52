----------------------------- MODULE MC_AuditLog -----------------------------
EXTENDS AuditLog, TLC

\* Transactions are interchangeable.
Symmetry == Permutations(Writers)
=============================================================================
