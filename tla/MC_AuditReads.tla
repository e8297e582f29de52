---------------------------- MODULE MC_AuditReads ----------------------------
EXTENDS AuditReads

MCScope == {1, 2, 4, 5, 6}
=============================================================================
