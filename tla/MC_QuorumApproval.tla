-------------------------- MODULE MC_QuorumApproval --------------------------
EXTENDS QuorumApproval, TLC

\* Approvers and sessions are interchangeable.
Symmetry == Permutations(Approvers) \union Permutations(Sessions)
=============================================================================
