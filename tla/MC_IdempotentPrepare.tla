------------------------- MODULE MC_IdempotentPrepare -------------------------
(* Instances of IdempotentPrepare for TLC. *)
EXTENDS IdempotentPrepare, TLC

Symmetry == Permutations(Callers) \union Permutations(Keys) \union Permutations(Arguments)
=============================================================================
