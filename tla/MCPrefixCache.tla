--------------------------- MODULE MCPrefixCache ---------------------------
(* PrefixCache on small instances.                                         *)
EXTENDS PrefixCache, TLC

Symmetry == Permutations(Callers) \cup Permutations(Tokens)
=============================================================================
