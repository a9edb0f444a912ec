--------------------------- MODULE MCModelServer ---------------------------
(* ModelServer with a small and a large model.                             *)
EXTENDS ModelServer, TLC

CONSTANTS small, large

MCBytes == (small :> 1) @@ (large :> 3)
=============================================================================
