--------------------------- MODULE MCSpeculative ---------------------------
(* Speculative on a small instance: stop sequences that overlap.           *)
EXTENDS Speculative, TLC

CONSTANTS a, b

MCStops == {<<a, b>>, <<a, a, b>>}
=============================================================================
