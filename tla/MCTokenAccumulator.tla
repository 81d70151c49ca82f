------------------------- MODULE MCTokenAccumulator -------------------------
(* An instance of TokenAccumulator for TLC.                                *)
EXTENDS TokenAccumulator
=============================================================================
