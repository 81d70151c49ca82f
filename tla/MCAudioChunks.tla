--------------------------- MODULE MCAudioChunks ---------------------------
(* Instances of AudioChunks for TLC.                                       *)
EXTENDS AudioChunks
=============================================================================
