--------------------------- MODULE MCFfmpegStream ---------------------------
(* Instances of FfmpegStream for TLC.                                      *)
EXTENDS FfmpegStream
=============================================================================
