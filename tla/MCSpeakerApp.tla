---------------------------- MODULE MCSpeakerApp ----------------------------
(* An instance of SpeakerApp for TLC.                                      *)
EXTENDS SpeakerApp
=============================================================================
