-------------------------- MODULE MCSpeechResponses --------------------------
(* Instances of SpeechResponses for TLC.                                   *)
EXTENDS SpeechResponses
=============================================================================
