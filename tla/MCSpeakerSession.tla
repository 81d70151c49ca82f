-------------------------- MODULE MCSpeakerSession --------------------------
(* Instances of SpeakerSession for TLC; the .cfg files give the bounds.    *)
EXTENDS SpeakerSessionInv
=============================================================================
