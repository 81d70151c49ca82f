-------------------------- MODULE MCSessionOnEngine --------------------------
(* Instances of SessionOnEngine for TLC; the .cfg files give the bounds.   *)
EXTENDS SessionOnEngine
=============================================================================
