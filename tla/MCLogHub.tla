------------------------------- MODULE MCLogHub -------------------------------
(* Instances of LogHub for model checking.                                  *)
EXTENDS LogHub
=============================================================================
