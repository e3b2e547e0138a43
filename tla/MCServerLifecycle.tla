-------------------------- MODULE MCServerLifecycle --------------------------
(* Instances of ServerLifecycle for model checking.                         *)
EXTENDS ServerLifecycle

MCAll == AllKinds
=============================================================================
