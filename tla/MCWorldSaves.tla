---------------------------- MODULE MCWorldSaves ----------------------------
(* Instances of WorldSaves for model checking.                             *)
EXTENDS WorldSaves
=============================================================================
