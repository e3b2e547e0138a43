---------------------------- MODULE MCFileUpload ----------------------------
(* Values for the constants of FileUpload. *)
EXTENDS FileUpload

OwnNames == [f \in Files |-> f]
=============================================================================
