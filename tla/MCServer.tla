------------------------------ MODULE MCServer ------------------------------
(* Server with the values of a .cfg. *)
EXTENDS Server
=============================================================================
