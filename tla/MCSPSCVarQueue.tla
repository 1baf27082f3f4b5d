--------------------------- MODULE MCSPSCVarQueue ---------------------------
(* SPSCVarQueue with the values of a .cfg. *)
EXTENDS SPSCVarQueue
=============================================================================
