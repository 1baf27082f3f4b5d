----------------------------- MODULE MCRecvBuf -----------------------------
(* RecvBuf with the values of a .cfg. *)
EXTENDS RecvBuf
=============================================================================
