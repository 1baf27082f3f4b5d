--------------------------- MODULE MCPTCPSession ---------------------------
(* PTCPSession with the values of a .cfg. *)
EXTENDS PTCPSession
=============================================================================
