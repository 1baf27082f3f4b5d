---------------------------- MODULE MCPTCPQueue ----------------------------
(* PTCPQueue with the values of a .cfg. *)
EXTENDS PTCPQueue
=============================================================================
