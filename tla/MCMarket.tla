------------------------------ MODULE MCMarket ------------------------------
(* Market for TLC. *)
EXTENDS Market, TLC
=============================================================================
