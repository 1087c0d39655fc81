----------------------------- MODULE MCAuthority ----------------------------
(***************************************************************************)
(* An instance of Authority for TLC: two tables, loaded in this order.     *)
(***************************************************************************)
EXTENDS Authority

CONSTANTS users, nets

TwoTables == <<users, nets>>
=============================================================================
