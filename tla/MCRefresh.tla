------------------------------ MODULE MCRefresh -----------------------------
(***************************************************************************)
(* An instance of Refresh for TLC: a table that is given twice, and one    *)
(* whose interval is zero.                                                 *)
(***************************************************************************)
EXTENDS Refresh

CONSTANTS users, idle

MCTables == {users, idle}
MCSpecs == <<[name |-> idle, zero |-> TRUE], [name |-> users, zero |-> FALSE],
             [name |-> users, zero |-> FALSE]>>
=============================================================================
