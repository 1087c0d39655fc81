---------------------------- MODULE MCSqlProvider ---------------------------
(***************************************************************************)
(* An instance of SqlProvider for TLC: a server's provider replaced by     *)
(* SQLite or the other way round, one query whose columns depend on the    *)
(* schema and one whose columns do not.                                    *)
(***************************************************************************)
EXTENDS SqlProvider, TLC

MCPlans == {<<"postgres", "sqlite">>, <<"sqlite", "mysql">>}

TasksAlike == Permutations(Tasks)
=============================================================================
