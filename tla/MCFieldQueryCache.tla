------------------------- MODULE MCFieldQueryCache --------------------------
(***************************************************************************)
(* Instances of FieldQueryCache for TLC.                                   *)
(***************************************************************************)
EXTENDS FieldQueryCache, TLC

CONSTANTS a, b, c, d, null

\* One value of a type no table takes.
MCParams == {a, b, c, null}
MCInternKey == [p \in MCParams |-> IF p = null THEN NoKey ELSE p]

\* Four values, so that a number can change hands after a reset.
DirectParams == {a, b, c, d}
DirectInternKey == [p \in DirectParams |-> p]

ScopeSymmetry == Permutations(Scopes)
=============================================================================
