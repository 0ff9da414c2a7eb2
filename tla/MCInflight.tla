------------------------------ MODULE MCInflight ------------------------------
(***************************************************************************)
(* Inflight for TLC: a hold of 2 that expires, so that it can be committed *)
(* in parts, next to a hold of 1 in the same pool.                         *)
(***************************************************************************)
EXTENDS Inflight, TLC

Amounts == [h \in Holds |-> IF h \in Expiring THEN 2 ELSE 1]

EqualAmounts == [h \in Holds |-> 1]

Symmetry == Permutations(Workers)
==============================================================================
