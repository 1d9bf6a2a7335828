---------------------------- MODULE MCTenancyHandlers ----------------------------
(* TenancyHandlers for TLC: the ids of the rows are interchangeable. *)
EXTENDS TenancyHandlers, TLC

RowSymmetry == Permutations(Row)
=============================================================================
