---------------------------- MODULE MCPeriodHandlers ----------------------------
(* PeriodHandlers for TLC: the ids of the rows are interchangeable, and the two
   tables hold at most MaxRows rows together.                                *)
EXTENDS PeriodHandlers, FiniteSets, TLC

CONSTANT MaxRows        \* bound of the tables

RowSymmetry == Permutations(Row)

FewRows == Cardinality({<<t, i>> \in Table \X Row : rows[t][i] # None}) <= MaxRows
=============================================================================
