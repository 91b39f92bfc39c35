---------------------------- MODULE MCPagination ----------------------------
(* Pagination on a small instance: ids of rows are interchangeable. *)
EXTENDS Pagination, TLC

RowSymmetry == Permutations(Rows)
=============================================================================
