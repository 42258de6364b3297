----------------------------- MODULE MCRowData ------------------------------
(* RowData for TLC: rows, buffers and blocks are interchangeable.           *)
EXTENDS RowData, TLC

Symmetry ==
  Permutations(Rows) \cup Permutations(Buffers) \cup Permutations(Blocks)

=============================================================================
