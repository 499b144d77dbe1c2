--------------------------- MODULE MCHistoryStore ---------------------------
(* A small instance of HistoryStore.                                       *)
EXTENDS HistoryStore, TLC

Symmetry == Permutations(Writers) \cup Permutations(Series)
=============================================================================
