--------------------------- MODULE MCIndexedTable ---------------------------
(* IndexedTable for TLC, with interchangeable sessions and keys.            *)
EXTENDS IndexedTable, TLC

Symmetry == Permutations(Sessions) \cup Permutations(Keys)
=============================================================================
