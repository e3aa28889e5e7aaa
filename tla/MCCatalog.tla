------------------------------ MODULE MCCatalog ------------------------------
EXTENDS Catalog, TLC

Symmetry == Permutations(Sessions) \cup Permutations(Tables)
=============================================================================
