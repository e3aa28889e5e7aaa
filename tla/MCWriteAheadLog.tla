-------------------------- MODULE MCWriteAheadLog --------------------------
(* WriteAheadLog for TLC: data operations of equal standing are symmetric,  *)
(* and so are the threads.                                                  *)
EXTENDS WriteAheadLog, TLC

Symmetry == Permutations(Threads) \cup Permutations(Data)
=============================================================================
