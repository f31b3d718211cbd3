------------------------------ MODULE MCMemLeak ------------------------------
(***************************************************************************)
(* TLC instances of MemLeak.                                               *)
(***************************************************************************)
EXTENDS MemLeakRefinement, TLC

Symmetry == Permutations(Threads)
==============================================================================
