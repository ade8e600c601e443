-------------------------- MODULE MCToolConcurrency --------------------------
(* A small instance of ToolConcurrency: two writers and three reads with a *)
(* cap of two, so that both a full read slot set and a writer that waits   *)
(* between reads happen.                                                   *)
EXTENDS ToolConcurrency, TLC

Symmetry == Permutations(Writers) \cup Permutations(Reads)
=============================================================================
