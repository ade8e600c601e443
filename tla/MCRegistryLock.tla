--------------------------- MODULE MCRegistryLock ---------------------------
(* Small instances of RegistryLock: two or three processes, two failures.  *)
EXTENDS RegistryLock, TLC

Symmetry == Permutations(Procs)
=============================================================================
