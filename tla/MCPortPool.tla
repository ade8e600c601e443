----------------------------- MODULE MCPortPool -----------------------------
(* Two keys that compete for the ports.                                    *)
EXTENDS PortPool, TLC

Symmetry == Permutations(Keys)
=============================================================================
