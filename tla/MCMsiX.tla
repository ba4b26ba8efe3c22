------------------------------- MODULE MCMsiX -------------------------------
(* An instance of MsiX for TLC: two pending bits to a byte, so that three  *)
(* vectors have a byte they share and one of their own.                    *)
EXTENDS MsiX, TLC

CONSTANTS w1, w2
MCWorkers == {w1, w2}
Symmetry == Permutations(MCWorkers)
=============================================================================
