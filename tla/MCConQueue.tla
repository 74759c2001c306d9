----------------------------- MODULE MCConQueue -----------------------------
(* An instance of ConQueue for TLC: few blocks and bytes.                  *)
EXTENDS ConQueue, TLC

Symmetry == Permutations(Blocks)
=============================================================================
