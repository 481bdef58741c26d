------------------------------- MODULE MCRlu -------------------------------
(* Rlu for TLC: any client; objects are alike, values are not told apart.  *)
EXTENDS Rlu, TLC
Symmetry == Permutations(Objs)
=============================================================================
