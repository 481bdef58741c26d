------------------------- MODULE MCParallelQuadtree -------------------------
(* ParallelQuadtree for TLC: two points that share a square of a quarter   *)
(* of the root's length, in a tree that starts with the first of them, on  *)
(* one level or on two.                                                    *)
EXTENDS ParallelQuadtree

A == <<-14>>
B == <<-10>>
Two == {A, B}
Low == <<[p |-> A, heads |-> 0]>>
High == <<[p |-> A, heads |-> 1]>>
LowOrHigh == {Low, High}
OnlyHigh == {High}
TheCalls ==
  {[op |-> "add", p |-> B], [op |-> "search", p |-> A]}
    \cup [op : {"remove"}, p : Two]
ThreadSymmetry == Permutations(Threads)
=============================================================================
