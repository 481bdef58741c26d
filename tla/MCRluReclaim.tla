---------------------------- MODULE MCRluReclaim ----------------------------
(* RluReclaim for TLC: a parent and one node, which is its child, freed,   *)
(* and given out again as its child.                                       *)
EXTENDS RluReclaim

CONSTANTS r, m

Children == {m}
Slot == Children \cup {Nil}

(* The properties say nothing once two writers have taken one version.     *)
Unraced == ~raced
=============================================================================
