------------------------------ MODULE PointSet ------------------------------
(***************************************************************************)
(* What a quadtree promises to the thread that calls it, as Quadtree.h     *)
(* states it: a set of points that one call at a time adds to, removes     *)
(* from, searches or frees.  A call changes the set in the middle and      *)
(* answers at its end.  An answer TRUE of a search is only given for a     *)
(* point of the set; what an answer FALSE means is left open here.         *)
(***************************************************************************)
CONSTANTS
  Points,  \* the points that are asked for
  Space    \* those of them that are inside the root

VARIABLES
  points,  \* the points of the tree
  call,    \* the call and the set it found: [op, p, was]
  phase,   \* "idle", "busy" or "answered"
  ans      \* the answer of an answered call

setVars == <<points, call, phase, ans>>

Ops == {"add", "remove", "search", "free"}
Calls == [op : Ops, p : Points, was : SUBSET Space]

(* The set a call leaves, from the one it found.                           *)
After(c) ==
  CASE c.op = "add"    -> c.was \cup ({c.p} \cap Space)
    [] c.op = "remove" -> c.was \ {c.p}
    [] c.op = "search" -> c.was
    [] c.op = "free"   -> {}

(* Add and remove succeed when they change the set.                        *)
MayAnswer(c, b) ==
  CASE c.op = "search" -> b => c.p \in c.was
    [] c.op = "free"   -> TRUE
    [] OTHER           -> b = (After(c) # c.was)

Begin ==
  /\ phase = "idle" /\ phase' = "busy"
  /\ call' \in Calls /\ call'.was = points
  /\ UNCHANGED <<points, ans>>

Change ==
  /\ phase = "busy" /\ points' = After(call)
  /\ UNCHANGED <<call, phase, ans>>

(* Quadtree_free gives the points up one by one.                           *)
Shrink ==
  /\ phase = "busy" /\ call.op = "free"
  /\ points' \in SUBSET points
  /\ UNCHANGED <<call, phase, ans>>

Answer ==
  /\ phase = "busy" /\ phase' = "answered"
  /\ points = After(call) /\ MayAnswer(call, ans')
  /\ UNCHANGED <<points, call>>

Return ==
  /\ phase = "answered" /\ phase' = "idle"
  /\ UNCHANGED points

SetInit == points = {} /\ phase = "idle" /\ ans = FALSE
SetNext == Begin \/ Change \/ Shrink \/ Answer \/ Return
SetSpec == SetInit /\ [][SetNext]_setVars
=============================================================================
