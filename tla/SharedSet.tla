----------------------------- MODULE SharedSet -----------------------------
(***************************************************************************)
(* What the parallel quadtree promises to the threads that share it: a set *)
(* of points that the calls of all threads change one at a time, each by   *)
(* its own point and only as it answers.  An add or a remove that answers  *)
(* TRUE has changed the set, one that answers FALSE leaves it alone, and   *)
(* may do so whatever the set is: a call gives up after some attempts.     *)
(* What a removal makes of the set that goes on without a lock it did not  *)
(* get is left open: from then on the set is broken, and nothing promised. *)
(***************************************************************************)
CONSTANTS Threads, Points

VARIABLES
  points,  \* the points of the tree
  doing,   \* per thread: its call, [op, p]
  phase,   \* per thread: "idle", "busy" or "answered"
  answer,  \* per thread: the answer of an answered call
  broken

setVars == <<points, doing, phase, answer, broken>>

After(c) == CASE c.op = "add"    -> points \cup {c.p}
              [] c.op = "remove" -> points \ {c.p}
              [] c.op = "search" -> points

Call(t) ==
  /\ phase[t] = "idle" /\ phase' = [phase EXCEPT ![t] = "busy"]
  /\ \E op \in {"add", "remove", "search"}, p \in Points :
       doing' = [doing EXCEPT ![t] = [op |-> op, p |-> p]]
  /\ UNCHANGED <<points, answer, broken>>

Succeed(t) ==
  /\ phase[t] = "busy" /\ phase' = [phase EXCEPT ![t] = "answered"]
  /\ answer' = [answer EXCEPT ![t] = TRUE]
  /\ points' = After(doing[t])
  /\ points' # points \/ doing[t].op = "search"
  /\ UNCHANGED <<doing, broken>>

GiveUp(t) ==
  /\ phase[t] = "busy" /\ phase' = [phase EXCEPT ![t] = "answered"]
  /\ answer' = [answer EXCEPT ![t] = FALSE]
  /\ UNCHANGED <<points, doing, broken>>

Return(t) ==
  /\ phase[t] = "answered" /\ phase' = [phase EXCEPT ![t] = "idle"]
  /\ UNCHANGED <<points, broken>>

Break == broken' = TRUE

SetInit == phase = [t \in Threads |-> "idle"] /\ ~broken
SetNext ==
  \/ Break
  \/ ~broken /\ \E t \in Threads : Call(t) \/ Succeed(t) \/ GiveUp(t) \/ Return(t)
SetSpec == SetInit /\ [][SetNext]_setVars
=============================================================================
