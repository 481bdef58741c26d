------------------------------ MODULE MCRluTxn ------------------------------
(* RluTxn for TLC: who reads and writes what.  The objects of a group are  *)
(* alike.                                                                  *)
EXTENDS RluTxn, TLC

CONSTANTS a, b, c

Pair       == {{a, b}}
PairAndOne == {{a, b}, {c}}
Single     == {{c}}

AllGroups == [t \in Threads |-> Groups]

(* Thread 0 writes the pair, thread 1 the single object, 2 reads the pair. *)
TwoWriters == [t \in Threads |-> CASE t = 0 -> {{a, b}}
                                   [] t = 1 -> {{c}}
                                   [] OTHER -> {}]
OneReader  == [t \in Threads |-> IF t = 2 THEN {{a, b}} ELSE {}]

(* Thread 0 writes everything, and so has several write sets pending;       *)
(* thread 1 reads the pair and competes for the single object.             *)
PairReader == [t \in Threads |-> {{a, b}}]
Deferrer   == [t \in Threads |-> IF t = 0 THEN {{a, b}, {c}} ELSE {{c}}]

Nothing   == [t \in Threads |-> {}]

Symmetry == UNION {Permutations(g) : g \in Groups}
=============================================================================
