--------------------------- MODULE QuadtreeNodes ---------------------------
(***************************************************************************)
(* What the serial and the parallel quadtree share: points and squares     *)
(* (lib/Quadtree.h, lib/Point.c), nodes and their pointers, and what the   *)
(* two make of the pointers when a node is inserted.  A node is named by   *)
(* what it is (square or point, centre, side length) and the number of its *)
(* copy among the nodes that are the same; a heap maps the nodes that are  *)
(* allocated to their pointers.                                            *)
(*                                                                         *)
(* Coordinates are integers in a unit of which PRECISION is Precision.     *)
(***************************************************************************)
EXTENDS Integers, Sequences, FiniteSets, TLC

CONSTANTS
  Dim,        \* D
  RootLength, \* length of the root, whose centre is the origin
  Lengths,    \* the lengths of squares: RootLength and its halves, down to
  Finest,     \* the length of the smallest square that two points may need
  Precision,  \* PRECISION
  Null        \* NULL

Dims == 1..Dim

ASSUME GeometryAssumption ==
  /\ Dim \in Nat \ {0} /\ RootLength \in Nat \ {0}
  /\ Precision \in Nat
  /\ Null \notin [square : BOOLEAN, center : [Dims -> Int], length : Nat,
                  copy : Nat]

(* Halves and quarters of squares are exact, as in the code's doubles, and *)
(* PRECISION is small.                                                     *)
ASSUME LengthsAssumption ==
  /\ RootLength \in Lengths /\ Finest \in Lengths /\ 2 * Precision < Finest
  /\ \A l \in Lengths :
       /\ l \in Finest..RootLength /\ l % 4 = 0
       /\ l # Finest => l \div 2 \in Lengths
       /\ \A k \in Lengths : k < l => \E m \in 1..RootLength : l = 2 * m * k

(* The centres and edges of squares are multiples of half the finest       *)
(* length, from the root's left edge.  A point is off the edges if it is   *)
(* not left of one by PRECISION or less: get_quadrant and in_range differ  *)
(* on points that are.                                                     *)
Cell(x) == (x + RootLength \div 2) \div (Finest \div 2)
Offset(x) == (x + RootLength \div 2) % (Finest \div 2)
OffEdges(p) == \A i \in Dims : Offset(p[i]) < Finest \div 2 - Precision

(* A quadrant is the set of the dimensions whose bit is set.               *)
Abs(x) == IF x < 0 THEN -x ELSE x
Point_equals(a, b) == \A i \in Dims : Abs(a[i] - b[i]) <= Precision
InRangeOpen(n, p) ==  \* mutant: the left edge is left out
  \A i \in Dims : /\ n.center[i] - n.length \div 2 < p[i]
                  /\ p[i] < n.center[i] + n.length \div 2
in_range(n, p) ==
  \A i \in Dims : /\ n.center[i] - n.length \div 2 <= p[i]
                  /\ p[i] < n.center[i] + n.length \div 2
get_quadrant(origin, p) == {i \in Dims : p[i] >= origin[i] - Precision}
get_new_center(n, q) ==
  [i \in Dims |-> IF i \in q THEN n.center[i] + n.length \div 4
                             ELSE n.center[i] - n.length \div 4]

(* Nodes.  The length of a point "does not matter" (Quadtree.h:35).        *)
Square(c, l) == [square |-> TRUE, center |-> c, length |-> l]
PointAt(p) == [square |-> FALSE, center |-> p, length |-> 0]
Node(what, k) ==
  [square |-> what.square, center |-> what.center,
   length |-> what.length, copy |-> k]
Same(n, m) == n.square = m.square /\ n.center = m.center /\ n.length = m.length
FreshIn(taken, what) ==  \* malloc
  LET Free(k) == Node(what, k) \notin taken
  IN Node(what, CHOOSE k \in 0..Cardinality(taken) :
                  Free(k) /\ \A j \in 0..(k - 1) : ~Free(j))

NoChildren == [q \in SUBSET Dims |-> Null]
Node_init == [parent |-> Null, up |-> Null, down |-> Null, child |-> NoChildren]

Root == Node(Square([i \in Dims |-> 0], RootLength), 0)
QuadrantIn(n, m) == get_quadrant(n.center, m.center)
SlotIn(h, n, p) == h[n].child[get_quadrant(n.center, p)]
Children(h, n) == {h[n].child[q] : q \in SUBSET Dims} \ {Null}
Pointers(h, n) ==
  ({h[n].parent, h[n].up, h[n].down} \cup Children(h, n)) \ {Null}

(* Assignments through pointers.                                           *)
SetUp(h, n, v) == IF n = Null THEN h ELSE [h EXCEPT ![n].up = v]
SetDown(h, n, v) == IF n = Null THEN h ELSE [h EXCEPT ![n].down = v]
SetParent(h, n, v) == [h EXCEPT ![n].parent = v]
SetSlot(h, n, q, v) == [h EXCEPT ![n].child[q] = v]
Stack(h, upper, lower) == SetUp(SetDown(h, upper, lower), lower, upper)
Alloc(h, n, fields) ==
  [m \in DOMAIN h \cup {n} |-> IF m = n THEN fields ELSE h[m]]
Drop(h, n) == [m \in DOMAIN h \ {n} |-> h[m]]

-----------------------------------------------------------------------------
(* Insertion.  The walk along a level goes on into squares around p.       *)
WalksOnAnywhere(child, p) == child # Null /\ child.square  \* mutant
WalksOn(child, p) == child # Null /\ child.square /\ in_range(child, p)

(* (gap_depth > 0) & (gap_depth - 1): the bitwise and of 0 or 1 and a      *)
(* number is the last bit of the number, or 0.                             *)
NextGap(g) == IF g > 0 THEN (g - 1) % 2 ELSE 0

(* The square that the new node at p and its sibling-to-be share: the      *)
(* quadrant of the parent, halved until the two are in different quadrants *)
(* of it.                                                                  *)
FirstSquare(parent, p) ==
  Square(get_new_center(parent, get_quadrant(parent.center, p)),
         parent.length \div 2)
Split(parent, sibling, p) ==
  LET Nested[k \in Nat] ==
        IF k = 0 THEN FirstSquare(parent, p) ELSE FirstSquare(Nested[k - 1], p)
      Splits(k) == get_quadrant(Nested[k].center, sibling.center)
                     # get_quadrant(Nested[k].center, p)
      turns == CHOOSE k \in 0..RootLength :
                 Splits(k) /\ \A j \in 0..(k - 1) : ~Splits(j)
  IN Nested[turns]

(* h with the new node, linked to its copy low one level below.            *)
WithNew(h, new, parent, low) ==
  Stack(Alloc(h, new, [Node_init EXCEPT !.parent = parent]), new, low)
WithPoint(h, new, parent, low) ==
  SetSlot(WithNew(h, new, parent, low), parent, QuadrantIn(parent, new), new)

(* h with the square sq between the parent and its two new children.       *)
ForgetsSibling(h, new, low, parent, sibling, sq, down) ==
  LET Kids == [NoChildren EXCEPT ![QuadrantIn(sq, new)] = new,
                                 ![QuadrantIn(sq, sibling)] = sibling]
      made == Alloc(WithNew(h, new, sq, low), sq,
                    [Node_init EXCEPT !.parent = parent, !.child = Kids])
  IN SetSlot(Stack(made, sq, down), parent, QuadrantIn(parent, new), sq)
WithSquare(h, new, low, parent, sibling, sq, down) ==
  LET Kids == [NoChildren EXCEPT ![QuadrantIn(sq, new)] = new,
                                 ![QuadrantIn(sq, sibling)] = sibling]
      made == Alloc(WithNew(h, new, sq, low), sq,
                    [Node_init EXCEPT !.parent = parent, !.child = Kids])
  IN SetParent(SetSlot(Stack(made, sq, down), parent, QuadrantIn(parent, new), sq),
               sibling, sq)

(* The loop that looks for the copy of the square one level below ends.    *)
SameSquare(n, sq) ==
  /\ Point_equals(n.center, sq.center)
  /\ Abs(n.length - sq.length) <= Precision

-----------------------------------------------------------------------------
(* Removal: a square without a second child is too thin to stay.           *)
Count(h, n) == Cardinality(Children(h, n))
Thin(h, n) == Count(h, n) < 2
=============================================================================
