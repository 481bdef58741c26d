--------------------------- MODULE SkipTreeProofs ---------------------------
(***************************************************************************)
(* What TLAPS proves of the serial tree (SkipQuadtree), part 1: the        *)
(* geometry of squares (QuadtreeNodes); what makes a heap a compressed     *)
(* skip quadtree; and that every operation on the pointers that the calls  *)
(* are made of takes such a tree to such a tree.                           *)
(*                                                                         *)
(* Geometry, for any dimension and PRECISION: how the quadrants of a       *)
(* square, which get_quadrant chooses and get_new_center and half the      *)
(* length make into squares, lie to each other and to in_range.  Lengths   *)
(* are divisible by four, so that both halves are exact.                   *)
(***************************************************************************)
EXTENDS SkipQuadtree, FiniteSetTheorems, WellFoundedInduction, TLAPS

Positions == [Dims -> Int]
IsSquare(n) ==
  n.center \in Positions /\ \E k \in Nat : n.length = 4 * k

(* Left of the centre by no more than PRECISION, in some dimension: the    *)
(* strip that get_quadrant counts to the right and in_range to the left.   *)
OnStrip(n, p) ==
  \E i \in Dims : n.center[i] - Precision <= p[i] /\ p[i] < n.center[i]

(* The quadrant q of n, as get_new_center places it.                       *)
QuadrantSquare(n, q) == Square(get_new_center(n, q), n.length \div 2)

(* One dimension of being in a quadrant.                                   *)
LEMMA InQuadrant ==
  ASSUME NEW n, IsSquare(n), NEW q \in SUBSET Dims, NEW p \in Positions
  PROVE  in_range(QuadrantSquare(n, q), p) <=>
           \A i \in Dims :
             IF i \in q
             THEN n.center[i] <= p[i] /\ p[i] < n.center[i] + n.length \div 2
             ELSE n.center[i] - n.length \div 2 <= p[i] /\ p[i] < n.center[i]
<1>1. PICK k \in Nat : n.length = 4 * k BY DEF IsSquare
<1>2. /\ n.length \div 2 = 2 * k /\ n.length \div 4 = k
      /\ (n.length \div 2) \div 2 = k
  BY <1>1
<1>3. /\ QuadrantSquare(n, q).center = get_new_center(n, q)
      /\ QuadrantSquare(n, q).length = n.length \div 2
  BY DEF QuadrantSquare, Square
<1>4. \A i \in Dims : get_new_center(n, q)[i] = IF i \in q THEN n.center[i] + k
                                                ELSE n.center[i] - k
  BY <1>2 DEF get_new_center
<1>5. \A i \in Dims : n.center[i] \in Int /\ p[i] \in Int
  BY DEF IsSquare, Positions
<1> QED BY <1>2, <1>3, <1>4, <1>5 DEF in_range

(* A quadrant lies in its square, so the squares of a level are nested as  *)
(* their nodes are.                                                        *)
THEOREM QuadrantsInside ==
  ASSUME NEW n, IsSquare(n), NEW q \in SUBSET Dims, NEW p \in Positions,
         in_range(QuadrantSquare(n, q), p)
  PROVE  in_range(n, p)
<1>1. PICK k \in Nat : n.length = 4 * k BY DEF IsSquare
<1>2. n.length \div 2 = 2 * k BY <1>1
<1>3. \A i \in Dims : n.center[i] \in Int /\ p[i] \in Int
  BY DEF IsSquare, Positions
<1> QED BY <1>2, <1>3, InQuadrant DEF in_range

(* No point is in two quadrants of a square.                               *)
THEOREM QuadrantsDisjoint ==
  ASSUME NEW n, IsSquare(n), NEW q \in SUBSET Dims, NEW r \in SUBSET Dims,
         NEW p \in Positions,
         in_range(QuadrantSquare(n, q), p), in_range(QuadrantSquare(n, r), p)
  PROVE  q = r
<1>1. ASSUME NEW i \in Dims PROVE i \in q <=> i \in r
  <2>1. n.center[i] \in Int /\ p[i] \in Int BY DEF IsSquare, Positions
  <2>2. (i \in q <=> n.center[i] <= p[i]) /\ (i \in r <=> n.center[i] <= p[i])
    BY <2>1, InQuadrant
  <2> QED BY <2>2
<1> QED BY <1>1

(* A point of a square is in the quadrant that get_quadrant chooses for it *)
(* exactly if it is not on the strip.  What is on the strip is inserted    *)
(* beside the square that does not contain it (Quadtree.h:285 and 258).    *)
THEOREM QuadrantContains ==
  ASSUME NEW n, IsSquare(n), NEW p \in Positions, in_range(n, p)
  PROVE  in_range(FirstSquare(n, p), p) <=> ~OnStrip(n, p)
<1> DEFINE q == get_quadrant(n.center, p)
<1>1. PICK k \in Nat : n.length = 4 * k BY DEF IsSquare
<1>2. n.length \div 2 = 2 * k BY <1>1
<1>3. \A i \in Dims : n.center[i] \in Int /\ p[i] \in Int
  BY DEF IsSquare, Positions
<1>4. Precision \in Nat BY GeometryAssumption
<1>5. q \in SUBSET Dims /\ \A i \in Dims : i \in q <=> p[i] >= n.center[i] - Precision
  BY DEF get_quadrant
<1>6. FirstSquare(n, p) = QuadrantSquare(n, q)
  BY DEF FirstSquare, QuadrantSquare
<1>7. in_range(QuadrantSquare(n, q), p) <=>
        \A i \in Dims : i \in q => n.center[i] <= p[i]
  <2> HIDE DEF q
  <2>1. \A i \in Dims : /\ n.center[i] - 2 * k <= p[i]
                        /\ p[i] < n.center[i] + 2 * k
    BY <1>2 DEF in_range
  <2>2. \A i \in Dims : i \notin q => p[i] < n.center[i]
    BY <1>3, <1>4, <1>5
  <2> QED BY <1>2, <1>5, <2>1, <2>2, InQuadrant
<1> QED BY <1>3, <1>4, <1>5, <1>6, <1>7 DEF OnStrip

(* The quadrant of a node of the tree is that of its point: points that    *)
(* Point_equals takes for one are in one quadrant or on either side of the *)
(* strip's edge.                                                           *)
THEOREM EqualPointsTogether ==
  ASSUME NEW n, IsSquare(n), NEW p \in Positions, NEW r \in Positions,
         Point_equals(p, r), NEW i \in Dims,
         p[i] >= n.center[i] \/ p[i] < n.center[i] - 2 * Precision
  PROVE  i \in get_quadrant(n.center, p) <=> i \in get_quadrant(n.center, r)
<1>1. /\ n.center[i] \in Int /\ p[i] \in Int /\ r[i] \in Int
      /\ Precision \in Nat
  BY GeometryAssumption DEF IsSquare, Positions
<1>2. r[i] <= p[i] + Precision /\ p[i] <= r[i] + Precision
  BY <1>1 DEF Point_equals, Abs
<1> QED BY <1>1, <1>2 DEF get_quadrant
-----------------------------------------------------------------------------
(* The grid.  Squares that come from the root by halving are the cells of  *)
(* grids of their lengths, so that two of them are disjoint, the same, or  *)
(* one within a quadrant of the other, and so are a square and a point that *)
(* is off the edges.                                                       *)
GridSquare(g) ==
  /\ g.square = TRUE /\ g.center \in Positions /\ g.length \in Lengths
  /\ \A i \in Dims : \E a \in Int :
       g.center[i] + RootLength \div 2 = a * g.length + g.length \div 2
GridPoint(g) ==
  g.square = FALSE /\ g.center \in Positions /\ g.length = 0 /\ OffEdges(g.center)
Place(g) == GridSquare(g) \/ GridPoint(g)
In(a, b) == b.square /\ a.length < b.length /\ in_range(b, a.center)

LEMMA MulLess ==
  ASSUME NEW x \in Int, NEW y \in Int, NEW k \in Nat \ {0}, x * k < y * k
  PROVE  x < y
  OBVIOUS

LEMMA MulLeq ==
  ASSUME NEW x \in Int, NEW y \in Int, NEW k \in Nat, x <= y
  PROVE  x * k <= y * k
  OBVIOUS

(* Of two cells of length k, one that starts before the end of the other   *)
(* starts no later than it.                                                *)
LEMMA CellOrder ==
  ASSUME NEW x \in Int, NEW y \in Int, NEW k \in Nat \ {0}, x * k < y * k + k
  PROVE  x * k <= y * k
<1>1. (y + 1) * k = y * k + k OBVIOUS
<1>2. x < y + 1 BY <1>1, MulLess
<1> QED BY <1>2, MulLeq

LEMMA DivIs ==
  ASSUME NEW y \in Int, NEW c \in Int, NEW k \in Nat \ {0}, c * k <= y,
         y < c * k + k
  PROVE  y \div k = c
  OBVIOUS

LEMMA DivMod ==
  ASSUME NEW y \in Int, NEW k \in Nat \ {0}
  PROVE  /\ y \div k \in Int /\ y % k \in 0..(k - 1)
         /\ y = (y \div k) * k + (y % k)
  OBVIOUS

(* Lengths can be quartered, and a longer one is an even multiple of a      *)
(* shorter one.                                                            *)
LEMMA LengthFacts ==
  ASSUME NEW l \in Lengths
  PROVE  \E j \in Nat \ {0} :
           /\ l = 4 * j /\ l \div 2 = 2 * j /\ l \div 4 = j
           /\ (l \div 2) \div 2 = j
<1>1. l \in Nat /\ l % 4 = 0 /\ l > 0
  BY LengthsAssumption, GeometryAssumption
<1>2. l = 4 * (l \div 4) /\ l \div 4 \in Nat \ {0} BY <1>1
<1> QED BY <1>2

LEMMA LengthTypes ==
  ASSUME NEW l \in Lengths
  PROVE  l \in Nat \ {0} /\ l \div 2 \in Nat \ {0} /\ l >= Finest
         /\ l = l \div 2 + l \div 2 /\ l <= RootLength
<1>1. PICK j \in Nat \ {0} : l = 4 * j /\ l \div 2 = 2 * j BY LengthFacts
<1>2. l >= Finest /\ l <= RootLength /\ l \in Int BY LengthsAssumption, <1>1
<1> QED BY <1>1, <1>2

LEMMA Units ==
  /\ RootLength \in Nat \ {0} /\ Precision \in Nat
  /\ RootLength \div 2 \in Nat /\ Finest \in Lengths /\ Finest \in Nat
  /\ Finest \div 2 \in Nat \ {0} /\ Precision < Finest \div 2
  /\ Finest = Finest \div 2 + Finest \div 2
<1>1. RootLength \in Nat \ {0} /\ Precision \in Nat BY GeometryAssumption
<1>2. Finest \in Lengths /\ 2 * Precision < Finest BY LengthsAssumption
<1>3. Finest \in Nat /\ Finest \div 2 \in Nat \ {0} /\ Finest = Finest \div 2 + Finest \div 2
  BY <1>2, LengthTypes
<1> QED BY <1>1, <1>2, <1>3

LEMMA Multiple ==
  ASSUME NEW k \in Lengths, NEW l \in Lengths, k < l
  PROVE  \E m \in Nat \ {0} : l = 2 * (m * k) /\ l \div 2 = m * k
<1>1. PICK m \in 1..RootLength : l = 2 * m * k BY LengthsAssumption
<1>2. m \in Nat \ {0} /\ k \in Nat BY <1>1, GeometryAssumption, LengthTypes
<1>3. PICK x \in Nat : x = m * k BY <1>2
<1>4. l = 2 * x BY <1>1, <1>2, <1>3
<1>5. l \div 2 = x BY <1>3, <1>4
<1> QED BY <1>2, <1>3, <1>4, <1>5

(* The middle of a cell is a multiple of half the finest length.           *)
LEMMA Middle ==
  ASSUME NEW l \in Lengths, NEW a \in Int
  PROVE  \E c \in Int : a * l + l \div 2 = c * (Finest \div 2)
<1>1. CASE l = Finest
  <2>1. PICK H \in Nat \ {0} : H = Finest \div 2 /\ l = H + H /\ l \div 2 = H
    BY <1>1, Units
  <2>2. a * l + l \div 2 = (2 * a + 1) * H BY <2>1
  <2> QED BY <2>1, <2>2
<1>2. CASE l # Finest
  <2>1. l \in Nat /\ Finest \in Nat /\ Finest < l
    BY <1>2, LengthTypes, Units
  <2>2. PICK m \in Nat \ {0} : l = 2 * (m * Finest) /\ l \div 2 = m * Finest
    BY <2>1, Units, Multiple
  <2>3. PICK H \in Nat \ {0} : H = Finest \div 2 /\ Finest = H + H BY Units
  <2>4. m * Finest = (2 * m) * H BY <2>3
  <2>5. l = (4 * m) * H /\ l \div 2 = (2 * m) * H
    <3>1. 2 * ((2 * m) * H) = (4 * m) * H BY <2>3
    <3> QED BY <2>2, <2>4, <3>1
  <2>6. a * ((4 * m) * H) = (4 * (a * m)) * H BY <2>3
  <2>7. (4 * (a * m)) * H + (2 * m) * H = (4 * (a * m) + 2 * m) * H BY <2>3
  <2>8. 4 * (a * m) + 2 * m \in Int OBVIOUS
  <2> HIDE <2>2
  <2> QED BY <2>3, <2>5, <2>6, <2>7, <2>8
<1> QED BY <1>1, <1>2

(* A cell of length k < l and one of length l that have y in common: the    *)
(* smaller one lies in the half of the other that has y.                   *)
LEMMA HalfLaminar ==
  ASSUME NEW k \in Lengths, NEW l \in Lengths, k < l, NEW a \in Int, NEW b \in Int,
         NEW y \in Int, b * k <= y, y < b * k + k, a * l <= y, y < a * l + l
  PROVE  /\ k <= l \div 2
         /\ IF y < a * l + l \div 2
            THEN a * l <= b * k /\ b * k + k <= a * l + l \div 2
            ELSE a * l + l \div 2 <= b * k /\ b * k + k <= a * l + l
<1>1. PICK m \in Nat \ {0} : l = 2 * (m * k) /\ l \div 2 = m * k
  BY Multiple
<1>2. k \in Nat \ {0} BY LengthTypes
<1>3. /\ a * (2 * (m * k)) = (2 * (a * m)) * k
      /\ (2 * (a * m)) * k + m * k = (2 * (a * m) + m) * k
      /\ (2 * (a * m)) * k + 2 * (m * k) = (2 * (a * m) + 2 * m) * k
      /\ (b + 1) * k = b * k + k /\ 1 * k = k
  BY <1>2
<1>4. PICK u \in Int : u = 2 * (a * m) OBVIOUS
<1>5. /\ a * l = u * k /\ a * l + l \div 2 = (u + m) * k
      /\ a * l + l = (u + 2 * m) * k
  BY <1>1, <1>3, <1>4
<1>6. k <= l \div 2
  <2>1. 1 * k <= m * k BY <1>2, MulLeq
  <2> QED BY <2>1, <1>1, <1>3
<1> HIDE <1>1, <1>4
<1>7. CASE y < a * l + l \div 2
  <2>1. u * k < b * k + k BY <1>2, <1>5
  <2>2. u * k <= b * k BY <2>1, <1>2, CellOrder
  <2>3. b * k < (u + m) * k BY <1>7, <1>2, <1>5
  <2>4. b < u + m BY <2>3, <1>2, MulLess
  <2>5. b + 1 <= u + m BY <2>4
  <2>6. (b + 1) * k <= (u + m) * k BY <2>5, <1>2, MulLeq
  <2> QED BY <2>2, <2>6, <1>3, <1>5, <1>6, <1>7
<1>8. CASE ~(y < a * l + l \div 2)
  <2>1. (u + m) * k < b * k + k BY <1>8, <1>2, <1>5
  <2>2. (u + m) * k <= b * k BY <2>1, <1>2, CellOrder
  <2>3. b * k < (u + 2 * m) * k BY <1>2, <1>5
  <2>4. b < u + 2 * m BY <2>3, <1>2, MulLess
  <2>5. b + 1 <= u + 2 * m BY <2>4
  <2>6. (b + 1) * k <= (u + 2 * m) * k BY <2>5, <1>2, MulLeq
  <2> QED BY <2>2, <2>6, <1>3, <1>5, <1>6, <1>8
<1> QED BY <1>7, <1>8

(* A square as a cell, in one dimension.                                   *)
LEMMA CellOf ==
  ASSUME NEW g, GridSquare(g), NEW i \in Dims
  PROVE  \E a \in Int :
           LET e == a * g.length
               c == g.center[i] + RootLength \div 2
           IN e \in Int /\ c \in Int /\ g.center[i] \in Int
                /\ c = e + g.length \div 2 /\ c < e + g.length
<1>1. g.length \in Lengths /\ g.center[i] \in Int
  BY DEF GridSquare, Positions
<1>2. PICK l \in Nat \ {0} : l = g.length /\ l \div 2 \in Nat \ {0} /\ l = l \div 2 + l \div 2
  BY <1>1, LengthTypes
<1>3. PICK a \in Int : g.center[i] + RootLength \div 2 = a * g.length + g.length \div 2
  BY DEF GridSquare
<1>4. a * g.length \in Int BY <1>2
<1>5. g.center[i] + RootLength \div 2 \in Int BY <1>1, Units
<1>6. g.center[i] + RootLength \div 2 < a * g.length + g.length
  <2>1. PICK e \in Int : e = a * g.length BY <1>4
  <2>2. g.center[i] + RootLength \div 2 = e + l \div 2 BY <2>1, <1>2, <1>3
  <2> QED BY <2>1, <2>2, <1>2
<1> QED BY <1>1, <1>3, <1>4, <1>5, <1>6

(* The places of a tree are squares of the grid and points off the edges;   *)
(* the centres of both are off the edges.                                  *)
LEMMA CentersOffEdges ==
  ASSUME NEW a, Place(a)
  PROVE  a.center \in Positions /\ OffEdges(a.center)
<1>1. CASE GridPoint(a) BY <1>1 DEF GridPoint
<1>2. CASE GridSquare(a)
  <2>1. ASSUME NEW i \in Dims PROVE Offset(a.center[i]) < Finest \div 2 - Precision
    <3>1. PICK b \in Int : a.center[i] + RootLength \div 2 = b * a.length + a.length \div 2
      BY <1>2 DEF GridSquare
    <3>2. a.length \in Lengths BY <1>2 DEF GridSquare
    <3>3. PICK c \in Int : a.center[i] + RootLength \div 2 = c * (Finest \div 2)
      BY <3>1, <3>2, Middle
    <3>4. PICK H \in Nat \ {0} : H = Finest \div 2 /\ Precision < H /\ Precision \in Nat
      BY Units
    <3>5. (c * H) % H = 0 BY <3>4
    <3> QED BY <3>3, <3>4, <3>5 DEF Offset
  <2> QED BY <1>2, <2>1 DEF GridSquare, OffEdges
<1> QED BY <1>1, <1>2 DEF Place

(* The quadrant of what is off the edges is the one it is in.              *)
LEMMA QuadrantOf ==
  ASSUME NEW g, GridSquare(g), NEW x \in Positions, OffEdges(x)
  PROVE  get_quadrant(g.center, x) = {i \in Dims : x[i] >= g.center[i]}
<1>1. ASSUME NEW i \in Dims
      PROVE  x[i] >= g.center[i] - Precision <=> x[i] >= g.center[i]
  <2>1. PICK b \in Int : g.center[i] + RootLength \div 2 = b * g.length + g.length \div 2
    BY DEF GridSquare
  <2>2. PICK c \in Int : g.center[i] + RootLength \div 2 = c * (Finest \div 2)
    BY <2>1, Middle DEF GridSquare
  <2>3. PICK H \in Nat \ {0} : H = Finest \div 2 /\ Precision < H /\ Precision \in Nat
    BY Units
  <2>4. PICK S \in Int : S = RootLength \div 2 BY Units
  <2>5. g.center[i] \in Int /\ x[i] \in Int BY DEF GridSquare, Positions
  <2>6. PICK y \in Int : y = x[i] + S BY <2>4, <2>5
  <2>7. y % H < H - Precision BY <2>3, <2>4, <2>6 DEF OffEdges, Offset
  <2>8. y = (y \div H) * H + (y % H) /\ y \div H \in Int /\ y % H \in Int
    <3>1. H \in Nat \ {0} /\ y \in Int BY <2>3, <2>6
    <3>2. /\ y = (y \div H) * H + (y % H) /\ y \div H \in Int
          /\ y % H \in 0..(H - 1)
      BY ONLY <3>1, DivMod
    <3>3. 0..(H - 1) \subseteq Int BY <3>1
    <3> QED BY ONLY <3>2, <3>3
  <2>9. PICK d \in Int : d = y \div H BY <2>8
  <2>10. ASSUME y >= c * H - Precision, y < c * H PROVE FALSE
    <3>1. PICK u \in Int : u = d * H BY <2>3
    <3>2. PICK v \in Int : v = c * H BY <2>3
    <3>3. PICK r \in Int : r = y % H BY <2>8
    <3>4. r \in 0..(H - 1) BY <3>3, <2>3, DivMod
    <3>5. y = u + r /\ r < H - Precision /\ y >= v - Precision /\ y < v
      BY <2>7, <2>8, <2>9, <2>10, <3>1, <3>2, <3>3
    <3>6. u < v BY <3>4, <3>5
    <3>7. d < c BY <3>1, <3>2, <3>6, <2>3, MulLess
    <3>8. d + 1 <= c BY <3>7
    <3>9. (d + 1) * H <= c * H BY <3>8, <2>3, MulLeq
    <3>10. (d + 1) * H = d * H + H BY <2>3
    <3>11. u + H <= v BY <3>1, <3>2, <3>9, <3>10, <2>3
    <3> QED BY <3>5, <3>11, <2>3
  <2>11. PICK v \in Int : v = c * H BY <2>3
  <2>12. g.center[i] = v - S /\ x[i] = y - S BY <2>2, <2>3, <2>4, <2>5, <2>6, <2>11
  <2>13. y >= v - Precision => y >= v BY <2>10, <2>11, <2>3
  <2> QED BY <2>3, <2>4, <2>12, <2>13
<1> QED BY <1>1 DEF get_quadrant

(* A node is in a square if it is smaller and its centre is in range.      *)
LEMMA InSame ==
  ASSUME NEW a, NEW b, NEW c, NEW d, Same(a, c), Same(b, d)
  PROVE  /\ In(a, b) <=> In(c, d)
         /\ QuadrantIn(a, b) = QuadrantIn(c, d)
         /\ Place(a) <=> Place(c)
         /\ GridSquare(a) <=> GridSquare(c)
BY DEF Same, In, in_range, QuadrantIn, Place, GridSquare, GridPoint

(* What is in a square is in the larger squares around it, and in the same *)
(* quadrant of them.                                                       *)
LEMMA HalfOf ==
  ASSUME NEW b, NEW c, GridSquare(b), GridSquare(c), In(b, c),
         NEW x \in Positions, OffEdges(x), in_range(b, x)
  PROVE  in_range(c, x) /\ get_quadrant(c.center, x) = QuadrantIn(c, b)
<1>1. b.center \in Positions /\ OffEdges(b.center)
  BY CentersOffEdges DEF Place
<1>2. ASSUME NEW i \in Dims
      PROVE  /\ c.center[i] - c.length \div 2 <= x[i]
             /\ x[i] < c.center[i] + c.length \div 2
             /\ x[i] >= c.center[i] <=> b.center[i] >= c.center[i]
  <2>1. /\ b.center[i] \in Int /\ c.center[i] \in Int /\ x[i] \in Int
        /\ b.length \in Lengths /\ c.length \in Lengths
    BY DEF GridSquare, Positions
  <2>2. PICK m \in Int : b.center[i] + RootLength \div 2 = m * b.length + b.length \div 2
    BY DEF GridSquare
  <2>3. PICK n \in Int : c.center[i] + RootLength \div 2 = n * c.length + c.length \div 2
    BY DEF GridSquare
  <2>4. /\ b.length < c.length
        /\ c.center[i] - c.length \div 2 <= b.center[i]
        /\ b.center[i] < c.center[i] + c.length \div 2
        /\ b.center[i] - b.length \div 2 <= x[i]
        /\ x[i] < b.center[i] + b.length \div 2
    BY DEF In, in_range
  <2>5. RootLength \div 2 \in Int BY Units
  <2>6. PICK k \in Lengths : k = b.length BY <2>1
  <2>7. PICK l \in Lengths : l = c.length BY <2>1
  <2>8. PICK S \in Int : S = RootLength \div 2 BY <2>5
  <2>9. PICK bb \in Int : bb = b.center[i] BY <2>1
  <2>10. PICK cc \in Int : cc = c.center[i] BY <2>1
  <2>11. PICK xx \in Int : xx = x[i] BY <2>1
  <2>12. /\ bb + S = m * k + k \div 2 /\ cc + S = n * l + l \div 2
         /\ cc - l \div 2 <= bb /\ bb < cc + l \div 2 /\ k < l
         /\ bb - k \div 2 <= xx /\ xx < bb + k \div 2
    BY <2>2, <2>3, <2>4, <2>6, <2>7, <2>8, <2>9, <2>10, <2>11
  <2>13. cc - l \div 2 <= xx /\ xx < cc + l \div 2 /\ (xx >= cc <=> bb >= cc)
    <3>1. PICK y \in Int : y = bb + S BY <2>12
    <3>2. PICK hk \in Nat \ {0} : hk = k \div 2 /\ k = hk + hk BY <2>12, LengthTypes
    <3>3. PICK hl \in Nat \ {0} : hl = l \div 2 /\ l = hl + hl BY <2>12, LengthTypes
    <3>4. k \in Nat /\ l \in Nat BY <2>12, LengthTypes
    <3>5. PICK e \in Int : e = m * k BY <2>12, <3>4
    <3>6. PICK f \in Int : f = n * l BY <2>12, <3>4
    <3>7. y = e + hk /\ cc + S = f + hl BY <2>12, <3>1, <3>2, <3>3, <3>5, <3>6
    <3>8. cc - hl <= bb /\ bb < cc + hl /\ bb - hk <= xx /\ xx < bb + hk BY <2>12, <3>2, <3>3
    <3>9. e <= y /\ y < e + k /\ f <= y /\ y < f + l
      BY <2>12, <3>1, <3>2, <3>3, <3>7, <3>8
    <3>10. m * k <= y /\ y < m * k + k /\ n * l <= y /\ y < n * l + l
      BY <2>12, <3>5, <3>6, <3>9
    <3>11. IF y < n * l + l \div 2
           THEN n * l <= m * k /\ m * k + k <= n * l + l \div 2
           ELSE n * l + l \div 2 <= m * k /\ m * k + k <= n * l + l
      BY <2>12, <3>10, HalfLaminar
    <3>12. IF y < f + hl THEN f <= e /\ e + k <= f + hl
                         ELSE f + hl <= e /\ e + k <= f + l
      BY <2>12, <3>3, <3>5, <3>6, <3>11
    <3>13. cc - hl <= xx /\ xx < cc + hl /\ (xx >= cc <=> bb >= cc)
      BY ONLY <3>1, <3>2, <3>3, <3>7, <3>8, <3>12, bb \in Int, cc \in Int, xx \in Int, S \in Int
    <3> QED BY <2>12, <3>3, <3>13
  <2> QED BY <2>1, <2>6, <2>7, <2>9, <2>10, <2>11, <2>13
<1>3. in_range(c, x) BY <1>2 DEF in_range
<1>4. get_quadrant(c.center, x) = QuadrantIn(c, b)
  BY <1>1, <1>2, QuadrantOf DEF QuadrantIn
<1> QED BY <1>3, <1>4

LEMMA InTransitive ==
  ASSUME NEW a, NEW b, NEW c, Place(a), Place(b), GridSquare(c), In(a, b), In(b, c)
  PROVE  In(a, c) /\ QuadrantIn(c, a) = QuadrantIn(c, b)
<1>1. GridSquare(b) BY DEF Place, GridPoint, In
<1>2. a.center \in Positions /\ OffEdges(a.center) BY CentersOffEdges
<1>3. in_range(c, a.center) /\ get_quadrant(c.center, a.center) = QuadrantIn(c, b)
  BY <1>1, <1>2, HalfOf DEF In
<1>4. a.length < c.length
  <2>1. b.length \in Nat /\ c.length \in Nat /\ a.length \in Nat
    BY <1>1, LengthTypes DEF GridSquare, GridPoint, Place
  <2> QED BY <2>1 DEF In
<1> QED BY <1>3, <1>4 DEF In, QuadrantIn

(* Squares that both contain a place are the same, or one is in the other. *)
LEMMA Laminar ==
  ASSUME NEW b, NEW c, GridSquare(b), GridSquare(c), NEW x \in Positions,
         in_range(b, x), in_range(c, x)
  PROVE  /\ b.length < c.length => In(b, c)
         /\ b.length = c.length => Same(b, c)
<1>1. ASSUME NEW i \in Dims
      PROVE  /\ b.center[i] \in Int /\ c.center[i] \in Int
             /\ b.length < c.length => /\ c.center[i] - c.length \div 2 <= b.center[i]
                                       /\ b.center[i] < c.center[i] + c.length \div 2
             /\ b.length = c.length => b.center[i] = c.center[i]
  <2>1. /\ b.center[i] \in Int /\ c.center[i] \in Int /\ x[i] \in Int
        /\ b.length \in Lengths /\ c.length \in Lengths
    BY DEF GridSquare, Positions
  <2>2. PICK m \in Int : b.center[i] + RootLength \div 2 = m * b.length + b.length \div 2
    BY DEF GridSquare
  <2>3. PICK n \in Int : c.center[i] + RootLength \div 2 = n * c.length + c.length \div 2
    BY DEF GridSquare
  <2>4. /\ c.center[i] - c.length \div 2 <= x[i]
        /\ x[i] < c.center[i] + c.length \div 2
        /\ b.center[i] - b.length \div 2 <= x[i]
        /\ x[i] < b.center[i] + b.length \div 2
    BY DEF in_range
  <2>5. RootLength \div 2 \in Int BY Units
  <2>6. PICK k \in Lengths : k = b.length BY <2>1
  <2>7. PICK l \in Lengths : l = c.length BY <2>1
  <2>8. PICK S \in Int : S = RootLength \div 2 BY <2>5
  <2>9. PICK bb \in Int : bb = b.center[i] BY <2>1
  <2>10. PICK cc \in Int : cc = c.center[i] BY <2>1
  <2>11. PICK xx \in Int : xx = x[i] BY <2>1
  <2>12. /\ bb + S = m * k + k \div 2 /\ cc + S = n * l + l \div 2
         /\ cc - l \div 2 <= xx /\ xx < cc + l \div 2
         /\ bb - k \div 2 <= xx /\ xx < bb + k \div 2
    BY <2>2, <2>3, <2>4, <2>6, <2>7, <2>8, <2>9, <2>10, <2>11
  <2>13. /\ k < l => cc - l \div 2 <= bb /\ bb < cc + l \div 2
         /\ k = l => bb = cc
    <3>1. PICK y \in Int : y = xx + S BY <2>12
    <3>2. PICK hk \in Nat \ {0} : hk = k \div 2 /\ k = hk + hk BY <2>12, LengthTypes
    <3>3. PICK hl \in Nat \ {0} : hl = l \div 2 /\ l = hl + hl BY <2>12, LengthTypes
    <3>4. k \in Nat /\ l \in Nat BY <2>12, LengthTypes
    <3>5. PICK e \in Int : e = m * k BY <2>12, <3>4
    <3>6. PICK f \in Int : f = n * l BY <2>12, <3>4
    <3>7. bb + S = e + hk /\ cc + S = f + hl BY <2>12, <3>2, <3>3, <3>5, <3>6
    <3>8. cc - hl <= xx /\ xx < cc + hl /\ bb - hk <= xx /\ xx < bb + hk BY <2>12, <3>2, <3>3
    <3>9. e <= y /\ y < e + k /\ f <= y /\ y < f + l
      BY <2>12, <3>1, <3>2, <3>3, <3>7, <3>8
    <3>10. m * k <= y /\ y < m * k + k /\ n * l <= y /\ y < n * l + l
      BY <2>12, <3>5, <3>6, <3>9
    <3>11. ASSUME k < l PROVE cc - hl <= bb /\ bb < cc + hl
      <4>1. IF y < n * l + l \div 2
            THEN n * l <= m * k /\ m * k + k <= n * l + l \div 2
            ELSE n * l + l \div 2 <= m * k /\ m * k + k <= n * l + l
        BY <2>12, <3>10, <3>11, HalfLaminar
      <4>2. IF y < f + hl THEN f <= e /\ e + k <= f + hl
                          ELSE f + hl <= e /\ e + k <= f + l
        BY <2>12, <3>3, <3>5, <3>6, <4>1
      <4> QED BY ONLY <3>2, <3>3, <3>7, <4>2, bb \in Int, cc \in Int, S \in Int
    <3>12. ASSUME k = l PROVE bb = cc
      <4>1. m * k < n * k + k /\ n * k < m * k + k
        <5>1. e < f + k /\ f < e + k BY <3>4, <3>9, <3>12
        <5> QED BY <5>1, <3>5, <3>6, <3>12
      <4>2. k \in Nat \ {0} BY <2>12, LengthTypes
      <4>3. m * k <= n * k BY ONLY <4>1, <4>2, m \in Int, n \in Int, CellOrder
      <4>4. n * k <= m * k BY ONLY <4>1, <4>2, m \in Int, n \in Int, CellOrder
      <4>5. e = f BY <2>12, <3>5, <3>6, <3>12, <4>3, <4>4
      <4>6. hk = hl BY <2>12, <3>2, <3>3, <3>12
      <4> QED BY <2>12, <3>7, <4>5, <4>6
    <3> QED BY <2>12, <3>3, <3>11, <3>12
  <2> QED BY <2>1, <2>6, <2>7, <2>9, <2>10, <2>11, <2>13
<1>2. b.length < c.length => In(b, c)
  BY <1>1 DEF In, in_range, GridSquare
<1>3. ASSUME b.length = c.length PROVE Same(b, c)
  <2>1. b.center = c.center BY <1>1, <1>3 DEF GridSquare, Positions
  <2> QED BY <1>3, <2>1 DEF Same, GridSquare
<1> QED BY <1>2, <1>3

LEMMA Nested ==
  ASSUME NEW a, NEW b, NEW c, Place(a), Place(b), Place(c), In(a, b), In(a, c)
  PROVE  Same(b, c) \/ In(b, c) \/ In(c, b)
<1>1. GridSquare(b) /\ GridSquare(c) BY DEF Place, GridPoint, In
<1>2. a.center \in Positions BY CentersOffEdges
<1>3. b.length \in Nat /\ c.length \in Nat BY <1>1, LengthTypes DEF GridSquare
<1> QED BY <1>1, <1>2, <1>3, Laminar DEF In, Same

LEMMA RootPlace == GridSquare(Root)
<1>1. Root.center = [i \in Dims |-> 0] /\ Root.length = RootLength /\ Root.square = TRUE
  BY DEF Root, Node, Square
<1>2. RootLength \in Lengths BY LengthsAssumption
<1>3. ASSUME NEW i \in Dims
      PROVE  \E a \in Int : Root.center[i] + RootLength \div 2
                              = a * Root.length + Root.length \div 2
  <2>1. 0 * RootLength = 0 /\ RootLength \div 2 \in Int BY Units
  <2>2. Root.center[i] + RootLength \div 2 = 0 * Root.length + Root.length \div 2
    BY <1>1, <2>1
  <2> QED BY <2>2
<1> QED BY <1>1, <1>2, <1>3 DEF GridSquare, Positions

(* The quadrant of a square is a square, with what is in it.               *)
LEMMA QuadrantIsSquare ==
  ASSUME NEW n, GridSquare(n), n.length # Finest, NEW q \in SUBSET Dims
  PROVE  GridSquare(QuadrantSquare(n, q)) /\ In(QuadrantSquare(n, q), n)
<1> DEFINE f == QuadrantSquare(n, q)
<1>1. n.length \in Lengths /\ n.center \in Positions BY DEF GridSquare
<1>2. PICK j \in Nat \ {0} : /\ n.length = 4 * j /\ n.length \div 2 = 2 * j
                             /\ n.length \div 4 = j /\ (n.length \div 2) \div 2 = j
  BY <1>1, LengthFacts
<1>3. n.length \div 2 \in Lengths BY <1>1, LengthsAssumption
<1>4. /\ f.square = TRUE /\ f.length = n.length \div 2
      /\ \A i \in Dims : f.center[i] = IF i \in q THEN n.center[i] + j
                                                  ELSE n.center[i] - j
      /\ f.center \in Positions
  <2>1. f.square = TRUE /\ f.length = n.length \div 2 /\ f.center = get_new_center(n, q)
    BY DEF QuadrantSquare, Square
  <2>2. \A i \in Dims : n.center[i] + j \in Int /\ n.center[i] - j \in Int
    BY <1>1 DEF Positions
  <2> QED BY <1>2, <2>1, <2>2 DEF get_new_center, Positions
<1>5. ASSUME NEW i \in Dims
      PROVE  \E a \in Int : f.center[i] + RootLength \div 2
                              = a * f.length + f.length \div 2
  <2>1. PICK b \in Int : n.center[i] + RootLength \div 2 = b * n.length + n.length \div 2
    BY DEF GridSquare
  <2>2. PICK S \in Int : S = RootLength \div 2 BY Units
  <2>3. PICK c \in Int : c = n.center[i] BY <1>1 DEF Positions
  <2>4. c + S = b * (4 * j) + 2 * j BY <1>2, <2>1, <2>2, <2>3
  <2>5. /\ b * (4 * j) = (2 * b) * (2 * j)
        /\ (2 * b + 1) * (2 * j) = (2 * b) * (2 * j) + 2 * j
    OBVIOUS
  <2>6. PICK e \in Int : e = (2 * b) * (2 * j) OBVIOUS
  <2>7. c + S = e + 2 * j BY <2>4, <2>5, <2>6
  <2>8. CASE i \in q
    <3>1. f.center[i] = c + j BY <1>4, <2>3, <2>8
    <3>2. (c + j) + S = (2 * b + 1) * (2 * j) + j BY <2>5, <2>6, <2>7
    <3>3. f.center[i] + RootLength \div 2 = (2 * b + 1) * f.length + f.length \div 2
      BY <1>2, <1>4, <2>2, <3>1, <3>2
    <3>4. 2 * b + 1 \in Int OBVIOUS
    <3> QED BY <3>3, <3>4
  <2>9. CASE i \notin q
    <3>1. f.center[i] = c - j BY <1>4, <2>3, <2>9
    <3>2. (c - j) + S = (2 * b) * (2 * j) + j BY <2>6, <2>7
    <3>3. f.center[i] + RootLength \div 2 = (2 * b) * f.length + f.length \div 2
      BY <1>2, <1>4, <2>2, <3>1, <3>2
    <3>4. 2 * b \in Int OBVIOUS
    <3> QED BY <3>3, <3>4
  <2> QED BY <2>8, <2>9
<1>6. GridSquare(f)
  <2> HIDE DEF f
  <2> QED BY <1>3, <1>4, <1>5 DEF GridSquare
<1>7. In(f, n)
  <2> HIDE DEF f
  <2>1. \A i \in Dims : n.center[i] \in Int BY <1>1 DEF Positions
  <2>2. n.square = TRUE BY DEF GridSquare
  <2> QED BY <1>2, <1>4, <2>1, <2>2 DEF In, in_range
<1> QED BY <1>6, <1>7

LEMMA InItsQuadrant ==
  ASSUME NEW n, GridSquare(n), NEW x \in Positions, OffEdges(x), in_range(n, x)
  PROVE  in_range(QuadrantSquare(n, get_quadrant(n.center, x)), x)
<1>1. n.length \in Lengths /\ n.center \in Positions BY DEF GridSquare
<1>2. IsSquare(n)
  <2>1. PICK j \in Nat \ {0} : n.length = 4 * j BY <1>1, LengthFacts
  <2> QED BY <1>1, <2>1 DEF IsSquare
<1>3. get_quadrant(n.center, x) = {i \in Dims : x[i] >= n.center[i]}
  BY QuadrantOf
<1>4. \A i \in Dims : n.center[i] \in Int /\ x[i] \in Int BY <1>1 DEF Positions
<1>5. get_quadrant(n.center, x) \in SUBSET Dims BY DEF get_quadrant
<1> QED BY <1>2, <1>3, <1>4, <1>5, InQuadrant DEF in_range

(* Two points of one quadrant of a square of the finest length have the    *)
(* same cell.                                                              *)
LEMMA FinestQuadrant ==
  ASSUME NEW n, GridSquare(n), n.length = Finest,
         NEW x \in Positions, OffEdges(x), in_range(n, x),
         NEW y \in Positions, OffEdges(y), in_range(n, y),
         get_quadrant(n.center, x) = get_quadrant(n.center, y), NEW i \in Dims
  PROVE  Cell(x[i]) = Cell(y[i])
<1>1. n.center[i] \in Int /\ x[i] \in Int /\ y[i] \in Int
  BY DEF GridSquare, Positions
<1>2. PICK H \in Nat \ {0} : H = Finest \div 2 BY Units
<1>3. PICK S \in Int : S = RootLength \div 2 BY Units
<1>4. PICK b \in Int : n.center[i] + S = b * Finest + H
  BY <1>2, <1>3 DEF GridSquare
<1>5. PICK c \in Int : n.center[i] + S = c * H
  <2>1. PICK d \in Int : b * Finest + H = d * H BY <1>2, Units, Middle
  <2> QED BY <1>4, <2>1
<1>6. x[i] >= n.center[i] <=> y[i] >= n.center[i] BY QuadrantOf
<1>7. /\ n.center[i] - H <= x[i] /\ x[i] < n.center[i] + H
      /\ n.center[i] - H <= y[i] /\ y[i] < n.center[i] + H
  BY <1>2 DEF in_range
<1>8. PICK v \in Int : v = c * H BY <1>2
<1>9. PICK xx \in Int : xx = x[i] + S BY <1>1
<1>10. PICK yy \in Int : yy = y[i] + S BY <1>1
<1>11. /\ v - H <= xx /\ xx < v + H /\ v - H <= yy /\ yy < v + H
       /\ xx >= v <=> yy >= v
  BY <1>1, <1>2, <1>5, <1>6, <1>7, <1>8, <1>9, <1>10
<1>12. (c - 1) * H = c * H - H BY <1>2
<1>13. CASE xx >= v
  <2>1. c * H <= xx /\ xx < c * H + H /\ c * H <= yy /\ yy < c * H + H
    BY <1>8, <1>11, <1>13
  <2>2. xx \div H = c /\ yy \div H = c BY <2>1, <1>2, DivIs
  <2> QED BY <2>2, <1>2, <1>3, <1>9, <1>10 DEF Cell
<1>14. CASE ~(xx >= v)
  <2>1. /\ (c - 1) * H <= xx /\ xx < (c - 1) * H + H
        /\ (c - 1) * H <= yy /\ yy < (c - 1) * H + H
    BY <1>2, <1>8, <1>11, <1>12, <1>14
  <2>2. xx \div H = c - 1 /\ yy \div H = c - 1 BY <2>1, <1>2, DivIs
  <2> QED BY <2>2, <1>2, <1>3, <1>9, <1>10 DEF Cell
<1> QED BY <1>13, <1>14

(* The square that the insertion of p beside s starts with, or goes on to. *)
Differ(p, s) ==
  IF s.square THEN ~In(p, s)
  ELSE \E i \in Dims : Cell(p.center[i]) # Cell(s.center[i])
LEMMA HalvesAroundBoth ==
  ASSUME NEW n, GridSquare(n), NEW p, GridPoint(p), In(p, n),
         NEW s, Place(s), In(s, n), QuadrantIn(n, s) = QuadrantIn(n, p), Differ(p, s)
  PROVE  LET f == FirstSquare(n, p.center)
         IN GridSquare(f) /\ In(p, f) /\ In(s, f) /\ In(f, n)
<1> DEFINE q == QuadrantIn(n, p)
           f == QuadrantSquare(n, q)
<1>1. f = FirstSquare(n, p.center)
  BY DEF QuadrantSquare, FirstSquare, QuadrantIn
<1>2. /\ p.center \in Positions /\ OffEdges(p.center)
      /\ s.center \in Positions /\ OffEdges(s.center)
  BY CentersOffEdges DEF Place
<1>3. in_range(n, p.center) /\ in_range(n, s.center) BY DEF In
<1>4. n.length # Finest
  <2>1. SUFFICES ASSUME n.length = Finest PROVE FALSE OBVIOUS
  <2>2. CASE s.square
    <3>1. GridSquare(s) BY <2>2 DEF Place, GridPoint
    <3>2. s.length >= Finest /\ s.length \in Nat /\ Finest \in Nat
      BY <3>1, LengthTypes, Units DEF GridSquare
    <3> QED BY <2>1, <3>2 DEF In
  <2>3. CASE ~s.square
    <3>1. PICK i \in Dims : Cell(p.center[i]) # Cell(s.center[i])
      BY <2>3 DEF Differ
    <3> QED BY <1>2, <1>3, <2>1, <3>1, FinestQuadrant DEF QuadrantIn
  <2> QED BY <2>2, <2>3
<1>5. q \in SUBSET Dims BY DEF QuadrantIn, get_quadrant
<1>6. GridSquare(f) /\ In(f, n) BY <1>4, <1>5, QuadrantIsSquare
<1>7. in_range(f, p.center) /\ in_range(f, s.center)
  BY <1>2, <1>3, InItsQuadrant DEF QuadrantIn
<1> HIDE DEF f
<1>8. f.square = TRUE /\ f.length \in Nat \ {0} /\ f.length >= Finest
  BY <1>6, LengthTypes DEF GridSquare
<1>9. In(p, f) BY <1>7, <1>8 DEF In, GridPoint
<1>10. In(s, f)
  <2>1. CASE GridPoint(s) BY <1>7, <1>8, <2>1 DEF In, GridPoint
  <2>2. CASE GridSquare(s)
    <3>1. s.length \in Lengths /\ s.length \in Nat \ {0} /\ s.center \in Positions
      BY <2>2, LengthTypes DEF GridSquare
    <3>2. in_range(s, s.center)
      <4>1. \A i \in Dims : s.center[i] \in Int BY <3>1 DEF Positions
      <4>2. s.length \div 2 \in Nat \ {0} BY <3>1, LengthTypes
      <4> QED BY <4>1, <4>2 DEF in_range
    <3>3. CASE s.length < f.length BY <1>6, <1>7, <2>2, <3>1, <3>2, <3>3, Laminar
    <3>4. CASE s.length = f.length
      <4>1. Same(s, f) BY <1>6, <1>7, <2>2, <3>1, <3>2, <3>4, Laminar
      <4>2. In(p, s) BY <1>9, <4>1 DEF Same, In, in_range
      <4> QED BY <2>2, <4>2 DEF Differ, GridSquare
    <3>5. CASE s.length > f.length
      <4>1. PICK j \in Nat \ {0} : n.length = 4 * j /\ n.length \div 2 = 2 * j
        BY LengthFacts DEF GridSquare
      <4>2. f.length = n.length \div 2 BY DEF f, QuadrantSquare, Square
      <4>3. s.length < n.length BY DEF In
      <4>4. PICK m \in Nat \ {0} : n.length = 2 * (m * s.length) /\ n.length \div 2 = m * s.length
        BY <3>1, <4>3, Multiple DEF GridSquare
      <4>5. 1 * s.length <= m * s.length BY <3>1, MulLeq
      <4> QED BY <3>1, <3>5, <4>2, <4>4, <4>5, <1>8
    <3> QED BY <3>1, <3>3, <3>4, <3>5, <1>8
  <2> QED BY <2>1, <2>2 DEF Place
<1> QED BY <1>1, <1>6, <1>9, <1>10

(* What is in a square is no longer than its half.                         *)
LEMMA InHalf ==
  ASSUME NEW n, GridSquare(n), NEW a, Place(a), In(a, n)
  PROVE  a.length <= n.length \div 2
<1>1. n.length \in Lengths BY DEF GridSquare
<1>2. n.length \div 2 \in Nat \ {0} BY <1>1, LengthTypes
<1>3. CASE GridPoint(a) BY <1>2, <1>3 DEF GridPoint
<1>4. CASE GridSquare(a)
  <2>1. a.length \in Lengths /\ a.length \in Nat \ {0} BY <1>4, LengthTypes DEF GridSquare
  <2>2. a.length < n.length BY DEF In
  <2>3. PICK m \in Nat \ {0} : n.length \div 2 = m * a.length
    BY <1>1, <2>1, <2>2, Multiple
  <2>4. 1 * a.length <= m * a.length BY <2>1, MulLeq
  <2> QED BY <2>1, <2>3, <2>4
<1> QED BY <1>3, <1>4 DEF Place

(* The loop that looks for the copy of a square stops at no other square.  *)
LEMMA FindsSquare ==
  ASSUME NEW n, GridSquare(n), NEW g, GridSquare(g), In(g, n) \/ Same(g, n)
  PROVE  SameSquare(n, g) <=> Same(n, g)
<1>1. /\ n.length \in Nat \ {0} /\ g.length \in Nat \ {0}
      /\ n.length \in Lengths /\ g.length \in Lengths
      /\ n.center \in Positions /\ g.center \in Positions
  BY LengthTypes DEF GridSquare
<1>2. CASE Same(g, n)
  <2>1. n.center = g.center /\ n.length = g.length BY <1>2 DEF Same
  <2>2. \A i \in Dims : n.center[i] \in Int BY <1>1 DEF Positions
  <2>3. \A i \in Dims : n.center[i] - g.center[i] = 0 BY <2>1, <2>2
  <2>4. n.length - g.length = 0 BY <1>1, <2>1
  <2>5. Abs(0) = 0 BY DEF Abs
  <2>6. 0 <= Precision BY Units
  <2>7. SameSquare(n, g) BY <2>3, <2>4, <2>5, <2>6 DEF SameSquare, Point_equals
  <2> QED BY <1>2, <2>7 DEF Same
<1>3. CASE In(g, n)
  <2>1. g.length < n.length BY <1>3 DEF In
  <2>2. g.length <= n.length \div 2 BY <1>3, InHalf DEF Place
  <2>3. n.length = n.length \div 2 + n.length \div 2 /\ g.length >= Finest
        /\ n.length \div 2 \in Nat
    BY <1>1, LengthTypes
  <2>4. Precision < Finest /\ Precision \in Nat /\ Finest \in Nat BY Units
  <2>5. n.length - g.length > Precision BY <1>1, <2>2, <2>3, <2>4
  <2>6. ~SameSquare(n, g) BY <1>1, <2>4, <2>5 DEF SameSquare, Abs
  <2>7. ~Same(n, g) BY <1>1, <2>1 DEF Same
  <2> QED BY <2>6, <2>7
<1> QED BY <1>2, <1>3

(* Point_equals tells points of different cells apart, and a point that is *)
(* not in a square from the square's centre.                               *)
LEMMA DifferentPoints ==
  ASSUME NEW x \in Positions, NEW y \in Positions, OffEdges(x), OffEdges(y),
         NEW i \in Dims, Cell(x[i]) # Cell(y[i])
  PROVE  ~Point_equals(x, y)
<1>1. PICK H \in Nat \ {0} : H = Finest \div 2 /\ Precision < H /\ Precision \in Nat
  BY Units
<1>2. PICK S \in Int : S = RootLength \div 2 BY Units
<1>3. ASSUME NEW u \in Int, NEW v \in Int, u \div H < v \div H,
             u % H < H - Precision
      PROVE  v - u > Precision
  <2>1. PICK a \in Int : a = u \div H BY <1>1, <1>3, DivMod
  <2>2. PICK b \in Int : b = v \div H BY <1>1, <1>3, DivMod
  <2>3. PICK r \in Int : r = u % H /\ r >= 0 BY <1>1, <1>3, DivMod
  <2>4. PICK t \in Int : t = v % H /\ t >= 0
    <3>1. v % H \in 0..(H - 1) BY <1>1, DivMod
    <3> QED BY <1>1, <3>1
  <2>5. u = a * H + r BY <1>1, <1>3, <2>1, <2>3, DivMod
  <2>6. v = b * H + t BY <1>1, <1>3, <2>2, <2>4, DivMod
  <2>7. a + 1 <= b BY <1>3, <2>1, <2>2
  <2>8. (a + 1) * H <= b * H BY <1>1, <2>7, MulLeq
  <2>9. (a + 1) * H = a * H + H BY <1>1
  <2>10. PICK c \in Int : c = a * H BY <1>1
  <2>11. PICK d \in Int : d = b * H BY <1>1
  <2>12. c + H <= d /\ u = c + r /\ v = d + t
    BY <2>5, <2>6, <2>8, <2>9, <2>10, <2>11
  <2> QED BY <1>1, <1>3, <2>3, <2>4, <2>12
<1>4. x[i] \in Int /\ y[i] \in Int BY DEF Positions
<1>5. PICK u \in Int : u = x[i] + S BY <1>2, <1>4
<1>6. PICK v \in Int : v = y[i] + S BY <1>2, <1>4
<1>7. u % H < H - Precision /\ v % H < H - Precision
  BY <1>1, <1>2, <1>5, <1>6 DEF OffEdges, Offset
<1>8. u \div H # v \div H BY <1>1, <1>2, <1>5, <1>6 DEF Cell
<1>9. u \div H \in Int /\ v \div H \in Int BY <1>1, DivMod
<1>10. u \div H < v \div H \/ v \div H < u \div H BY <1>8, <1>9
<1>11. v - u > Precision \/ u - v > Precision BY <1>3, <1>7, <1>10
<1>12. Abs(x[i] - y[i]) > Precision
  BY <1>1, <1>2, <1>4, <1>5, <1>6, <1>11 DEF Abs
<1>13. Abs(x[i] - y[i]) \in Int BY <1>4 DEF Abs
<1> QED BY <1>1, <1>12, <1>13 DEF Point_equals

LEMMA EqualsItself ==
  ASSUME NEW x \in Positions
  PROVE  Point_equals(x, x)
<1>1. \A i \in Dims : x[i] - x[i] = 0 BY DEF Positions
<1> QED BY <1>1, Units DEF Point_equals, Abs

LEMMA NearCenter ==
  ASSUME NEW n, GridSquare(n), NEW x \in Positions, Point_equals(n.center, x)
  PROVE  in_range(n, x)
<1>1. n.center \in Positions /\ n.length \in Lengths BY DEF GridSquare
<1>2. n.length \div 2 >= Finest \div 2
  <2>1. n.length >= Finest /\ n.length \in Nat /\ Finest \in Nat
    BY <1>1, LengthTypes, Units
  <2> QED BY <2>1
<1>3. n.length \div 2 \in Nat /\ Finest \div 2 \in Nat /\ Precision \in Nat
      /\ Precision < Finest \div 2
  BY <1>1, LengthTypes, Units
<1>4. ASSUME NEW i \in Dims
      PROVE  /\ n.center[i] - n.length \div 2 <= x[i]
             /\ x[i] < n.center[i] + n.length \div 2
  <2>1. n.center[i] \in Int /\ x[i] \in Int BY <1>1 DEF Positions
  <2>2. Abs(n.center[i] - x[i]) <= Precision BY DEF Point_equals
  <2> QED BY <1>2, <1>3, <2>1, <2>2 DEF Abs
<1> QED BY <1>4 DEF in_range
-----------------------------------------------------------------------------
(* Trees.                                                                  *)
Quadrants == SUBSET Dims
Kid(h, n, q) == h[n].child[q]
IsNode(n) ==
  /\ n = Node(n, n.copy) /\ n.copy \in Nat /\ Place(n)
  /\ n.square \/ n.center \in Points
IsRoot(n) == Same(n, Root)

FieldsIn(S) == [parent : S \cup {Null}, up : S \cup {Null},
                down : S \cup {Null}, child : [Quadrants -> S \cup {Null}]]
HeapOK(h) ==
  /\ IsFiniteSet(DOMAIN h)
  /\ \A n \in DOMAIN h : IsNode(n) /\ h[n] \in FieldsIn(DOMAIN h)

(* Pointers come in pairs; a child is in its quadrant; a copy is a copy.   *)
KidsOK(h) ==
  \A n \in DOMAIN h, q \in Quadrants : Kid(h, n, q) # Null =>
    /\ n.square /\ h[Kid(h, n, q)].parent = n
    /\ q = QuadrantIn(n, Kid(h, n, q)) /\ In(Kid(h, n, q), n)
ParentsOK(h) ==
  \A n \in DOMAIN h : h[n].parent # Null =>
    Kid(h, h[n].parent, QuadrantIn(h[n].parent, n)) = n
UpsOK(h) ==
  \A n \in DOMAIN h : h[n].up # Null => h[h[n].up].down = n
DownsOK(h) ==
  \A n \in DOMAIN h : h[n].down # Null =>
    h[h[n].down].up = n /\ Same(n, h[n].down)

(* L gives every node its level, from 0 for the lowest, and -1 to the empty *)
(* roots that a removal has cut off from the levels below.                 *)
LevelsIn(h, L) ==
  /\ L \in [DOMAIN h -> Int]
  /\ \A n \in DOMAIN h :
       /\ L[n] >= -1
       /\ \A q \in Quadrants : Kid(h, n, q) # Null => L[Kid(h, n, q)] = L[n]
       /\ h[n].down # Null =>
            L[n] = IF L[h[n].down] = -1 THEN -1 ELSE L[h[n].down] + 1
       /\ h[n].parent = Null <=> IsRoot(n)
       /\ L[n] = -1 => IsRoot(n) /\ \A q \in Quadrants : Kid(h, n, q) = Null
       /\ L[n] >= 0 => (h[n].down = Null <=> L[n] = 0)
LevelsOK(h, L) ==
  /\ LevelsIn(h, L)
  /\ IF Root \in DOMAIN h THEN L[Root] = 0 ELSE \A n \in DOMAIN h : L[n] = -1
OneRoot(h, L) ==
  \A r, s \in DOMAIN h :
    IsRoot(r) /\ IsRoot(s) /\ L[r] = L[s] /\ L[r] >= 0 => r = s

(* The parent of a node is the least square of its level around it.        *)
Level(L, n, m) == L[n] = L[m] /\ L[n] >= 0
LeastOK(h, L) ==
  \A m, n \in DOMAIN h : Level(L, m, n) /\ In(n, m) =>
    h[n].parent # Null /\ (h[n].parent = m \/ In(h[n].parent, m))

(* Where two nodes of a level part, that level has a square: the loop that *)
(* looks for the copy of a square one level below relies on it.            *)
Parted(a, b, g) == In(a, g) /\ In(b, g) /\ QuadrantIn(g, a) # QuadrantIn(g, b)
PartedOK(h, L) ==
  \A a, b \in DOMAIN h : Level(L, a, b) =>
    \A g : GridSquare(g) /\ Parted(a, b, g) =>
      \E s \in DOMAIN h : Level(L, s, a) /\ Same(s, g)

LinksOK(h) == KidsOK(h) /\ ParentsOK(h) /\ UpsOK(h) /\ DownsOK(h)
TreeOK(h, L) ==
  /\ HeapOK(h) /\ LinksOK(h) /\ LevelsOK(h, L)
  /\ OneRoot(h, L) /\ LeastOK(h, L) /\ PartedOK(h, L)

-----------------------------------------------------------------------------
(* Least and greatest elements, for arguments by a smallest counterexample. *)
LEMMA NatMin ==
  ASSUME NEW S \in SUBSET Nat, S # {}
  PROVE  \E x \in S : \A y \in S : x <= y
<1> DEFINE R == {ss \in Nat \X Nat : ss[1] < ss[2]}
<1>1. IsWellFoundedOn(R, Nat) BY NatLessThanWellFounded DEF OpToRel
<1>2. PICK x \in S : \A y \in S : <<y, x>> \notin R
  <2> HIDE DEF R
  <2> QED BY <1>1, WFMin
<1>3. x \in Nat /\ \A y \in S : y \in Nat /\ ~(y < x) BY <1>2
<1>4. \A y \in S : x <= y BY <1>3
<1> QED BY <1>4

(* malloc returns a node that is not allocated.                            *)
LEMMA FreshIsNew ==
  ASSUME NEW taken, IsFiniteSet(taken), NEW what
  PROVE  \E k \in Nat : FreshIn(taken, what) = Node(what, k)
                        /\ Node(what, k) \notin taken
<1> DEFINE C == Cardinality(taken)
           Free(k) == Node(what, k) \notin taken
<1>1. C \in Nat BY FS_CardinalityType
<1>2. \E k \in 0..C : Free(k)
  <2>1. SUFFICES ASSUME \A k \in 0..C : Node(what, k) \in taken PROVE FALSE OBVIOUS
  <2>2. IsFiniteSet(0..C) /\ Cardinality(0..C) = C + 1
    BY <1>1, FS_Interval
  <2>3. PICK f : f = [k \in 0..C |-> Node(what, k)] OBVIOUS
  <2>4. f \in [0..C -> taken] BY <2>1, <2>3
  <2>5. C < Cardinality(0..C) BY <1>1, <2>2
  <2>6. \E x, y \in 0..C : x # y /\ f[x] = f[y]
    BY <2>2, <2>4, <2>5, FS_PigeonHole
  <2>7. \A x, y \in 0..C : f[x] = f[y] => x = y BY <2>3 DEF Node
  <2> QED BY <2>6, <2>7
<1>3. PICK k \in {j \in 0..C : Free(j)} : \A j \in {i \in 0..C : Free(i)} : k <= j
  <2>1. {j \in 0..C : Free(j)} \in SUBSET Nat BY <1>1
  <2>2. {j \in 0..C : Free(j)} # {} BY <1>2
  <2> HIDE DEF Free
  <2> QED BY <2>1, <2>2, NatMin
<1>4. k \in 0..C /\ Free(k) /\ \A j \in 0..(k - 1) : ~Free(j)
  BY <1>1, <1>3
<1>5. PICK j \in 0..C : /\ j = CHOOSE i \in 0..C :
                                Free(i) /\ \A l \in 0..(i - 1) : ~Free(l)
                        /\ Free(j)
  BY <1>4
<1>6. FreshIn(taken, what)
        = Node(what, CHOOSE i \in 0..C :
                       Free(i) /\ \A l \in 0..(i - 1) : ~Free(l))
  BY DEF FreshIn
<1>7. FreshIn(taken, what) = Node(what, j) BY <1>5, <1>6
<1>8. j \in Nat BY <1>1
<1>9. Node(what, j) \notin taken BY <1>5
<1> QED BY <1>7, <1>8, <1>9

-----------------------------------------------------------------------------
(* Nodes.                                                                  *)
LEMMA NodeFacts ==
  ASSUME NEW n, IsNode(n)
  PROVE  /\ n # Null /\ n.square \in BOOLEAN /\ n.length \in Nat
         /\ n.length <= RootLength /\ n.center \in Positions
         /\ n.square => GridSquare(n) /\ n.length \in Lengths /\ n.length >= Finest
                        /\ n.length > 0
         /\ ~n.square => GridPoint(n) /\ n.center \in Points /\ n.length = 0
<1>1. CASE GridSquare(n)
  <2>1. n.square = TRUE /\ n.length \in Lengths /\ n.center \in Positions
    BY <1>1 DEF GridSquare
  <2>2. n.length \in Nat \ {0} /\ n.length >= Finest /\ n.length <= RootLength
    BY <2>1, LengthTypes
  <2>3. n \in [square : BOOLEAN, center : [Dims -> Int], length : Nat, copy : Nat]
    BY <2>1, <2>2 DEF IsNode, Node, Positions
  <2> QED BY <1>1, <2>1, <2>2, <2>3, GeometryAssumption
<1>2. CASE GridPoint(n)
  <2>1. n.square = FALSE /\ n.length = 0 /\ n.length \in Nat /\ n.center \in Positions
    BY <1>2 DEF GridPoint
  <2>2. n \in [square : BOOLEAN, center : [Dims -> Int], length : Nat, copy : Nat]
    BY <2>1 DEF IsNode, Node, Positions
  <2>3. 0 <= RootLength BY Units
  <2> QED BY <1>2, <2>1, <2>2, <2>3, GeometryAssumption DEF IsNode
<1> QED BY <1>1, <1>2 DEF IsNode, Place

LEMMA SameIsEquivalence ==
  /\ \A a : Same(a, a)
  /\ \A a, b : Same(a, b) => Same(b, a)
  /\ \A a, b, c : Same(a, b) /\ Same(b, c) => Same(a, c)
BY DEF Same

LEMMA PointPlace ==
  ASSUME NEW p \in Points
  PROVE  /\ GridPoint(PointAt(p)) /\ Place(PointAt(p)) /\ PointAt(p).center = p
         /\ PointAt(p).square = FALSE /\ p \in Positions /\ OffEdges(p)
         /\ \A k \in Nat : IsNode(Node(PointAt(p), k)) /\ Same(Node(PointAt(p), k), PointAt(p))
<1>1. p \in Positions /\ OffEdges(p) BY TreeAssumption, PointsAssumption DEF Positions
<1>2. /\ PointAt(p).center = p /\ PointAt(p).square = FALSE /\ PointAt(p).length = 0
  BY DEF PointAt
<1>3. GridPoint(PointAt(p)) BY <1>1, <1>2 DEF GridPoint
<1>4. ASSUME NEW k \in Nat
      PROVE IsNode(Node(PointAt(p), k)) /\ Same(Node(PointAt(p), k), PointAt(p))
  <2>1. Same(Node(PointAt(p), k), PointAt(p)) BY DEF Same, Node
  <2>2. Place(Node(PointAt(p), k)) BY <1>3, <2>1, InSame, SameIsEquivalence DEF Place
  <2> QED BY <1>2, <2>1, <2>2 DEF IsNode, Node
<1> QED BY <1>1, <1>2, <1>3, <1>4 DEF Place

LEMMA SquareNode ==
  ASSUME NEW g, GridSquare(g), NEW k \in Nat
  PROVE  IsNode(Node(g, k)) /\ Same(Node(g, k), g)
<1>1. Same(Node(g, k), g) BY DEF Same, Node
<1>2. Place(Node(g, k)) BY <1>1, InSame, SameIsEquivalence DEF Place
<1> QED BY <1>1, <1>2 DEF IsNode, Node, GridSquare

(* Of a root nothing is the outside.                                       *)
LEMMA RootInNothing ==
  ASSUME NEW r, IsRoot(r), NEW m, IsNode(m)
  PROVE  ~In(r, m)
<1>1. r.length = RootLength BY DEF IsRoot, Same, Root, Node, Square
<1>2. m.length \in Nat /\ m.length <= RootLength /\ RootLength \in Nat
  BY NodeFacts, Units
<1> QED BY <1>1, <1>2 DEF In

LEMMA RootFacts ==
  ASSUME NEW r, IsRoot(r)
  PROVE  GridSquare(r) /\ r.square = TRUE /\ r.length = RootLength
<1>1. GridSquare(r) BY RootPlace, InSame, SameIsEquivalence DEF IsRoot
<1> QED BY <1>1 DEF IsRoot, Same, Root, Node, Square, GridSquare

-----------------------------------------------------------------------------
(* What a tree is, read off its definition.                                *)
LEMMA HeapTypes ==
  ASSUME NEW h, HeapOK(h)
  PROVE  /\ Null \notin DOMAIN h /\ IsFiniteSet(DOMAIN h)
         /\ \A n \in DOMAIN h :
              /\ IsNode(n)
              /\ h[n].parent \in DOMAIN h \cup {Null}
              /\ h[n].up \in DOMAIN h \cup {Null}
              /\ h[n].down \in DOMAIN h \cup {Null}
              /\ h[n].child \in [Quadrants -> DOMAIN h \cup {Null}]
              /\ \A q \in Quadrants : Kid(h, n, q) \in DOMAIN h \cup {Null}
BY NodeFacts DEF HeapOK, FieldsIn, Kid

LEMMA QuadrantType ==
  ASSUME NEW n, NEW m
  PROVE  QuadrantIn(n, m) \in Quadrants
BY DEF QuadrantIn, get_quadrant, Quadrants

LEMMA DownStep ==
  ASSUME NEW h, NEW L, TreeOK(h, L), NEW n \in DOMAIN h, L[n] > 0
  PROVE  /\ h[n].down \in DOMAIN h /\ Same(n, h[n].down) /\ h[h[n].down].up = n
         /\ L[h[n].down] = L[n] - 1 /\ L[n] \in Int
<1>1. h[n].down \in DOMAIN h
  BY HeapTypes DEF TreeOK, LevelsOK, LevelsIn
<1>2. L[n] \in Int /\ L[h[n].down] \in Int /\ L[h[n].down] >= -1
  BY <1>1 DEF TreeOK, LevelsOK, LevelsIn
<1>3. h[n].down # Null BY <1>1, HeapTypes DEF TreeOK
<1>4. L[n] = IF L[h[n].down] = -1 THEN -1 ELSE L[h[n].down] + 1
  BY <1>3 DEF TreeOK, LevelsOK, LevelsIn
<1>5. Same(n, h[n].down) /\ h[h[n].down].up = n
  BY <1>3 DEF TreeOK, LinksOK, DownsOK
<1> QED BY <1>1, <1>2, <1>4, <1>5

(* Below a node there is a copy of it on every level.                      *)
LEMMA CopyBelow ==
  ASSUME NEW h, NEW L, TreeOK(h, L), NEW n \in DOMAIN h, NEW k \in Nat, k <= L[n]
  PROVE  \E m \in DOMAIN h : Same(m, n) /\ L[m] = k
<1> DEFINE S == {L[m] : m \in {x \in DOMAIN h : Same(x, n) /\ L[x] >= k}}
<1>1. \A x \in DOMAIN h : L[x] \in Int BY DEF TreeOK, LevelsOK, LevelsIn
<1>2. S \in SUBSET Nat BY <1>1
<1>3. L[n] \in S BY <1>1, SameIsEquivalence
<1>4. PICK l \in S : \A j \in S : l <= j BY <1>2, <1>3, NatMin
<1>5. PICK m \in DOMAIN h : Same(m, n) /\ L[m] >= k /\ L[m] = l BY <1>4
<1>6. ASSUME L[m] # k PROVE FALSE
  <2>1. L[m] > 0 /\ L[m] - 1 >= k BY <1>1, <1>5, <1>6
  <2>2. /\ h[m].down \in DOMAIN h /\ Same(m, h[m].down)
        /\ L[h[m].down] = L[m] - 1
    BY <2>1, DownStep
  <2>3. Same(h[m].down, n) BY <1>5, <2>2, SameIsEquivalence
  <2>4. L[h[m].down] \in S BY <2>1, <2>2, <2>3
  <2> HIDE DEF S
  <2> QED BY <1>1, <1>4, <1>5, <2>2, <2>4
<1> QED BY <1>5, <1>6

(* From a square towards a node in it: the next node on the way.           *)
LEMMA Towards ==
  ASSUME NEW h, NEW L, TreeOK(h, L), NEW m \in DOMAIN h, NEW n \in DOMAIN h,
         Level(L, m, n), In(n, m)
  PROVE  LET c == Kid(h, m, QuadrantIn(m, n))
         IN /\ c \in DOMAIN h /\ L[c] = L[m] /\ (c = n \/ In(n, c))
            /\ In(c, m) /\ h[c].parent = m
<1> DEFINE T == {x \in DOMAIN h : Level(L, x, m) /\ In(x, m) /\ (x = n \/ In(n, x))}
           S == {RootLength - x.length : x \in T}
<1>1. \A x \in DOMAIN h : /\ IsNode(x) /\ Place(x) /\ x.length \in Nat
                          /\ x.length <= RootLength /\ L[x] \in Int /\ x # Null
  BY NodeFacts, HeapTypes DEF TreeOK, LevelsOK, LevelsIn, IsNode
<1>2. S \in SUBSET Nat BY <1>1, Units
<1>3. n \in T BY DEF Level
<1>4. PICK l \in S : \A j \in S : l <= j
  <2>1. S # {} BY <1>3
  <2> HIDE DEF S
  <2> QED BY <1>2, <2>1, NatMin
<1>5. PICK x \in T : l = RootLength - x.length BY <1>4
<1>6. \A y \in T : y.length <= x.length
  <2>1. \A y \in T : RootLength - x.length <= RootLength - y.length BY <1>4, <1>5
  <2> QED BY <2>1, <1>1, Units
<1>7. h[x].parent # Null /\ (h[x].parent = m \/ In(h[x].parent, m))
  BY DEF TreeOK, LeastOK, Level
<1>8. h[x].parent \in DOMAIN h BY <1>7, HeapTypes DEF TreeOK
<1>9. Kid(h, h[x].parent, QuadrantIn(h[x].parent, x)) = x
  BY <1>7 DEF TreeOK, LinksOK, ParentsOK
<1>10. In(x, h[x].parent) /\ L[h[x].parent] = L[x]
  BY <1>1, <1>8, <1>9, QuadrantType DEF TreeOK, LinksOK, KidsOK, LevelsOK, LevelsIn
<1>11. h[x].parent = m
  <2>1. SUFFICES ASSUME In(h[x].parent, m) PROVE FALSE BY <1>7
  <2>2. x = n \/ In(n, h[x].parent)
    BY <1>1, <1>8, <1>10, InTransitive, NodeFacts DEF Place, In
  <2>3. In(n, h[x].parent) BY <1>10, <2>2
  <2>4. h[x].parent \in T BY <1>8, <1>10, <2>1, <2>3 DEF Level
  <2>5. h[x].parent.length <= x.length BY <1>6, <2>4
  <2> QED BY <1>1, <1>8, <1>10, <2>5 DEF In
<1>12. QuadrantIn(m, x) = QuadrantIn(m, n)
  BY <1>1, InTransitive, NodeFacts DEF In
<1> QED BY <1>5, <1>9, <1>10, <1>11, <1>12 DEF Level

(* No level has the same node twice.                                       *)
LEMMA OnlyOnce ==
  ASSUME NEW h, NEW L, TreeOK(h, L), NEW m \in DOMAIN h, NEW n \in DOMAIN h,
         Level(L, m, n), Same(m, n)
  PROVE  m = n
<1> DEFINE T == {x \in DOMAIN h : Level(L, x, n) /\ In(n, x)}
           S == {x.length : x \in T}
<1>1. \A x \in DOMAIN h : /\ IsNode(x) /\ Place(x) /\ x.length \in Nat
                          /\ L[x] \in Int /\ x # Null
  BY NodeFacts, HeapTypes DEF TreeOK, LevelsOK, LevelsIn, IsNode
<1>2. CASE IsRoot(n)
  <2>1. IsRoot(m) BY <1>2, SameIsEquivalence DEF IsRoot
  <2> QED BY <1>2, <2>1 DEF TreeOK, OneRoot, Level
<1>3. CASE ~IsRoot(n)
  <2>1. h[n].parent # Null /\ h[n].parent \in DOMAIN h
    BY <1>3, HeapTypes DEF TreeOK, LevelsOK, LevelsIn
  <2>2. Kid(h, h[n].parent, QuadrantIn(h[n].parent, n)) = n
    BY <2>1 DEF TreeOK, LinksOK, ParentsOK
  <2>3. In(n, h[n].parent) /\ L[h[n].parent] = L[n]
    BY <1>1, <2>1, <2>2, QuadrantType DEF TreeOK, LinksOK, KidsOK, LevelsOK, LevelsIn
  <2>4. h[n].parent \in T BY <2>1, <2>3 DEF Level
  <2>5. S \in SUBSET Nat /\ S # {} BY <1>1, <2>4
  <2>6. PICK l \in S : \A j \in S : l <= j
    <3> HIDE DEF S
    <3> QED BY <2>5, NatMin
  <2>7. PICK x \in T : x.length = l BY <2>6
  <2>8. \A y \in T : x.length <= y.length BY <2>6, <2>7
  <2>9. ASSUME NEW y \in DOMAIN h, Level(L, y, n), Same(y, n)
        PROVE  Kid(h, x, QuadrantIn(x, n)) = y
    <3>1. In(y, x) /\ QuadrantIn(x, y) = QuadrantIn(x, n)
      BY <2>9, InSame, SameIsEquivalence
    <3>2. Level(L, x, y) BY <2>9 DEF Level
    <3> DEFINE c == Kid(h, x, QuadrantIn(x, n))
    <3>3. c \in DOMAIN h /\ L[c] = L[x] /\ (c = y \/ In(y, c)) /\ In(c, x)
      BY <3>1, <3>2, Towards
    <3>4. ASSUME In(y, c) PROVE FALSE
      <4>1. In(n, c) BY <2>9, <3>4, InSame, SameIsEquivalence
      <4>2. c \in T BY <3>3, <4>1 DEF Level
      <4> HIDE DEF c, T
      <4>3. x.length <= c.length BY <2>8, <4>2
      <4>4. x \in DOMAIN h BY DEF T
      <4> QED BY <1>1, <3>3, <4>3, <4>4 DEF In
    <3> QED BY <3>3, <3>4
  <2>10. Level(L, n, n) /\ Same(n, n) BY SameIsEquivalence DEF Level
  <2> QED BY <2>9, <2>10
<1> QED BY <1>2, <1>3

(* Every node of a level is in its root.                                   *)
LEMMA RootOfLevel ==
  ASSUME NEW h, NEW L, TreeOK(h, L), NEW n \in DOMAIN h, L[n] >= 0
  PROVE  \E r \in DOMAIN h : IsRoot(r) /\ L[r] = L[n] /\ (n = r \/ In(n, r))
<1> DEFINE T == {x \in DOMAIN h : Level(L, x, n) /\ (x = n \/ In(n, x))}
           S == {RootLength - x.length : x \in T}
<1>1. \A x \in DOMAIN h : /\ IsNode(x) /\ Place(x) /\ x.length \in Nat
                          /\ x.length <= RootLength /\ L[x] \in Int /\ x # Null
  BY NodeFacts, HeapTypes DEF TreeOK, LevelsOK, LevelsIn, IsNode
<1>2. S \in SUBSET Nat BY <1>1, Units
<1>3. n \in T BY DEF Level
<1>4. PICK l \in S : \A j \in S : l <= j
  <2>1. S # {} BY <1>3
  <2> HIDE DEF S
  <2> QED BY <1>2, <2>1, NatMin
<1>5. PICK x \in T : l = RootLength - x.length BY <1>4
<1>6. \A y \in T : y.length <= x.length
  <2>1. \A y \in T : RootLength - x.length <= RootLength - y.length BY <1>4, <1>5
  <2> QED BY <2>1, <1>1, Units
<1>7. IsRoot(x)
  <2>1. SUFFICES ASSUME ~IsRoot(x) PROVE FALSE OBVIOUS
  <2>2. h[x].parent # Null /\ h[x].parent \in DOMAIN h
    BY <2>1, HeapTypes DEF TreeOK, LevelsOK, LevelsIn
  <2>3. Kid(h, h[x].parent, QuadrantIn(h[x].parent, x)) = x
    BY <2>2 DEF TreeOK, LinksOK, ParentsOK
  <2>4. In(x, h[x].parent) /\ L[h[x].parent] = L[x]
    BY <1>1, <2>2, <2>3, QuadrantType DEF TreeOK, LinksOK, KidsOK, LevelsOK, LevelsIn
  <2>5. In(n, h[x].parent)
    BY <1>1, <2>2, <2>4, InTransitive, NodeFacts DEF In
  <2>6. h[x].parent \in T BY <2>2, <2>4, <2>5 DEF Level
  <2>7. h[x].parent.length <= x.length BY <1>6, <2>6
  <2> QED BY <1>1, <2>2, <2>4, <2>7 DEF In
<1> QED BY <1>7 DEF Level
(* A root without children has only roots above it.                        *)
LEMMA EmptyBelow ==
  ASSUME NEW h, NEW L, TreeOK(h, L), NEW r \in DOMAIN h, IsRoot(r), L[r] >= 0,
         \A q \in Quadrants : Kid(h, r, q) = Null, NEW n \in DOMAIN h, L[n] > L[r]
  PROVE  IsRoot(n)
<1>1. L[r] \in Nat /\ L[n] \in Int BY DEF TreeOK, LevelsOK, LevelsIn
<1>2. PICK m \in DOMAIN h : Same(m, n) /\ L[m] = L[r] BY <1>1, CopyBelow
<1>3. PICK s \in DOMAIN h : IsRoot(s) /\ L[s] = L[m] /\ (m = s \/ In(m, s))
  BY <1>2, RootOfLevel
<1>4. s = r BY <1>2, <1>3 DEF TreeOK, OneRoot
<1>5. CASE m = r BY <1>2, <1>5, SameIsEquivalence DEF IsRoot
<1>6. CASE In(m, r)
  <2>1. Level(L, r, m) BY <1>2 DEF Level
  <2>2. Kid(h, r, QuadrantIn(r, m)) \in DOMAIN h BY <1>6, <2>1, Towards
  <2> QED BY <2>2, QuadrantType, HeapTypes DEF TreeOK
<1> QED BY <1>3, <1>4, <1>5, <1>6

(* The root that has nothing above it is on the highest level.             *)
LEMMA NothingAbove ==
  ASSUME NEW h, NEW L, TreeOK(h, L), NEW r \in DOMAIN h, IsRoot(r), L[r] >= 0,
         h[r].up = Null, NEW n \in DOMAIN h
  PROVE  L[n] <= L[r]
<1>1. L[r] \in Nat /\ L[n] \in Int BY DEF TreeOK, LevelsOK, LevelsIn
<1>2. SUFFICES ASSUME L[n] > L[r] PROVE FALSE BY <1>1
<1>3. PICK s \in DOMAIN h : IsRoot(s) /\ L[s] = L[n]
  BY <1>1, <1>2, RootOfLevel
<1>4. PICK m \in DOMAIN h : Same(m, s) /\ L[m] = L[r] + 1
  BY <1>1, <1>2, <1>3, CopyBelow
<1>5. /\ h[m].down \in DOMAIN h /\ Same(m, h[m].down) /\ h[h[m].down].up = m
      /\ L[h[m].down] = L[r]
  BY <1>1, <1>4, DownStep
<1>6. IsRoot(h[m].down) BY <1>3, <1>4, <1>5, SameIsEquivalence DEF IsRoot
<1>7. h[m].down = r BY <1>5, <1>6 DEF TreeOK, OneRoot
<1> QED BY <1>5, <1>7, HeapTypes DEF TreeOK

-----------------------------------------------------------------------------
(* The end of a call: what the root leads to.                              *)
Only(f, live) == [n \in live |-> f[n]]

LEMMA LiveRoots ==
  ASSUME NEW h, NEW L, TreeOK(h, L), NEW live, Closed(h, live),
         NEW r \in DOMAIN h, IsRoot(r), L[r] >= 0
  PROVE  r \in live
<1> DEFINE T == {x \in DOMAIN h : IsRoot(x) /\ L[x] >= 0 /\ x \notin live}
           S == {L[x] : x \in T}
<1>1. \A x \in DOMAIN h : L[x] \in Int BY DEF TreeOK, LevelsOK, LevelsIn
<1>2. SUFFICES ASSUME r \notin live PROVE FALSE OBVIOUS
<1>3. S \in SUBSET Nat /\ L[r] \in S BY <1>1, <1>2
<1>4. PICK l \in S : \A j \in S : l <= j BY <1>3, NatMin
<1>5. PICK x \in T : L[x] = l BY <1>4
<1>6. CASE L[x] = 0
  <2>1. Root \in DOMAIN h /\ L[Root] = 0 BY <1>1, <1>5, <1>6 DEF TreeOK, LevelsOK, LevelsIn
  <2>2. IsRoot(Root) BY SameIsEquivalence DEF IsRoot
  <2>3. x = Root BY <1>6, <2>1, <2>2 DEF TreeOK, OneRoot
  <2> QED BY <2>1, <2>3 DEF Closed
<1>7. CASE L[x] # 0
  <2>1. L[x] > 0 BY <1>1, <1>7
  <2>2. /\ h[x].down \in DOMAIN h /\ Same(x, h[x].down) /\ h[h[x].down].up = x
        /\ L[h[x].down] = L[x] - 1
    BY <2>1, DownStep
  <2>3. IsRoot(h[x].down) BY <2>2, SameIsEquivalence DEF IsRoot
  <2>4. h[x].down \in live
    <3>1. SUFFICES ASSUME h[x].down \notin live PROVE FALSE OBVIOUS
    <3>2. L[h[x].down] \in S BY <1>1, <2>1, <2>2, <2>3, <3>1
    <3> HIDE DEF S
    <3> QED BY <1>1, <1>4, <1>5, <2>1, <2>2, <3>2
  <2>5. x # Null BY HeapTypes DEF TreeOK
  <2>6. x \in Pointers(h, h[x].down) BY <2>2, <2>5 DEF Pointers
  <2> QED BY <2>4, <2>6 DEF Closed
<1> QED BY <1>6, <1>7

LEMMA LiveNodes ==
  ASSUME NEW h, NEW L, TreeOK(h, L), NEW live, Closed(h, live),
         NEW n \in DOMAIN h, L[n] >= 0
  PROVE  n \in live
<1> DEFINE T == {x \in DOMAIN h : L[x] >= 0 /\ x \notin live}
           S == {RootLength - x.length : x \in T}
<1>1. \A x \in DOMAIN h : /\ IsNode(x) /\ Place(x) /\ x.length \in Nat
                          /\ x.length <= RootLength /\ L[x] \in Int /\ x # Null
  BY NodeFacts, HeapTypes DEF TreeOK, LevelsOK, LevelsIn, IsNode
<1>2. SUFFICES ASSUME n \notin live PROVE FALSE OBVIOUS
<1>3. S \in SUBSET Nat BY <1>1, Units
<1>4. PICK l \in S : \A j \in S : l <= j
  <2>1. S # {} BY <1>2
  <2> HIDE DEF S
  <2> QED BY <1>3, <2>1, NatMin
<1>5. PICK x \in T : l = RootLength - x.length BY <1>4
<1>6. \A y \in T : y.length <= x.length
  <2>1. \A y \in T : RootLength - x.length <= RootLength - y.length BY <1>4, <1>5
  <2> QED BY <2>1, <1>1, Units
<1>7. ~IsRoot(x) BY LiveRoots
<1>8. h[x].parent # Null /\ h[x].parent \in DOMAIN h
  BY <1>7, HeapTypes DEF TreeOK, LevelsOK, LevelsIn
<1>9. Kid(h, h[x].parent, QuadrantIn(h[x].parent, x)) = x
  BY <1>8 DEF TreeOK, LinksOK, ParentsOK
<1>10. In(x, h[x].parent) /\ L[h[x].parent] = L[x]
  BY <1>1, <1>8, <1>9, QuadrantType DEF TreeOK, LinksOK, KidsOK, LevelsOK, LevelsIn
<1>11. h[x].parent \in live
  <2>1. SUFFICES ASSUME h[x].parent \notin live PROVE FALSE OBVIOUS
  <2>2. h[x].parent \in T BY <1>8, <1>10, <2>1
  <2>3. h[x].parent.length <= x.length BY <1>6, <2>2
  <2> QED BY <1>1, <1>8, <1>10, <2>3 DEF In
<1>12. x \in Pointers(h, h[x].parent)
  BY <1>1, <1>9, QuadrantType DEF Pointers, Children, Kid, Quadrants
<1> QED BY <1>11, <1>12 DEF Closed

LEMMA KeepLive ==
  ASSUME NEW h, NEW L, TreeOK(h, L), NEW live, Closed(h, live)
  PROVE  TreeOK(Only(h, live), Only(L, live))
<1> DEFINE g == Only(h, live)  M == Only(L, live)
<1>1. live \subseteq DOMAIN h /\ DOMAIN g = live /\ DOMAIN M = live
  BY DEF Closed, Only
<1>2. \A n \in live : g[n] = h[n] /\ M[n] = L[n] BY DEF Only
<1> HIDE DEF g, M
<1>3. \A n \in live, q \in Quadrants : Kid(g, n, q) = Kid(h, n, q)
  BY <1>2 DEF Kid
<1>4. \A n \in live : /\ h[n].parent \in live \cup {Null}
                      /\ h[n].up \in live \cup {Null}
                      /\ h[n].down \in live \cup {Null}
                      /\ \A q \in Quadrants : Kid(h, n, q) \in live \cup {Null}
  BY DEF Closed, Pointers, Children, Kid, Quadrants
<1>5. \A n \in DOMAIN h : L[n] >= 0 => n \in live BY LiveNodes
<1>6. HeapOK(g)
  <2>1. IsFiniteSet(live) BY <1>1, HeapTypes, FS_Subset DEF TreeOK
  <2>2. ASSUME NEW n \in live PROVE h[n] \in FieldsIn(live)
    <3>1. h[n] \in FieldsIn(DOMAIN h) BY <1>1 DEF TreeOK, HeapOK
    <3>2. h[n].child \in [Quadrants -> live \cup {Null}]
      BY <1>1, <1>4, <3>1 DEF FieldsIn, Kid
    <3> QED BY <1>4, <3>1, <3>2 DEF FieldsIn
  <2> QED BY <1>1, <1>2, <2>1, <2>2 DEF TreeOK, HeapOK
<1>7. LinksOK(g)
  <2>1. Null \notin live BY <1>1, HeapTypes DEF TreeOK
  <2>2. KidsOK(g) BY <1>1, <1>2, <1>3, <1>4 DEF TreeOK, LinksOK, KidsOK
  <2>3. ParentsOK(g)
    BY <1>1, <1>2, <1>3, <1>4, QuadrantType DEF TreeOK, LinksOK, ParentsOK
  <2>4. UpsOK(g) BY <1>1, <1>2, <1>4 DEF TreeOK, LinksOK, UpsOK
  <2>5. DownsOK(g) BY <1>1, <1>2, <1>4 DEF TreeOK, LinksOK, DownsOK
  <2> QED BY <2>2, <2>3, <2>4, <2>5 DEF LinksOK
<1>8. LevelsOK(g, M)
  <2>1. M \in [live -> Int] BY <1>1, <1>2 DEF M, Only, TreeOK, LevelsOK, LevelsIn
  <2>2. IF Root \in live THEN M[Root] = 0 ELSE \A n \in live : M[n] = -1
    BY <1>1, <1>2 DEF TreeOK, LevelsOK, LevelsIn, Closed
  <2>3. ASSUME NEW n \in live
        PROVE /\ M[n] >= -1
              /\ \A q \in Quadrants : Kid(g, n, q) # Null => M[Kid(g, n, q)] = M[n]
              /\ g[n].down # Null =>
                   M[n] = IF M[g[n].down] = -1 THEN -1 ELSE M[g[n].down] + 1
              /\ g[n].parent = Null <=> IsRoot(n)
              /\ M[n] = -1 => IsRoot(n) /\ \A q \in Quadrants : Kid(g, n, q) = Null
              /\ M[n] >= 0 => (g[n].down = Null <=> M[n] = 0)
    BY <1>1, <1>2, <1>3, <1>4 DEF TreeOK, LevelsOK, LevelsIn
  <2> QED BY <1>1, <2>1, <2>2, <2>3 DEF LevelsOK, LevelsIn
<1>9. OneRoot(g, M) BY <1>1, <1>2 DEF TreeOK, OneRoot
<1>10. LeastOK(g, M) BY <1>1, <1>2 DEF TreeOK, LeastOK, Level
<1>11. PartedOK(g, M)
  <2>1. ASSUME NEW a \in live, NEW b \in live, Level(M, a, b),
               NEW x, GridSquare(x), Parted(a, b, x)
        PROVE  \E s \in live : Level(M, s, a) /\ Same(s, x)
    <3>1. Level(L, a, b) BY <1>2, <2>1 DEF Level
    <3>2. PICK s \in DOMAIN h : Level(L, s, a) /\ Same(s, x)
      BY <1>1, <2>1, <3>1 DEF TreeOK, PartedOK
    <3>3. s \in live BY <1>5, <3>2 DEF Level
    <3> QED BY <1>2, <3>2, <3>3 DEF Level
  <2> QED BY <1>1, <2>1 DEF PartedOK
<1> QED BY <1>6, <1>7, <1>8, <1>9, <1>10, <1>11 DEF TreeOK, g, M

(* Pointers of nodes lead to nodes.                                        *)
LEMMA AllClosed ==
  ASSUME NEW h, HeapOK(h)
  PROVE  Closed(h, DOMAIN h)
BY HeapTypes DEF Closed, Pointers, Children, Kid, Quadrants
-----------------------------------------------------------------------------
(* What the assignments through pointers change.                           *)
Typed(h, S) == \A x \in DOMAIN h : h[x] \in FieldsIn(S)

SlotSet(h, g, S, n, q, v) ==
  /\ DOMAIN g = DOMAIN h /\ Typed(g, S)
  /\ \A x \in DOMAIN h :
       /\ g[x].parent = h[x].parent /\ g[x].up = h[x].up /\ g[x].down = h[x].down
       /\ \A r \in Quadrants :
            Kid(g, x, r) = IF x = n /\ r = q THEN v ELSE Kid(h, x, r)
LEMMA SetSlotIs ==
  ASSUME NEW h, NEW S, Typed(h, S), NEW n \in DOMAIN h, NEW q \in Quadrants,
         NEW v \in S \cup {Null}
  PROVE  SlotSet(h, SetSlot(h, n, q, v), S, n, q, v)
<1> DEFINE g == SetSlot(h, n, q, v)
<1>1. DOMAIN g = DOMAIN h BY DEF SetSlot
<1>2. \A x \in DOMAIN h : x # n => g[x] = h[x] BY DEF SetSlot
<1>3. g[n] = [h[n] EXCEPT !.child = [h[n].child EXCEPT ![q] = v]] BY DEF SetSlot
<1> HIDE DEF g
<1>4. h[n] \in FieldsIn(S) BY DEF Typed
<1>5. [h[n].child EXCEPT ![q] = v] \in [Quadrants -> S \cup {Null}]
  BY <1>4 DEF FieldsIn
<1>6. /\ g[n].parent = h[n].parent /\ g[n].up = h[n].up /\ g[n].down = h[n].down
      /\ g[n].child = [h[n].child EXCEPT ![q] = v] /\ g[n] \in FieldsIn(S)
  BY <1>3, <1>4, <1>5 DEF FieldsIn
<1>7. \A r \in Quadrants : g[n].child[r] = IF r = q THEN v ELSE h[n].child[r]
  BY <1>4, <1>6 DEF FieldsIn
<1> QED BY <1>1, <1>2, <1>6, <1>7 DEF g, Typed, Kid, SlotSet

ParentSet(h, g, S, n, v) ==
  /\ DOMAIN g = DOMAIN h /\ Typed(g, S)
  /\ \A x \in DOMAIN h :
       /\ g[x].parent = IF x = n THEN v ELSE h[x].parent
       /\ g[x].up = h[x].up /\ g[x].down = h[x].down
       /\ \A r \in Quadrants : Kid(g, x, r) = Kid(h, x, r)
LEMMA SetParentIs ==
  ASSUME NEW h, NEW S, Typed(h, S), NEW n \in DOMAIN h, NEW v \in S \cup {Null}
  PROVE  ParentSet(h, SetParent(h, n, v), S, n, v)
<1> DEFINE g == SetParent(h, n, v)
<1>1. DOMAIN g = DOMAIN h BY DEF SetParent
<1>2. \A x \in DOMAIN h : x # n => g[x] = h[x] BY DEF SetParent
<1>3. g[n] = [h[n] EXCEPT !.parent = v] BY DEF SetParent
<1> HIDE DEF g
<1>4. h[n] \in FieldsIn(S) BY DEF Typed
<1>5. /\ g[n].parent = v /\ g[n].up = h[n].up /\ g[n].down = h[n].down
      /\ g[n].child = h[n].child /\ g[n] \in FieldsIn(S)
  BY <1>3, <1>4 DEF FieldsIn
<1> QED BY <1>1, <1>2, <1>5 DEF g, Typed, Kid, ParentSet

UpSet(h, g, S, n, v) ==
  /\ DOMAIN g = DOMAIN h /\ Typed(g, S)
  /\ \A x \in DOMAIN h :
       /\ g[x].parent = h[x].parent /\ g[x].down = h[x].down
       /\ g[x].up = IF x = n THEN v ELSE h[x].up
       /\ \A r \in Quadrants : Kid(g, x, r) = Kid(h, x, r)
LEMMA SetUpIs ==
  ASSUME NEW h, NEW S, Typed(h, S), NEW n \in DOMAIN h \cup {Null},
         Null \notin DOMAIN h, NEW v \in S \cup {Null}
  PROVE  UpSet(h, SetUp(h, n, v), S, n, v)
<1> DEFINE g == SetUp(h, n, v)
<1>1. CASE n = Null BY <1>1 DEF SetUp, UpSet
<1>2. CASE n \in DOMAIN h
  <2>1. g = [h EXCEPT ![n].up = v] BY <1>2 DEF SetUp
  <2>2. DOMAIN g = DOMAIN h BY <2>1
  <2>3. \A x \in DOMAIN h : x # n => g[x] = h[x] BY <2>1
  <2>4. g[n] = [h[n] EXCEPT !.up = v] BY <1>2, <2>1
  <2> HIDE DEF g
  <2>5. h[n] \in FieldsIn(S) BY <1>2 DEF Typed
  <2>6. /\ g[n].parent = h[n].parent /\ g[n].up = v /\ g[n].down = h[n].down
        /\ g[n].child = h[n].child /\ g[n] \in FieldsIn(S)
    BY <2>4, <2>5 DEF FieldsIn
  <2> QED BY <2>2, <2>3, <2>6 DEF g, Typed, Kid, UpSet
<1> QED BY <1>1, <1>2

DownSet(h, g, S, n, v) ==
  /\ DOMAIN g = DOMAIN h /\ Typed(g, S)
  /\ \A x \in DOMAIN h :
       /\ g[x].parent = h[x].parent /\ g[x].up = h[x].up
       /\ g[x].down = IF x = n THEN v ELSE h[x].down
       /\ \A r \in Quadrants : Kid(g, x, r) = Kid(h, x, r)
LEMMA SetDownIs ==
  ASSUME NEW h, NEW S, Typed(h, S), NEW n \in DOMAIN h \cup {Null},
         Null \notin DOMAIN h, NEW v \in S \cup {Null}
  PROVE  DownSet(h, SetDown(h, n, v), S, n, v)
<1> DEFINE g == SetDown(h, n, v)
<1>1. CASE n = Null BY <1>1 DEF SetDown, DownSet
<1>2. CASE n \in DOMAIN h
  <2>1. g = [h EXCEPT ![n].down = v] BY <1>2 DEF SetDown
  <2>2. DOMAIN g = DOMAIN h BY <2>1
  <2>3. \A x \in DOMAIN h : x # n => g[x] = h[x] BY <2>1
  <2>4. g[n] = [h[n] EXCEPT !.down = v] BY <1>2, <2>1
  <2> HIDE DEF g
  <2>5. h[n] \in FieldsIn(S) BY <1>2 DEF Typed
  <2>6. /\ g[n].parent = h[n].parent /\ g[n].up = h[n].up /\ g[n].down = v
        /\ g[n].child = h[n].child /\ g[n] \in FieldsIn(S)
    BY <2>4, <2>5 DEF FieldsIn
  <2> QED BY <2>2, <2>3, <2>6 DEF g, Typed, Kid, DownSet
<1> QED BY <1>1, <1>2

(* A new node, with its links to the copy below it.                        *)
Stacked(h, g, S, new, lo, fields) ==
  /\ DOMAIN g = DOMAIN h \cup {new} /\ Typed(g, S)
  /\ g[new].parent = fields.parent /\ g[new].up = fields.up /\ g[new].down = lo
  /\ \A r \in Quadrants : Kid(g, new, r) = fields.child[r]
  /\ \A x \in DOMAIN h :
       /\ g[x].parent = h[x].parent /\ g[x].down = h[x].down
       /\ g[x].up = IF x = lo THEN new ELSE h[x].up
       /\ \A r \in Quadrants : Kid(g, x, r) = Kid(h, x, r)
LEMMA AllocStackIs ==
  ASSUME NEW h, NEW S, Typed(h, S), NEW new \in S, new \notin DOMAIN h,
         NEW lo \in DOMAIN h \cup {Null}, Null \notin S, DOMAIN h \subseteq S,
         NEW fields \in FieldsIn(S)
  PROVE  Stacked(h, Stack(Alloc(h, new, fields), new, lo), S, new, lo, fields)
<1> DEFINE a == Alloc(h, new, fields)
           b == SetDown(a, new, lo)
           g == SetUp(b, lo, new)
<1>1. /\ DOMAIN a = DOMAIN h \cup {new} /\ a[new] = fields
      /\ \A x \in DOMAIN h : a[x] = h[x]
  BY DEF Alloc
<1>2. Typed(a, S) BY <1>1 DEF Typed
<1> HIDE DEF a
<1>3. Null \notin DOMAIN a /\ new \in DOMAIN a /\ lo \in S \cup {Null} BY <1>1
<1>4. DownSet(a, b, S, new, lo) BY <1>2, <1>3, SetDownIs
<1> HIDE DEF b
<1>5. UpSet(b, g, S, lo, new)
  <2>1. lo \in DOMAIN b \cup {Null} /\ Null \notin DOMAIN b /\ new \in S \cup {Null}
        /\ Typed(b, S)
    BY <1>1, <1>3, <1>4 DEF DownSet
  <2> QED BY <2>1, SetUpIs
<1> HIDE DEF g
<1>6. \A x \in DOMAIN h \cup {new} :
        /\ g[x].parent = a[x].parent /\ g[x].down = IF x = new THEN lo ELSE a[x].down
        /\ g[x].up = IF x = lo THEN new ELSE a[x].up
        /\ \A r \in Quadrants : Kid(g, x, r) = a[x].child[r]
  BY <1>1, <1>4, <1>5 DEF Kid, DownSet, UpSet
<1>7. g = Stack(Alloc(h, new, fields), new, lo) BY DEF Stack, a, b, g
<1>8. lo # new BY <1>3
<1> QED BY <1>1, <1>4, <1>5, <1>6, <1>7, <1>8 DEF Kid, DownSet, UpSet, Stacked
-----------------------------------------------------------------------------
(* Climb: a new root on top of the highest one.                            *)
LEMMA NewRoot ==
  ASSUME NEW h, NEW L, TreeOK(h, L), NEW c \in DOMAIN h, IsRoot(c), L[c] >= 0,
         h[c].up = Null, NEW new, new = FreshIn(DOMAIN h, Square(c.center, c.length))
  PROVE  LET g == Stack(Alloc(h, new, Node_init), new, c)
             M == Alloc(L, new, L[c] + 1)
         IN /\ TreeOK(g, M) /\ IsRoot(new) /\ new \notin DOMAIN h
            /\ DOMAIN g = DOMAIN h \cup {new} /\ g[new].down # Null
            /\ \A x \in DOMAIN h : g[x].down = h[x].down /\ M[x] = L[x]
            /\ M[new] = L[c] + 1
<1> DEFINE g == Stack(Alloc(h, new, Node_init), new, c)
           M == Alloc(L, new, L[c] + 1)
           D == DOMAIN h
           S == D \cup {new}
<1>1. /\ Null \notin D /\ IsFiniteSet(D) /\ HeapOK(h) /\ LinksOK(h)
      /\ \A x \in D : IsNode(x) /\ L[x] \in Int /\ L[x] >= -1
  BY HeapTypes DEF TreeOK, LevelsOK, LevelsIn
<1>2. IsNode(new) /\ IsRoot(new) /\ new \notin D
  <2>1. PICK k \in Nat : new = Node(Square(c.center, c.length), k) /\ new \notin D
    BY <1>1, FreshIsNew
  <2>2. Same(new, c)
    <3>1. c.square = TRUE BY RootFacts
    <3>2. Same(Node(Square(c.center, c.length), k), Square(c.center, c.length))
      BY DEF Same, Node
    <3>3. Same(Square(c.center, c.length), c) BY <3>1 DEF Same, Square
    <3>4. Same(Node(Square(c.center, c.length), k), c)
      BY <3>2, <3>3, SameIsEquivalence
    <3> QED BY <2>1, <3>4
  <2>3. IsRoot(new) BY <2>2, SameIsEquivalence DEF IsRoot
  <2>4. Place(new) /\ new.square BY <2>3, RootFacts DEF Place
  <2> QED BY <2>1, <2>3, <2>4 DEF IsNode, Node, Square
<1>3. new # Null /\ Null \notin S BY <1>1, <1>2, NodeFacts
<1>4. \A x \in D : L[x] <= L[c] BY NothingAbove
<1>5. Typed(h, S) BY <1>1 DEF Typed, HeapOK, FieldsIn
<1>6. Node_init \in FieldsIn(S) /\ Node_init.parent = Null /\ Node_init.up = Null
      /\ \A r \in Quadrants : Node_init.child[r] = Null
  BY DEF Node_init, NoChildren, FieldsIn, Quadrants
<1>7. /\ DOMAIN g = S /\ Typed(g, S)
      /\ g[new].parent = Null /\ g[new].up = Null /\ g[new].down = c
      /\ \A r \in Quadrants : Kid(g, new, r) = Null
      /\ \A x \in D :
           /\ g[x].parent = h[x].parent /\ g[x].down = h[x].down
           /\ g[x].up = IF x = c THEN new ELSE h[x].up
           /\ \A r \in Quadrants : Kid(g, x, r) = Kid(h, x, r)
  <2> HIDE DEF g
  <2>1. c \in D \cup {Null} /\ new \in S /\ D \subseteq S OBVIOUS
  <2>2. Stacked(h, g, S, new, c, Node_init)
    BY <1>2, <1>3, <1>5, <1>6, <2>1, AllocStackIs DEF g
  <2> QED BY <1>6, <2>2 DEF Stacked
<1>8. /\ DOMAIN M = S /\ M[new] = L[c] + 1 /\ \A x \in D : M[x] = L[x]
      /\ M \in [S -> Int]
  BY <1>1, <1>2 DEF Alloc, TreeOK, LevelsOK, LevelsIn
<1> HIDE DEF g, M
<1>9. HeapOK(g)
  <2>1. IsFiniteSet(S) BY <1>1, FS_AddElement
  <2> QED BY <1>1, <1>2, <1>7, <2>1 DEF HeapOK, Typed
<1>10. LinksOK(g)
  <2>1. \A x \in D : /\ h[x].parent \in D \cup {Null} /\ h[x].up \in D \cup {Null}
                     /\ h[x].down \in D \cup {Null}
                     /\ \A q \in Quadrants : Kid(h, x, q) \in D \cup {Null}
    BY <1>1, HeapTypes
  <2>2. KidsOK(g) BY <1>1, <1>7, <2>1 DEF LinksOK, KidsOK
  <2>3. ParentsOK(g) BY <1>1, <1>7, <2>1, QuadrantType DEF LinksOK, ParentsOK
  <2>4. UpsOK(g) BY <1>1, <1>2, <1>7, <2>1 DEF LinksOK, UpsOK
  <2>5. Same(new, c) BY <1>2, SameIsEquivalence DEF IsRoot
  <2>6. ASSUME NEW x \in D, h[x].down # Null
        PROVE  g[h[x].down].up = x /\ Same(x, h[x].down)
    <3>1. h[x].down \in D /\ h[h[x].down].up = x /\ Same(x, h[x].down)
      BY <1>1, <2>1, <2>6 DEF LinksOK, DownsOK
    <3>2. h[x].down # c BY <1>1, <3>1
    <3> QED BY <1>7, <3>1, <3>2
  <2>7. DownsOK(g) BY <1>3, <1>7, <2>5, <2>6 DEF DownsOK
  <2> QED BY <2>2, <2>3, <2>4, <2>7 DEF LinksOK
<1>11. LevelsOK(g, M)
  <2>1. ASSUME NEW n \in S
        PROVE /\ M[n] >= -1
              /\ \A q \in Quadrants : Kid(g, n, q) # Null => M[Kid(g, n, q)] = M[n]
              /\ g[n].down # Null =>
                   M[n] = IF M[g[n].down] = -1 THEN -1 ELSE M[g[n].down] + 1
              /\ g[n].parent = Null <=> IsRoot(n)
              /\ M[n] = -1 => IsRoot(n) /\ \A q \in Quadrants : Kid(g, n, q) = Null
              /\ M[n] >= 0 => (g[n].down = Null <=> M[n] = 0)
    <3>1. CASE n = new BY <1>1, <1>2, <1>3, <1>7, <1>8, <3>1
    <3>2. CASE n \in D
      <4>1. /\ h[n].down \in D \cup {Null}
            /\ \A q \in Quadrants : Kid(h, n, q) \in D \cup {Null}
        BY <1>1, <3>2, HeapTypes
      <4> QED BY <1>1, <1>7, <1>8, <3>2, <4>1 DEF TreeOK, LevelsOK, LevelsIn
    <3> QED BY <3>1, <3>2
  <2>2. IF Root \in S THEN M[Root] = 0 ELSE \A n \in S : M[n] = -1
    <3>1. Root \in D BY <1>1 DEF TreeOK, LevelsOK, LevelsIn
    <3> QED BY <1>8, <3>1 DEF TreeOK, LevelsOK, LevelsIn
  <2> QED BY <1>7, <1>8, <2>1, <2>2 DEF LevelsOK, LevelsIn
<1>12. OneRoot(g, M)
  BY <1>1, <1>4, <1>7, <1>8 DEF TreeOK, OneRoot
<1>13. LeastOK(g, M)
  <2>1. ASSUME NEW m \in S, NEW n \in S, Level(M, m, n), In(n, m)
        PROVE  g[n].parent # Null /\ (g[n].parent = m \/ In(g[n].parent, m))
    <3>1. n # new BY <1>1, <1>2, <2>1, RootInNothing
    <3>2. CASE m = new
      <4>1. M[n] = L[c] + 1 /\ M[n] = L[n] /\ n \in D BY <1>8, <2>1, <3>1, <3>2 DEF Level
      <4> QED BY <1>1, <1>4, <4>1
    <3>3. CASE m \in D
      <4>1. n \in D /\ Level(L, m, n) BY <1>8, <2>1, <3>1, <3>3 DEF Level
      <4> QED BY <1>7, <2>1, <3>3, <4>1 DEF TreeOK, LeastOK
    <3> QED BY <3>2, <3>3
  <2> QED BY <1>7, <2>1 DEF LeastOK
<1>14. PartedOK(g, M)
  <2>1. ASSUME NEW a \in S, NEW b \in S, Level(M, a, b),
               NEW x, GridSquare(x), Parted(a, b, x)
        PROVE  \E s \in S : Level(M, s, a) /\ Same(s, x)
    <3>1. a # b BY <2>1 DEF Parted
    <3>2. a \in D /\ b \in D
      <4>1. a = new => b \in D /\ M[b] = L[b] /\ M[b] = L[c] + 1
        BY <1>8, <2>1, <3>1 DEF Level
      <4>2. b = new => a \in D /\ M[a] = L[a] /\ M[a] = L[c] + 1
        BY <1>8, <2>1, <3>1 DEF Level
      <4> QED BY <1>1, <1>4, <4>1, <4>2
    <3>3. Level(L, a, b) BY <1>8, <2>1, <3>2 DEF Level
    <3>4. PICK s \in D : Level(L, s, a) /\ Same(s, x)
      BY <2>1, <3>2, <3>3 DEF TreeOK, PartedOK
    <3> QED BY <1>8, <3>2, <3>4 DEF Level
  <2> QED BY <1>7, <2>1 DEF PartedOK
<1>15. TreeOK(g, M)
  BY <1>9, <1>10, <1>11, <1>12, <1>13, <1>14 DEF TreeOK
<1> QED BY <1>1, <1>2, <1>7, <1>8, <1>15 DEF g, M
-----------------------------------------------------------------------------
(* Insertion of p at the end of a walk: m is a square around p, and what   *)
(* is in the slot for p, if anything, is neither p nor around p.           *)
WalkEndsAt(h, L, m, p) ==
  /\ m \in DOMAIN h /\ m.square /\ L[m] >= 0 /\ In(p, m)
  /\ LET c == Kid(h, m, QuadrantIn(m, p))
     IN c # Null => ~In(p, c) /\ ~Same(c, p)
(* lo is the copy of p on the level below.                                 *)
CopyOf(h, L, m, p, lo) ==
  IF L[m] = 0 THEN lo = Null
  ELSE lo \in DOMAIN h /\ Same(lo, p) /\ L[lo] = L[m] - 1

LEMMA NotOnLevel ==
  ASSUME NEW h, NEW L, TreeOK(h, L), NEW p, GridPoint(p), NEW m,
         WalkEndsAt(h, L, m, p), NEW x \in DOMAIN h, L[x] = L[m]
  PROVE  ~Same(x, p)
<1>1. SUFFICES ASSUME Same(x, p) PROVE FALSE OBVIOUS
<1>2. In(x, m) /\ QuadrantIn(m, x) = QuadrantIn(m, p)
  BY <1>1, InSame, SameIsEquivalence DEF WalkEndsAt
<1>3. Level(L, m, x) /\ m \in DOMAIN h BY DEF Level, WalkEndsAt
<1> DEFINE c == Kid(h, m, QuadrantIn(m, p))
<1>4. c \in DOMAIN h /\ (c = x \/ In(x, c)) BY <1>2, <1>3, Towards
<1>5. c # Null BY <1>4, HeapTypes DEF TreeOK
<1>6. ~In(p, c) /\ ~Same(c, p) BY <1>5 DEF WalkEndsAt
<1>7. In(x, c) => In(p, c) BY <1>1, InSame, SameIsEquivalence
<1> QED BY <1>1, <1>4, <1>6, <1>7

LEMMA SquaresAround ==
  ASSUME NEW h, NEW L, TreeOK(h, L), NEW p, GridPoint(p), NEW m,
         WalkEndsAt(h, L, m, p), NEW s \in DOMAIN h, L[s] = L[m], In(p, s)
  PROVE  s = m \/ In(m, s)
<1>1. m \in DOMAIN h /\ L[m] >= 0 /\ In(p, m) /\ Level(L, m, s) BY DEF WalkEndsAt, Level
<1>2. /\ \A x \in DOMAIN h : IsNode(x) /\ Place(x) /\ x # Null
      /\ Place(p)
  BY HeapTypes, NodeFacts DEF TreeOK, IsNode, Place
<1>3. Same(m, s) \/ In(m, s) \/ In(s, m) BY <1>1, <1>2, Nested
<1>4. CASE Same(m, s) BY <1>1, <1>4, OnlyOnce
<1>5. CASE In(s, m)
  <2>1. QuadrantIn(m, s) = QuadrantIn(m, p)
    BY <1>1, <1>2, <1>5, InTransitive, NodeFacts DEF In
  <2> DEFINE c == Kid(h, m, QuadrantIn(m, p))
  <2>2. c \in DOMAIN h /\ (c = s \/ In(s, c)) BY <1>1, <1>5, <2>1, Towards
  <2>3. In(p, c) BY <1>2, <2>2, InTransitive, NodeFacts DEF In
  <2> QED BY <1>2, <2>2, <2>3 DEF WalkEndsAt
<1> QED BY <1>3, <1>4, <1>5

(* Nothing is linked to the copy below yet.                                *)
LEMMA NothingOnCopy ==
  ASSUME NEW h, NEW L, TreeOK(h, L), NEW p, GridPoint(p), NEW m,
         WalkEndsAt(h, L, m, p), NEW lo, CopyOf(h, L, m, p, lo), lo # Null,
         NEW x \in DOMAIN h
  PROVE  h[x].down # lo /\ h[lo].up = Null
<1>1. /\ L[m] # 0 /\ lo \in DOMAIN h /\ Same(lo, p) /\ L[lo] = L[m] - 1
      /\ L[m] \in Int /\ L[m] >= 0
  BY DEF CopyOf, WalkEndsAt, TreeOK, LevelsOK, LevelsIn
<1>2. ASSUME NEW y \in DOMAIN h, h[y].down = lo PROVE FALSE
  <2>1. Same(y, lo) BY <1>2 DEF TreeOK, LinksOK, DownsOK
  <2>2. L[y] = IF L[lo] = -1 THEN -1 ELSE L[lo] + 1 BY <1>2 DEF TreeOK, LevelsOK, LevelsIn
  <2>3. L[y] = L[m] BY <1>1, <2>2
  <2> QED BY <1>1, <2>1, <2>3, NotOnLevel, SameIsEquivalence
<1>3. ASSUME h[lo].up # Null PROVE FALSE
  <2>1. h[lo].up \in DOMAIN h BY <1>1, <1>3, HeapTypes DEF TreeOK
  <2>2. h[h[lo].up].down = lo BY <1>1, <1>3 DEF TreeOK, LinksOK, UpsOK
  <2> QED BY <1>2, <2>1, <2>2
<1> QED BY <1>2, <1>3

(* g is h with new below m, on top of its copy lo.                         *)
Grown(h, g, S, new, m, lo) ==
  /\ DOMAIN g = DOMAIN h \cup {new} /\ Typed(g, S)
  /\ g[new].parent = m /\ g[new].up = Null /\ g[new].down = lo
  /\ \A r \in Quadrants : Kid(g, new, r) = Null
  /\ \A x \in DOMAIN h :
       /\ g[x].parent = h[x].parent /\ g[x].down = h[x].down
       /\ g[x].up = IF x = lo THEN new ELSE h[x].up
GrownIn(h, S, new, m, lo) ==
  /\ Typed(h, S) /\ new \in S /\ new \notin DOMAIN h /\ lo \in DOMAIN h \cup {Null}
  /\ Null \notin S /\ DOMAIN h \subseteq S /\ m \in S

LEMMA WithNewIs ==
  ASSUME NEW h, NEW S, NEW new, NEW lo, NEW m, GrownIn(h, S, new, m, lo)
  PROVE  /\ Grown(h, WithNew(h, new, m, lo), S, new, m, lo)
         /\ \A x \in DOMAIN h, r \in Quadrants :
              Kid(WithNew(h, new, m, lo), x, r) = Kid(h, x, r)
<1> DEFINE F == [Node_init EXCEPT !.parent = m]
           w == Stack(Alloc(h, new, F), new, lo)
<1>1. F \in FieldsIn(S) /\ F.parent = m /\ F.up = Null /\ F.child = NoChildren
  BY DEF Node_init, NoChildren, FieldsIn, Quadrants, GrownIn
<1>2. \A r \in Quadrants : NoChildren[r] = Null BY DEF NoChildren, Quadrants
<1>3. w = WithNew(h, new, m, lo) BY DEF WithNew
<1> HIDE DEF F
<1>4. Stacked(h, w, S, new, lo, F) BY <1>1, AllocStackIs DEF GrownIn
<1> HIDE DEF w
<1> QED BY <1>1, <1>2, <1>3, <1>4 DEF Grown, Stacked

LEMMA WithPointIs ==
  ASSUME NEW h, NEW S, NEW new, NEW lo, NEW m, GrownIn(h, S, new, m, lo),
         m \in DOMAIN h
  PROVE  /\ Grown(h, WithPoint(h, new, m, lo), S, new, m, lo)
         /\ \A x \in DOMAIN h, r \in Quadrants :
              Kid(WithPoint(h, new, m, lo), x, r)
                = IF x = m /\ r = QuadrantIn(m, new) THEN new ELSE Kid(h, x, r)
<1> DEFINE w == WithNew(h, new, m, lo)
           qm == QuadrantIn(m, new)
           g == SetSlot(w, m, qm, new)
<1>1. Grown(h, w, S, new, m, lo)
  BY WithNewIs
<1>2. \A x \in DOMAIN h, r \in Quadrants : Kid(w, x, r) = Kid(h, x, r) BY WithNewIs
<1>3. qm \in Quadrants BY QuadrantType
<1> HIDE DEF w, qm
<1>4. SlotSet(w, g, S, m, qm, new)
  <2>1. Typed(w, S) /\ m \in DOMAIN w /\ new \in S \cup {Null} BY <1>1 DEF Grown, GrownIn
  <2> QED BY <1>3, <2>1, SetSlotIs
<1> HIDE DEF g
<1>5. g = WithPoint(h, new, m, lo) BY DEF WithPoint, w, qm, g
<1>6. m # new BY DEF GrownIn
<1>7. Grown(h, g, S, new, m, lo) BY <1>1, <1>4, <1>6 DEF Grown, SlotSet
<1>8. \A x \in DOMAIN h, r \in Quadrants :
        Kid(g, x, r) = IF x = m /\ r = qm THEN new ELSE Kid(h, x, r)
  BY <1>1, <1>2, <1>4 DEF Grown, SlotSet
<1> QED BY <1>5, <1>7, <1>8 DEF qm

PointGrown(h, g, new, m, lo) ==
  /\ Grown(h, g, DOMAIN h \cup {new}, new, m, lo)
  /\ \A x \in DOMAIN h, r \in Quadrants :
       Kid(g, x, r) = IF x = m /\ r = QuadrantIn(m, new) THEN new ELSE Kid(h, x, r)

LEMMA GrowPoint ==
  ASSUME NEW h, NEW L, TreeOK(h, L), NEW p \in Points, NEW m,
         WalkEndsAt(h, L, m, PointAt(p)), Kid(h, m, QuadrantIn(m, PointAt(p))) = Null,
         NEW lo, CopyOf(h, L, m, PointAt(p), lo),
         NEW new, IsNode(new), Same(new, PointAt(p)), new \notin DOMAIN h,
         NEW g, PointGrown(h, g, new, m, lo)
  PROVE  TreeOK(g, Alloc(L, new, L[m]))
<1> DEFINE P == PointAt(p)
           D == DOMAIN h
           S == D \cup {new}
           qm == QuadrantIn(m, new)
           M == Alloc(L, new, L[m])
<1>1. /\ Null \notin D /\ IsFiniteSet(D) /\ HeapOK(h) /\ LinksOK(h)
      /\ \A x \in D : /\ IsNode(x) /\ Place(x) /\ L[x] \in Int /\ L[x] >= -1
                      /\ h[x].parent \in D \cup {Null} /\ h[x].up \in D \cup {Null}
                      /\ h[x].down \in D \cup {Null}
                      /\ \A q \in Quadrants : Kid(h, x, q) \in D \cup {Null}
  BY HeapTypes DEF TreeOK, LevelsOK, LevelsIn, IsNode
<1>2. GridPoint(P) /\ Place(P) BY PointPlace
<1>3. IsNode(new) /\ Same(new, P) /\ new \notin D /\ Place(new) BY DEF IsNode
<1>4. new # Null /\ Null \notin S /\ ~IsRoot(new) /\ new.square = FALSE
  <2>1. P.square = FALSE BY PointPlace
  <2>2. new.square = FALSE BY <1>3, <2>1 DEF Same
  <2> QED BY <1>1, <1>3, <2>2, NodeFacts, RootFacts
<1>5. m \in D /\ m.square /\ L[m] >= 0 /\ In(P, m) BY DEF WalkEndsAt
<1>6. In(new, m) /\ qm = QuadrantIn(m, P) /\ qm \in Quadrants /\ Kid(h, m, qm) = Null
  BY <1>3, <1>5, InSame, SameIsEquivalence, QuadrantType
<1>7. lo \in D \cup {Null} BY DEF CopyOf
<1>8. Typed(h, S) BY <1>1 DEF Typed, HeapOK, FieldsIn
<1>12. /\ DOMAIN g = S /\ Typed(g, S)
       /\ g[new].parent = m /\ g[new].up = Null /\ g[new].down = lo
       /\ \A r \in Quadrants : Kid(g, new, r) = Null
       /\ \A x \in D :
            /\ g[x].parent = h[x].parent /\ g[x].down = h[x].down
            /\ g[x].up = IF x = lo THEN new ELSE h[x].up
            /\ \A r \in Quadrants :
                 Kid(g, x, r) = IF x = m /\ r = qm THEN new ELSE Kid(h, x, r)
  BY DEF PointGrown, Grown
<1>14. /\ DOMAIN M = S /\ M[new] = L[m] /\ \A x \in D : M[x] = L[x]
       /\ M \in [S -> Int]
  BY <1>1, <1>3, <1>5 DEF Alloc, TreeOK, LevelsOK, LevelsIn
<1> HIDE DEF M, qm
<1>15. ASSUME lo # Null, NEW x \in D PROVE h[x].down # lo /\ h[lo].up = Null
  BY <1>2, <1>15, NothingOnCopy
<1>16. lo # Null => Same(new, lo) /\ L[m] = L[lo] + 1 /\ L[lo] >= 0 /\ L[m] # 0
  <2>1. lo # Null => Same(lo, P) /\ L[m] # 0 /\ L[lo] = L[m] - 1 BY DEF CopyOf
  <2>2. lo # Null => L[lo] >= 0 /\ L[m] = L[lo] + 1 BY <1>1, <1>5, <1>7, <2>1
  <2> QED BY <1>3, <2>1, <2>2, SameIsEquivalence
<1>17. lo = Null => L[m] = 0 BY <1>1 DEF CopyOf
<1>18. HeapOK(g)
  <2>1. IsFiniteSet(S) BY <1>1, FS_AddElement
  <2> QED BY <1>1, <1>3, <1>12, <2>1 DEF HeapOK, Typed
<1>19. LinksOK(g)
  <2>1. KidsOK(g)
    <3>1. ASSUME NEW n \in S, NEW q \in Quadrants, Kid(g, n, q) # Null
          PROVE  /\ n.square /\ g[Kid(g, n, q)].parent = n
                 /\ q = QuadrantIn(n, Kid(g, n, q)) /\ In(Kid(g, n, q), n)
      <4>1. CASE n = m /\ q = qm
        BY <1>5, <1>6, <1>12, <4>1 DEF qm
      <4>2. CASE ~(n = m /\ q = qm)
        <5>1. n \in D /\ Kid(g, n, q) = Kid(h, n, q) BY <1>12, <3>1, <4>2
        <5>2. Kid(h, n, q) \in D BY <1>1, <3>1, <5>1
        <5> QED BY <1>1, <1>12, <3>1, <5>1, <5>2 DEF LinksOK, KidsOK
      <4> QED BY <4>1, <4>2
    <3> QED BY <1>12, <3>1 DEF KidsOK
  <2>2. ParentsOK(g)
    <3>1. ASSUME NEW n \in D, h[n].parent # Null
          PROVE  Kid(g, h[n].parent, QuadrantIn(h[n].parent, n)) = n
      <4>1. Kid(h, h[n].parent, QuadrantIn(h[n].parent, n)) = n /\ h[n].parent \in D
        BY <1>1, <3>1 DEF LinksOK, ParentsOK
      <4>2. n # Null BY <1>1
      <4> QED BY <1>6, <1>12, <4>1, <4>2, QuadrantType
    <3>2. Kid(g, m, QuadrantIn(m, new)) = new BY <1>5, <1>6, <1>12 DEF qm
    <3> QED BY <1>12, <3>1, <3>2 DEF ParentsOK
  <2>3. UpsOK(g)
    <3>1. ASSUME NEW n \in D, g[n].up # Null PROVE g[g[n].up].down = n
      <4>1. CASE n = lo BY <1>12, <4>1
      <4>2. CASE n # lo
        <5>1. g[n].up = h[n].up /\ h[n].up \in D /\ h[h[n].up].down = n
          BY <1>1, <1>12, <3>1, <4>2 DEF LinksOK, UpsOK
        <5> QED BY <1>12, <5>1
      <4> QED BY <4>1, <4>2
    <3> QED BY <1>12, <3>1 DEF UpsOK
  <2>4. DownsOK(g)
    <3>1. ASSUME NEW n \in D, h[n].down # Null
          PROVE  g[h[n].down].up = n /\ Same(n, h[n].down)
      <4>1. h[n].down \in D /\ h[h[n].down].up = n /\ Same(n, h[n].down)
        BY <1>1, <3>1 DEF LinksOK, DownsOK
      <4>2. h[n].down # lo BY <1>15, <3>1
      <4> QED BY <1>12, <4>1, <4>2
    <3>2. lo # Null => g[lo].up = new /\ Same(new, lo) BY <1>7, <1>12, <1>16
    <3> QED BY <1>12, <3>1, <3>2 DEF DownsOK
  <2> QED BY <2>1, <2>2, <2>3, <2>4 DEF LinksOK
<1>20. LevelsOK(g, M)
  <2>1. ASSUME NEW n \in S
        PROVE /\ M[n] >= -1
              /\ \A q \in Quadrants : Kid(g, n, q) # Null => M[Kid(g, n, q)] = M[n]
              /\ g[n].down # Null =>
                   M[n] = IF M[g[n].down] = -1 THEN -1 ELSE M[g[n].down] + 1
              /\ g[n].parent = Null <=> IsRoot(n)
              /\ M[n] = -1 => IsRoot(n) /\ \A q \in Quadrants : Kid(g, n, q) = Null
              /\ M[n] >= 0 => (g[n].down = Null <=> M[n] = 0)
    <3>1. CASE n = new
      <4>1. M[n] = L[m] /\ M[n] \in Int BY <1>1, <1>5, <1>14, <3>1
      <4>2. lo # Null => lo \in D /\ M[lo] = L[lo] BY <1>7, <1>14
      <4>3. g[n].parent # Null BY <1>1, <1>5, <1>12, <3>1
      <4> QED BY <1>1, <1>4, <1>5, <1>12, <1>16, <1>17, <3>1, <4>1, <4>2, <4>3
    <3>2. CASE n \in D
      <4>1. /\ M[n] = L[n]
            /\ h[n].down # Null => M[h[n].down] = L[h[n].down]
            /\ \A q \in Quadrants : Kid(h, n, q) # Null =>
                 M[Kid(h, n, q)] = L[Kid(h, n, q)]
        BY <1>1, <1>14, <3>2
      <4>2. /\ L[n] >= -1
            /\ \A q \in Quadrants : Kid(h, n, q) # Null => L[Kid(h, n, q)] = L[n]
            /\ h[n].down # Null =>
                 L[n] = IF L[h[n].down] = -1 THEN -1 ELSE L[h[n].down] + 1
            /\ h[n].parent = Null <=> IsRoot(n)
            /\ L[n] = -1 => IsRoot(n) /\ \A q \in Quadrants : Kid(h, n, q) = Null
            /\ L[n] >= 0 => (h[n].down = Null <=> L[n] = 0)
        BY <3>2 DEF TreeOK, LevelsOK, LevelsIn
      <4>3. n = m => L[n] # -1 BY <1>1, <1>5
      <4> QED BY <1>12, <1>14, <3>2, <4>1, <4>2, <4>3
    <3> QED BY <3>1, <3>2
  <2>2. IF Root \in S THEN M[Root] = 0 ELSE \A n \in S : M[n] = -1
    <3>1. Root \in D BY <1>1, <1>5 DEF TreeOK, LevelsOK, LevelsIn
    <3> QED BY <1>14, <3>1 DEF TreeOK, LevelsOK, LevelsIn
  <2> QED BY <1>12, <1>14, <2>1, <2>2 DEF LevelsOK, LevelsIn
<1>21. OneRoot(g, M) BY <1>4, <1>12, <1>14 DEF TreeOK, OneRoot
<1>22. \A x : In(new, x) <=> In(P, x) BY <1>3, InSame, SameIsEquivalence
<1>23. LeastOK(g, M)
  <2>1. ASSUME NEW s \in S, NEW n \in S, Level(M, s, n), In(n, s)
        PROVE  g[n].parent # Null /\ (g[n].parent = s \/ In(g[n].parent, s))
    <3>1. s \in D BY <1>4, <2>1 DEF In
    <3>2. CASE n = new
      <4>1. L[s] = L[m] BY <1>14, <2>1, <3>1, <3>2 DEF Level
      <4>2. s = m \/ In(m, s) BY <1>2, <1>22, <2>1, <3>1, <3>2, <4>1, SquaresAround
      <4> QED BY <1>1, <1>5, <1>12, <3>2, <4>2
    <3>3. CASE n \in D
      <4>1. Level(L, s, n) BY <1>14, <2>1, <3>1, <3>3 DEF Level
      <4> QED BY <1>12, <2>1, <3>1, <3>3, <4>1 DEF TreeOK, LeastOK
    <3> QED BY <3>2, <3>3
  <2> QED BY <1>12, <2>1 DEF LeastOK
<1>24. ASSUME NEW b \in D, L[b] = L[m], NEW x, GridSquare(x), In(P, x), In(b, x),
              QuadrantIn(x, P) # QuadrantIn(x, b)
       PROVE  \E s \in D : Level(L, s, b) /\ Same(s, x)
  <2>1. GridSquare(m) /\ Place(m) /\ Place(x)
    BY <1>1, <1>5, <1>24, NodeFacts DEF Place
  <2>2. Same(m, x) \/ In(m, x) \/ In(x, m) BY <1>2, <1>5, <1>24, <2>1, Nested
  <2>3. CASE Same(m, x) BY <1>1, <1>5, <1>24, <2>3 DEF Level
  <2>4. CASE In(m, x)
    <3>1. QuadrantIn(x, m) = QuadrantIn(x, P)
      BY <1>2, <1>5, <1>24, <2>1, <2>4, InTransitive
    <3>2. Parted(m, b, x) /\ Level(L, m, b)
      BY <1>5, <1>24, <2>4, <3>1 DEF Parted, Level
    <3>3. PICK s \in D : Level(L, s, m) /\ Same(s, x)
      BY <1>5, <1>24, <3>2 DEF TreeOK, PartedOK
    <3> QED BY <1>24, <3>3 DEF Level
  <2>5. CASE In(x, m)
    <3>1. In(b, m) /\ QuadrantIn(m, b) = QuadrantIn(m, x)
      BY <1>1, <1>24, <2>1, <2>5, InTransitive
    <3>2. QuadrantIn(m, P) = QuadrantIn(m, x)
      BY <1>2, <1>24, <2>1, <2>5, InTransitive
    <3>3. Kid(h, m, QuadrantIn(m, b)) \in D
      BY <1>5, <1>24, <3>1, Towards DEF Level
    <3> QED BY <1>1, <1>6, <3>1, <3>2, <3>3
  <2> QED BY <2>2, <2>3, <2>4, <2>5
<1>25. PartedOK(g, M)
  <2>1. \A x : QuadrantIn(x, new) = QuadrantIn(x, P)
    BY <1>3, InSame, SameIsEquivalence
  <2>2. ASSUME NEW a \in S, NEW b \in S, Level(M, a, b),
               NEW x, GridSquare(x), Parted(a, b, x)
        PROVE  \E s \in S : Level(M, s, a) /\ Same(s, x)
    <3>1. CASE a \in D /\ b \in D
      <4>1. Level(L, a, b) BY <1>14, <2>2, <3>1 DEF Level
      <4>2. PICK s \in D : Level(L, s, a) /\ Same(s, x)
        BY <2>2, <3>1, <4>1 DEF TreeOK, PartedOK
      <4> QED BY <1>14, <3>1, <4>2 DEF Level
    <3>2. CASE a = new /\ b \in D
      <4>1. L[b] = L[m] BY <1>14, <2>2, <3>2 DEF Level
      <4>2. PICK s \in D : Level(L, s, b) /\ Same(s, x)
        BY <1>22, <1>24, <2>1, <2>2, <3>2, <4>1 DEF Parted
      <4> QED BY <1>14, <2>2, <3>2, <4>2 DEF Level
    <3>3. CASE a \in D /\ b = new
      <4>1. L[a] = L[m] BY <1>14, <2>2, <3>3 DEF Level
      <4>2. PICK s \in D : Level(L, s, a) /\ Same(s, x)
        BY <1>22, <1>24, <2>1, <2>2, <3>3, <4>1 DEF Parted
      <4> QED BY <1>14, <2>2, <3>3, <4>2 DEF Level
    <3>4. CASE a = new /\ b = new BY <2>2, <3>4 DEF Parted
    <3> QED BY <3>1, <3>2, <3>3, <3>4
  <2> QED BY <1>12, <2>2 DEF PartedOK
<1> QED BY <1>18, <1>19, <1>20, <1>21, <1>23, <1>25 DEF TreeOK, M
-----------------------------------------------------------------------------
(* A new square s between m and its child sb, on top of its copy dn.       *)
SquareGrown(h, g, s, m, sb, dn) ==
  /\ DOMAIN g = DOMAIN h \cup {s} /\ Typed(g, DOMAIN g)
  /\ g[s].parent = m /\ g[s].up = Null /\ g[s].down = dn
  /\ \A r \in Quadrants : Kid(g, s, r) = IF r = QuadrantIn(s, sb) THEN sb ELSE Null
  /\ \A x \in DOMAIN h :
       /\ g[x].parent = IF x = sb THEN s ELSE h[x].parent
       /\ g[x].down = h[x].down
       /\ g[x].up = IF x = dn THEN s ELSE h[x].up
       /\ \A r \in Quadrants :
            Kid(g, x, r) = IF x = m /\ r = QuadrantIn(m, sb) THEN s ELSE Kid(h, x, r)
(* The place s takes, and the copy of it on the level below.               *)
Between(h, L, s, m, sb, dn) ==
  /\ m \in DOMAIN h /\ L[m] >= 0 /\ sb \in DOMAIN h /\ h[sb].parent = m
  /\ GridSquare(s) /\ In(sb, s) /\ In(s, m)
  /\ IF L[m] = 0 THEN dn = Null
     ELSE dn \in DOMAIN h /\ Same(dn, s) /\ L[dn] = L[m] - 1

LEMMA BetweenFacts ==
  ASSUME NEW h, NEW L, TreeOK(h, L), NEW s, NEW m, NEW sb, NEW dn,
         Between(h, L, s, m, sb, dn)
  PROVE  /\ Kid(h, m, QuadrantIn(m, sb)) = sb /\ L[sb] = L[m] /\ L[m] \in Int
         /\ QuadrantIn(m, s) = QuadrantIn(m, sb)
         /\ \A x \in DOMAIN h : ~(Same(x, s) /\ L[x] = L[m])
         /\ \A x \in DOMAIN h : dn # Null => h[x].down # dn /\ h[dn].up = Null
<1>1. /\ m \in DOMAIN h /\ L[m] >= 0 /\ sb \in DOMAIN h /\ h[sb].parent = m
      /\ GridSquare(s) /\ In(sb, s) /\ In(s, m)
  BY DEF Between
<1>2. /\ \A x \in DOMAIN h : /\ IsNode(x) /\ Place(x) /\ x # Null /\ L[x] \in Int
                             /\ L[x] >= -1 /\ x.length \in Nat
      /\ LinksOK(h)
  BY HeapTypes, NodeFacts DEF TreeOK, LevelsOK, LevelsIn, IsNode
<1>3. Kid(h, m, QuadrantIn(m, sb)) = sb BY <1>1, <1>2 DEF LinksOK, ParentsOK
<1>4. L[sb] = L[m] BY <1>1, <1>2, <1>3, QuadrantType DEF TreeOK, LevelsOK, LevelsIn
<1>5. GridSquare(m) BY <1>1, <1>2, NodeFacts DEF In
<1>6. QuadrantIn(m, s) = QuadrantIn(m, sb)
  BY <1>1, <1>2, <1>5, InTransitive DEF Place
<1>7. ASSUME NEW x \in DOMAIN h, Same(x, s), L[x] = L[m] PROVE FALSE
  <2>1. In(sb, x) BY <1>1, <1>7, InSame, SameIsEquivalence
  <2>2. m = x \/ In(m, x) BY <1>1, <1>2, <1>4, <1>7, <2>1 DEF TreeOK, LeastOK, Level
  <2>3. x.length = s.length /\ s.length < m.length BY <1>1, <1>7 DEF Same, In
  <2>4. m.length <= x.length BY <1>1, <1>2, <2>2 DEF In
  <2> QED BY <1>1, <1>2, <2>3, <2>4
<1>8. ASSUME NEW x \in DOMAIN h, dn # Null, h[x].down = dn PROVE FALSE
  <2>1. L[m] # 0 /\ dn \in DOMAIN h /\ Same(dn, s) /\ L[dn] = L[m] - 1
    BY <1>2, <1>8 DEF Between
  <2>2. Same(x, dn) BY <1>2, <1>8 DEF LinksOK, DownsOK
  <2>3. L[x] = IF L[dn] = -1 THEN -1 ELSE L[dn] + 1
    BY <1>8 DEF TreeOK, LevelsOK, LevelsIn
  <2>4. L[x] = L[m] BY <1>1, <1>2, <2>1, <2>3
  <2>5. Same(x, s) BY <2>1, <2>2, SameIsEquivalence
  <2> QED BY <1>7, <2>4, <2>5
<1>9. ASSUME dn # Null PROVE h[dn].up = Null
  <2>1. dn \in DOMAIN h BY <1>9 DEF Between
  <2>2. h[dn].up # Null => h[dn].up \in DOMAIN h /\ h[h[dn].up].down = dn
    BY <1>2, <2>1, HeapTypes DEF TreeOK, LinksOK, UpsOK
  <2> QED BY <1>8, <1>9, <2>2
<1> QED BY <1>1, <1>2, <1>3, <1>4, <1>6, <1>7, <1>8, <1>9

LEMMA GrowSquare ==
  ASSUME NEW h, NEW L, TreeOK(h, L), NEW s, IsNode(s), s \notin DOMAIN h,
         NEW m, NEW sb, NEW dn, Between(h, L, s, m, sb, dn),
         NEW g, SquareGrown(h, g, s, m, sb, dn)
  PROVE  TreeOK(g, Alloc(L, s, L[m]))
<1> DEFINE D == DOMAIN h
           S == D \cup {s}
           qs == QuadrantIn(m, sb)
           M == Alloc(L, s, L[m])
<1>1. /\ Null \notin D /\ IsFiniteSet(D) /\ HeapOK(h) /\ LinksOK(h)
      /\ \A x \in D : /\ IsNode(x) /\ Place(x) /\ L[x] \in Int /\ L[x] >= -1
                      /\ h[x].parent \in D \cup {Null} /\ h[x].up \in D \cup {Null}
                      /\ h[x].down \in D \cup {Null}
                      /\ \A q \in Quadrants : Kid(h, x, q) \in D \cup {Null}
  BY HeapTypes DEF TreeOK, LevelsOK, LevelsIn, IsNode
<1>2. /\ m \in D /\ L[m] >= 0 /\ sb \in D /\ h[sb].parent = m
      /\ GridSquare(s) /\ In(sb, s) /\ In(s, m) /\ s.square /\ m.square
      /\ dn \in D \cup {Null}
  BY DEF Between, GridSquare, In
<1>3. /\ Kid(h, m, qs) = sb /\ L[sb] = L[m] /\ L[m] \in Int
      /\ QuadrantIn(m, s) = qs /\ qs \in Quadrants
      /\ \A x \in D : ~(Same(x, s) /\ L[x] = L[m])
      /\ \A x \in D : dn # Null => h[x].down # dn /\ h[dn].up = Null
  BY BetweenFacts, QuadrantType
<1>4. s # Null /\ Null \notin S /\ ~IsRoot(s) /\ Place(s)
  BY <1>1, <1>2, NodeFacts, RootInNothing DEF IsNode
<1>5. /\ DOMAIN g = S /\ Typed(g, S)
      /\ g[s].parent = m /\ g[s].up = Null /\ g[s].down = dn
      /\ \A r \in Quadrants : Kid(g, s, r) = IF r = QuadrantIn(s, sb) THEN sb ELSE Null
      /\ \A x \in D :
           /\ g[x].parent = IF x = sb THEN s ELSE h[x].parent
           /\ g[x].down = h[x].down
           /\ g[x].up = IF x = dn THEN s ELSE h[x].up
           /\ \A r \in Quadrants :
                Kid(g, x, r) = IF x = m /\ r = qs THEN s ELSE Kid(h, x, r)
  BY DEF SquareGrown
<1>6. /\ DOMAIN M = S /\ M[s] = L[m] /\ \A x \in D : M[x] = L[x]
      /\ M \in [S -> Int]
  BY <1>1, <1>2 DEF Alloc, TreeOK, LevelsOK, LevelsIn
<1>7. m # sb /\ Place(m) /\ Place(sb) /\ GridSquare(m) /\ QuadrantIn(s, sb) \in Quadrants
  <2>1. sb.length \in Nat /\ m.length \in Nat /\ s.length \in Nat
    BY <1>1, <1>2, NodeFacts
  <2> QED BY <1>1, <1>2, <2>1, NodeFacts, QuadrantType DEF In
<1> HIDE DEF M, qs
<1>8. dn # Null => Same(s, dn) /\ L[m] = L[dn] + 1 /\ L[dn] >= 0 /\ L[m] # 0
  BY <1>1, <1>2, <1>3, SameIsEquivalence DEF Between
<1>9. dn = Null => L[m] = 0 BY <1>1 DEF Between
<1>10. HeapOK(g)
  <2>1. IsFiniteSet(S) BY <1>1, FS_AddElement
  <2> QED BY <1>1, <1>5, <2>1 DEF HeapOK, Typed
<1>11. KidsOK(g)
  <2>1. ASSUME NEW n \in S, NEW q \in Quadrants, Kid(g, n, q) # Null
        PROVE  /\ n.square /\ g[Kid(g, n, q)].parent = n
               /\ q = QuadrantIn(n, Kid(g, n, q)) /\ In(Kid(g, n, q), n)
    <3>1. CASE n = s BY <1>2, <1>5, <2>1, <3>1
    <3>2. CASE n = m /\ q = qs BY <1>2, <1>3, <1>5, <3>2
    <3>3. CASE n \in D /\ ~(n = m /\ q = qs)
      <4>1. Kid(g, n, q) = Kid(h, n, q) BY <1>5, <3>3
      <4>2. /\ Kid(h, n, q) \in D /\ n.square /\ h[Kid(h, n, q)].parent = n
            /\ q = QuadrantIn(n, Kid(h, n, q)) /\ In(Kid(h, n, q), n)
        BY <1>1, <2>1, <3>3, <4>1 DEF LinksOK, KidsOK
      <4>3. Kid(h, n, q) # sb BY <1>2, <3>3, <4>2 DEF qs
      <4> QED BY <1>5, <4>1, <4>2, <4>3
    <3> QED BY <3>1, <3>2, <3>3
  <2> QED BY <1>5, <2>1 DEF KidsOK
<1>12. ParentsOK(g)
  <2>1. ASSUME NEW n \in D, n # sb, h[n].parent # Null
        PROVE  Kid(g, h[n].parent, QuadrantIn(h[n].parent, n)) = n
    <3>1. Kid(h, h[n].parent, QuadrantIn(h[n].parent, n)) = n /\ h[n].parent \in D
      BY <1>1, <2>1 DEF LinksOK, ParentsOK
    <3> QED BY <1>3, <1>5, <2>1, <3>1, QuadrantType
  <2>2. Kid(g, s, QuadrantIn(s, sb)) = sb BY <1>5, <1>7
  <2>3. Kid(g, m, QuadrantIn(m, s)) = s BY <1>2, <1>3, <1>5
  <2> QED BY <1>5, <2>1, <2>2, <2>3 DEF ParentsOK
<1>13. UpsOK(g)
  <2>1. ASSUME NEW n \in D, g[n].up # Null PROVE g[g[n].up].down = n
    <3>1. CASE n = dn BY <1>5, <3>1
    <3>2. CASE n # dn
      <4>1. g[n].up = h[n].up /\ h[n].up \in D /\ h[h[n].up].down = n
        BY <1>1, <1>5, <2>1, <3>2 DEF LinksOK, UpsOK
      <4> QED BY <1>5, <4>1
    <3> QED BY <3>1, <3>2
  <2> QED BY <1>5, <2>1 DEF UpsOK
<1>14. DownsOK(g)
  <2>1. ASSUME NEW n \in D, h[n].down # Null
        PROVE  g[h[n].down].up = n /\ Same(n, h[n].down)
    <3>1. h[n].down \in D /\ h[h[n].down].up = n /\ Same(n, h[n].down)
      BY <1>1, <2>1 DEF LinksOK, DownsOK
    <3>2. h[n].down # dn BY <1>3, <2>1
    <3> QED BY <1>5, <3>1, <3>2
  <2>2. dn # Null => g[dn].up = s /\ Same(s, dn) BY <1>2, <1>5, <1>8
  <2> QED BY <1>5, <2>1, <2>2 DEF DownsOK
<1>15. LevelsOK(g, M)
  <2>1. ASSUME NEW n \in S
        PROVE /\ M[n] >= -1
              /\ \A q \in Quadrants : Kid(g, n, q) # Null => M[Kid(g, n, q)] = M[n]
              /\ g[n].down # Null =>
                   M[n] = IF M[g[n].down] = -1 THEN -1 ELSE M[g[n].down] + 1
              /\ g[n].parent = Null <=> IsRoot(n)
              /\ M[n] = -1 => IsRoot(n) /\ \A q \in Quadrants : Kid(g, n, q) = Null
              /\ M[n] >= 0 => (g[n].down = Null <=> M[n] = 0)
    <3>1. CASE n = s
      <4>1. M[n] = L[m] /\ M[n] \in Int BY <1>1, <1>2, <1>6, <3>1
      <4>2. dn # Null => dn \in D /\ M[dn] = L[dn] BY <1>2, <1>6
      <4>3. g[n].parent # Null BY <1>1, <1>2, <1>5, <3>1
      <4>4. M[sb] = L[m] BY <1>2, <1>3, <1>6
      <4> QED BY <1>1, <1>2, <1>4, <1>5, <1>8, <1>9, <3>1, <4>1, <4>2, <4>3, <4>4
    <3>2. CASE n \in D
      <4>1. /\ M[n] = L[n]
            /\ h[n].down # Null => M[h[n].down] = L[h[n].down]
            /\ \A q \in Quadrants : Kid(h, n, q) # Null =>
                 M[Kid(h, n, q)] = L[Kid(h, n, q)]
        BY <1>1, <1>6, <3>2
      <4>2. /\ L[n] >= -1
            /\ \A q \in Quadrants : Kid(h, n, q) # Null => L[Kid(h, n, q)] = L[n]
            /\ h[n].down # Null =>
                 L[n] = IF L[h[n].down] = -1 THEN -1 ELSE L[h[n].down] + 1
            /\ h[n].parent = Null <=> IsRoot(n)
            /\ L[n] = -1 => IsRoot(n) /\ \A q \in Quadrants : Kid(h, n, q) = Null
            /\ L[n] >= 0 => (h[n].down = Null <=> L[n] = 0)
        BY <3>2 DEF TreeOK, LevelsOK, LevelsIn
      <4>3. n = m => L[n] # -1 BY <1>2
      <4>4. g[n].parent = Null <=> h[n].parent = Null BY <1>1, <1>2, <1>4, <1>5, <3>2
      <4>5. \A q \in Quadrants : Kid(g, n, q) # Null => M[Kid(g, n, q)] = M[n]
        BY <1>5, <1>6, <3>2, <4>1, <4>2
      <4>6. M[n] = -1 => IsRoot(n) /\ \A q \in Quadrants : Kid(g, n, q) = Null
        BY <1>5, <3>2, <4>1, <4>2, <4>3
      <4> QED BY <1>5, <3>2, <4>1, <4>2, <4>4, <4>5, <4>6
    <3> QED BY <3>1, <3>2
  <2>2. IF Root \in S THEN M[Root] = 0 ELSE \A n \in S : M[n] = -1
    <3>1. Root \in D BY <1>1, <1>2 DEF TreeOK, LevelsOK, LevelsIn
    <3> QED BY <1>6, <3>1 DEF TreeOK, LevelsOK, LevelsIn
  <2> QED BY <1>5, <1>6, <2>1, <2>2 DEF LevelsOK, LevelsIn
<1>16. OneRoot(g, M) BY <1>4, <1>5, <1>6 DEF TreeOK, OneRoot
<1>17. LeastOK(g, M)
  <2>1. ASSUME NEW a \in S, NEW n \in S, Level(M, a, n), In(n, a)
        PROVE  g[n].parent # Null /\ (g[n].parent = a \/ In(g[n].parent, a))
    <3>1. GridSquare(a) BY <1>1, <1>2, <2>1, NodeFacts DEF In
    <3>2. CASE n = s
      <4>1. a \in D
        <5>1. s.length \in Nat BY <1>4, NodeFacts
        <5> QED BY <2>1, <3>2, <5>1 DEF In
      <4>2. In(sb, a) BY <1>2, <1>4, <1>7, <2>1, <3>1, <3>2, InTransitive
      <4>3. Level(L, a, sb) BY <1>2, <1>3, <1>6, <2>1, <3>2, <4>1 DEF Level
      <4>4. m = a \/ In(m, a) BY <1>2, <4>1, <4>2, <4>3 DEF TreeOK, LeastOK
      <4> QED BY <1>1, <1>2, <1>5, <3>2, <4>4
    <3>3. CASE n \in D /\ a = s
      <4>1. In(n, m) /\ QuadrantIn(m, n) = qs
        BY <1>1, <1>2, <1>3, <1>4, <1>7, <2>1, <3>3, InTransitive
      <4>2. Level(L, m, n) BY <1>2, <1>6, <2>1, <3>3 DEF Level
      <4>3. n = sb \/ In(n, sb) BY <1>2, <1>3, <3>3, <4>1, <4>2, Towards
      <4>4. CASE n = sb BY <1>4, <1>5, <3>3, <4>4
      <4>5. CASE n # sb
        <5>1. Level(L, sb, n) BY <1>2, <1>3, <4>2 DEF Level
        <5>2. h[n].parent # Null /\ (h[n].parent = sb \/ In(h[n].parent, sb))
          BY <1>2, <3>3, <4>3, <4>5, <5>1 DEF TreeOK, LeastOK
        <5>3. h[n].parent \in D /\ Place(h[n].parent) BY <1>1, <3>3, <5>2
        <5>4. In(h[n].parent, s) BY <1>2, <1>7, <5>2, <5>3, InTransitive
        <5> QED BY <1>5, <3>3, <4>5, <5>2, <5>4
      <4> QED BY <4>4, <4>5
    <3>4. CASE n \in D /\ a \in D
      <4>1. Level(L, a, n) BY <1>6, <2>1, <3>4 DEF Level
      <4>2. h[n].parent # Null /\ (h[n].parent = a \/ In(h[n].parent, a))
        BY <2>1, <3>4, <4>1 DEF TreeOK, LeastOK
      <4>3. CASE n # sb BY <1>5, <3>4, <4>2, <4>3
      <4>4. CASE n = sb
        <5>1. In(s, a) BY <1>2, <1>4, <1>7, <3>1, <4>2, <4>4, InTransitive
        <5> QED BY <1>2, <1>4, <1>5, <4>4, <5>1
      <4> QED BY <4>3, <4>4
    <3> QED BY <3>2, <3>3, <3>4
  <2> QED BY <1>5, <2>1 DEF LeastOK
<1>18. PartedOK(g, M)
  <2>1. ASSUME NEW x, GridSquare(x), In(s, x)
        PROVE  In(sb, x) /\ QuadrantIn(x, sb) = QuadrantIn(x, s)
    BY <1>2, <1>4, <1>7, <2>1, InTransitive
  <2> DEFINE Old(a) == IF a = s THEN sb ELSE a
  <2>2. \A a \in S : Old(a) \in D /\ L[Old(a)] = M[a]
    BY <1>2, <1>3, <1>6
  <2>3. ASSUME NEW a \in S, NEW b \in S, Level(M, a, b),
               NEW x, GridSquare(x), Parted(a, b, x)
        PROVE  \E r \in S : Level(M, r, a) /\ Same(r, x)
    <3>1. Parted(Old(a), Old(b), x) BY <2>1, <2>3 DEF Parted
    <3>2. Old(a) \in D /\ Old(b) \in D /\ L[Old(a)] = M[a] /\ L[Old(b)] = M[b]
      BY <2>2
    <3> HIDE DEF Old
    <3>3. Level(L, Old(a), Old(b)) BY <2>3, <3>2 DEF Level
    <3>4. PICK r \in D : Level(L, r, Old(a)) /\ Same(r, x)
      BY <2>3, <3>1, <3>2, <3>3 DEF TreeOK, PartedOK
    <3> QED BY <1>6, <3>2, <3>4 DEF Level
  <2> QED BY <1>5, <2>3 DEF PartedOK
<1>19. LinksOK(g) BY <1>11, <1>12, <1>13, <1>14 DEF LinksOK
<1> QED BY <1>10, <1>15, <1>16, <1>17, <1>18, <1>19 DEF TreeOK, M
SquareShape(h, g, S, new, lo, m, sb, s, dn) ==
  /\ DOMAIN g = DOMAIN h \cup {new, s} /\ Typed(g, S)
  /\ g[new].parent = s /\ g[new].up = Null /\ g[new].down = lo
  /\ g[s].parent = m /\ g[s].up = Null /\ g[s].down = dn
  /\ \A r \in Quadrants :
       /\ Kid(g, new, r) = Null
       /\ Kid(g, s, r) = IF r = QuadrantIn(s, sb) THEN sb
                         ELSE IF r = QuadrantIn(s, new) THEN new ELSE Null
  /\ \A x \in DOMAIN h :
       /\ g[x].parent = IF x = sb THEN s ELSE h[x].parent
       /\ g[x].down = h[x].down
       /\ g[x].up = IF x = dn THEN s ELSE IF x = lo THEN new ELSE h[x].up
       /\ \A r \in Quadrants :
            Kid(g, x, r) = IF x = m /\ r = QuadrantIn(m, new) THEN s ELSE Kid(h, x, r)

LEMMA WithSquareIs ==
  ASSUME NEW h, NEW S, NEW new, NEW lo, NEW s, GrownIn(h, S, new, s, lo),
         s \notin DOMAIN h, new # s, NEW dn \in DOMAIN h \cup {Null},
         NEW m \in DOMAIN h, NEW sb \in DOMAIN h
  PROVE  SquareShape(h, WithSquare(h, new, lo, m, sb, s, dn), S, new, lo, m, sb, s, dn)
<1> DEFINE D == DOMAIN h
           w == WithNew(h, new, s, lo)
           Kids == [NoChildren EXCEPT ![QuadrantIn(s, new)] = new,
                                      ![QuadrantIn(s, sb)] = sb]
           F == [Node_init EXCEPT !.parent = m, !.child = Kids]
           a == Stack(Alloc(w, s, F), s, dn)
           b == SetSlot(a, m, QuadrantIn(m, new), s)
           g == SetParent(b, sb, s)
<1>1. /\ Typed(h, S) /\ new \in S /\ new \notin D /\ lo \in D \cup {Null}
      /\ Null \notin S /\ D \subseteq S /\ s \in S
  BY DEF GrownIn
<1>2. /\ NoChildren \in [Quadrants -> S \cup {Null}]
      /\ \A r \in Quadrants : NoChildren[r] = Null
      /\ QuadrantIn(s, new) \in Quadrants /\ QuadrantIn(s, sb) \in Quadrants
      /\ QuadrantIn(m, new) \in Quadrants
  BY QuadrantType DEF NoChildren, Quadrants
<1>3. /\ Kids \in [Quadrants -> S \cup {Null}]
      /\ \A r \in Quadrants :
           Kids[r] = IF r = QuadrantIn(s, sb) THEN sb
                     ELSE IF r = QuadrantIn(s, new) THEN new ELSE Null
  <2>1. sb \in S BY <1>1
  <2> QED BY <1>1, <1>2, <2>1
<1> HIDE DEF Kids
<1>4. F \in FieldsIn(S) /\ F.parent = m /\ F.up = Null /\ F.child = Kids
  BY <1>1, <1>3 DEF Node_init, FieldsIn
<1> HIDE DEF F
<1>5. /\ Grown(h, w, S, new, s, lo)
      /\ \A x \in D, r \in Quadrants : Kid(w, x, r) = Kid(h, x, r)
  BY WithNewIs
<1> HIDE DEF w
<1>6. DOMAIN w = D \cup {new} /\ Typed(w, S) BY <1>5 DEF Grown
<1>7. Stacked(w, a, S, s, dn, F)
  <2>1. dn \in DOMAIN w \cup {Null} /\ DOMAIN w \subseteq S /\ s \notin DOMAIN w
    BY <1>1, <1>6
  <2> QED BY <1>1, <1>4, <1>6, <2>1, AllocStackIs
<1> HIDE DEF a
<1>8. DOMAIN a = D \cup {new, s} /\ Typed(a, S) BY <1>6, <1>7 DEF Stacked
<1>9. SlotSet(a, b, S, m, QuadrantIn(m, new), s)
  <2>1. m \in DOMAIN a /\ s \in S \cup {Null} BY <1>1, <1>8
  <2> QED BY <1>2, <1>8, <2>1, SetSlotIs
<1> HIDE DEF b
<1>10. DOMAIN b = D \cup {new, s} /\ Typed(b, S) BY <1>8, <1>9 DEF SlotSet
<1>11. ParentSet(b, g, S, sb, s)
  <2>1. sb \in DOMAIN b /\ s \in S \cup {Null} BY <1>1, <1>10
  <2> QED BY <1>10, <2>1, SetParentIs
<1> HIDE DEF g
<1>12. DOMAIN g = D \cup {new, s} /\ Typed(g, S) BY <1>10, <1>11 DEF ParentSet
<1>13. g = WithSquare(h, new, lo, m, sb, s, dn)
  BY DEF WithSquare, w, Kids, F, a, b, g
<1>14. \A x \in D \cup {new, s} :
         /\ g[x].parent = IF x = sb THEN s ELSE a[x].parent
         /\ g[x].up = a[x].up /\ g[x].down = a[x].down
         /\ \A r \in Quadrants :
              Kid(g, x, r) = IF x = m /\ r = QuadrantIn(m, new) THEN s ELSE Kid(a, x, r)
  BY <1>8, <1>9, <1>10, <1>11 DEF SlotSet, ParentSet
<1>15. /\ a[s].parent = m /\ a[s].up = Null /\ a[s].down = dn
       /\ \A r \in Quadrants : Kid(a, s, r) = Kids[r]
       /\ \A x \in D \cup {new} :
            /\ a[x].parent = w[x].parent /\ a[x].down = w[x].down
            /\ a[x].up = IF x = dn THEN s ELSE w[x].up
            /\ \A r \in Quadrants : Kid(a, x, r) = Kid(w, x, r)
  BY <1>4, <1>6, <1>7 DEF Stacked
<1>16. new # dn /\ new # m /\ new # sb /\ s # m /\ s # sb BY <1>1
<1>17. /\ w[new].parent = s /\ w[new].up = Null /\ w[new].down = lo
       /\ \A r \in Quadrants : Kid(w, new, r) = Null
       /\ \A x \in D :
            /\ w[x].parent = h[x].parent /\ w[x].down = h[x].down
            /\ w[x].up = IF x = lo THEN new ELSE h[x].up
  BY <1>5 DEF Grown
<1>18. /\ g[new].parent = s /\ g[new].up = Null /\ g[new].down = lo
       /\ \A r \in Quadrants : Kid(g, new, r) = Null
  BY <1>14, <1>15, <1>16, <1>17
<1>19. /\ g[s].parent = m /\ g[s].up = Null /\ g[s].down = dn
       /\ \A r \in Quadrants : Kid(g, s, r) = Kids[r]
  BY <1>14, <1>15, <1>16
<1>20. \A x \in D :
         /\ g[x].parent = IF x = sb THEN s ELSE h[x].parent
         /\ g[x].down = h[x].down
         /\ g[x].up = IF x = dn THEN s ELSE IF x = lo THEN new ELSE h[x].up
         /\ \A r \in Quadrants :
              Kid(g, x, r) = IF x = m /\ r = QuadrantIn(m, new) THEN s ELSE Kid(h, x, r)
  BY <1>5, <1>14, <1>15, <1>17
<1> QED BY <1>3, <1>12, <1>13, <1>18, <1>19, <1>20 DEF SquareShape
Thick(h, n) ==
  \E q, r \in Quadrants : q # r /\ Kid(h, n, q) # Null /\ Kid(h, n, r) # Null

(* g is h with a copy new of p on level k, over lo, and maybe a square.    *)
Adds(h, g, L, M, k, p, new, lo) ==
  /\ TreeOK(g, M) /\ DOMAIN h \subseteq DOMAIN g
  /\ new \in DOMAIN g /\ new \notin DOMAIN h /\ Same(new, PointAt(p))
  /\ M[new] = k /\ g[new].down = lo
  /\ \A x \in DOMAIN g : x \in DOMAIN h \/ x = new \/ (x.square /\ Thick(g, x))
  /\ \A x \in DOMAIN h :
       /\ M[x] = L[x] /\ g[x].down = h[x].down
       /\ L[x] # k => \A r \in Quadrants : Kid(g, x, r) = Kid(h, x, r)
       /\ Thick(h, x) => Thick(g, x)

LEMMA NewPointIs ==
  ASSUME NEW h, HeapOK(h), NEW p \in Points, NEW new, new = FreshIn(DOMAIN h, PointAt(p))
  PROVE  IsNode(new) /\ Same(new, PointAt(p)) /\ new \notin DOMAIN h /\ new.square = FALSE
<1>1. PICK k \in Nat : new = Node(PointAt(p), k) /\ new \notin DOMAIN h
  BY HeapTypes, FreshIsNew
<1>2. IsNode(new) /\ Same(new, PointAt(p)) BY <1>1, PointPlace
<1>3. PointAt(p).square = FALSE BY PointPlace
<1> QED BY <1>1, <1>2, <1>3 DEF Same

LEMMA NewSquareIs ==
  ASSUME NEW h, HeapOK(h), NEW f, GridSquare(f), NEW s, s = FreshIn(DOMAIN h, f)
  PROVE  IsNode(s) /\ Same(s, f) /\ s \notin DOMAIN h /\ s.square = TRUE
<1>1. PICK k \in Nat : s = Node(f, k) /\ s \notin DOMAIN h
  BY HeapTypes, FreshIsNew
<1>2. IsNode(s) /\ Same(s, f) BY <1>1, SquareNode
<1> QED BY <1>1, <1>2 DEF Same, GridSquare

LEMMA InsertPoint ==
  ASSUME NEW h, NEW L, TreeOK(h, L), NEW p \in Points, NEW m,
         WalkEndsAt(h, L, m, PointAt(p)), Kid(h, m, QuadrantIn(m, PointAt(p))) = Null,
         NEW lo, CopyOf(h, L, m, PointAt(p), lo),
         NEW new, new = FreshIn(DOMAIN h, PointAt(p))
  PROVE  Adds(h, WithPoint(h, new, m, lo), L, Alloc(L, new, L[m]), L[m], p, new, lo)
<1> DEFINE g == WithPoint(h, new, m, lo)
           S == DOMAIN h \cup {new}
<1>1. IsNode(new) /\ Same(new, PointAt(p)) /\ new \notin DOMAIN h
  BY NewPointIs DEF TreeOK
<1>2. m \in DOMAIN h /\ lo \in DOMAIN h \cup {Null} BY DEF WalkEndsAt, CopyOf
<1>3. GrownIn(h, S, new, m, lo)
  <2>1. Null \notin S /\ Typed(h, S)
    BY <1>1, NodeFacts, HeapTypes DEF TreeOK, HeapOK, Typed, FieldsIn
  <2> QED BY <1>1, <1>2, <2>1 DEF GrownIn
<1> HIDE DEF g
<1>4. Grown(h, g, S, new, m, lo) BY <1>2, <1>3, WithPointIs DEF g
<1>5. \A x \in DOMAIN h, r \in Quadrants :
        Kid(g, x, r) = IF x = m /\ r = QuadrantIn(m, new) THEN new ELSE Kid(h, x, r)
  BY <1>2, <1>3, WithPointIs DEF g
<1>6. TreeOK(g, Alloc(L, new, L[m]))
  <2>1. PointGrown(h, g, new, m, lo) BY <1>4, <1>5 DEF PointGrown
  <2> QED BY <1>1, <2>1, GrowPoint
<1>7. \A x \in DOMAIN h : Alloc(L, new, L[m])[x] = L[x]
  BY <1>1 DEF Alloc, TreeOK, LevelsOK, LevelsIn
<1>8. Alloc(L, new, L[m])[new] = L[m] BY DEF Alloc
<1>9. QuadrantIn(m, new) = QuadrantIn(m, PointAt(p)) BY <1>1, InSame, SameIsEquivalence
<1>10. ASSUME NEW x \in DOMAIN h, Thick(h, x) PROVE Thick(g, x)
  <2>1. PICK q \in Quadrants, r \in Quadrants :
          q # r /\ Kid(h, x, q) # Null /\ Kid(h, x, r) # Null
    BY <1>10 DEF Thick
  <2>2. Kid(g, x, q) = Kid(h, x, q) /\ Kid(g, x, r) = Kid(h, x, r)
    BY <1>5, <1>9, <2>1
  <2> QED BY <2>1, <2>2 DEF Thick
<1>11. DOMAIN g = S /\ g[new].down = lo /\ \A x \in DOMAIN h : g[x].down = h[x].down
  BY <1>4 DEF Grown
<1>12. \A x \in DOMAIN h : L[x] # L[m] => \A r \in Quadrants : Kid(g, x, r) = Kid(h, x, r)
  BY <1>5
<1> HIDE DEF S
<1> QED BY <1>1, <1>6, <1>7, <1>8, <1>10, <1>11, <1>12 DEF Adds, g, S

LEMMA InsertSquareIs ==
  ASSUME NEW h, NEW L, TreeOK(h, L), NEW p \in Points, NEW m,
         WalkEndsAt(h, L, m, PointAt(p)),
         NEW sb, sb = Kid(h, m, QuadrantIn(m, PointAt(p))), sb # Null,
         NEW lo, CopyOf(h, L, m, PointAt(p), lo),
         NEW f, In(PointAt(p), f), QuadrantIn(f, sb) # QuadrantIn(f, PointAt(p)),
         NEW dn, Between(h, L, f, m, sb, dn),
         NEW new, new = FreshIn(DOMAIN h, PointAt(p)),
         NEW s, s = FreshIn(DOMAIN h, f)
  PROVE  Adds(h, WithSquare(h, new, lo, m, sb, s, dn), L,
              Alloc(Alloc(L, s, L[m]), new, L[m]), L[m], p, new, lo)
<1> DEFINE P == PointAt(p)
           D == DOMAIN h
           S == D \cup {new, s}
           g == WithSquare(h, new, lo, m, sb, s, dn)
           qs == QuadrantIn(m, sb)
           K == Alloc(L, s, L[m])
           M == Alloc(K, new, L[m])
           Fields1(x) ==
             IF x = s
             THEN [parent |-> m, up |-> Null, down |-> dn,
                   child |-> [r \in Quadrants |->
                                IF r = QuadrantIn(s, sb) THEN sb ELSE Null]]
             ELSE [parent |-> IF x = sb THEN s ELSE h[x].parent,
                   up |-> IF x = dn THEN s ELSE h[x].up,
                   down |-> h[x].down,
                   child |-> [r \in Quadrants |->
                                IF x = m /\ r = qs THEN s ELSE Kid(h, x, r)]]
           h1 == [x \in D \cup {s} |-> Fields1(x)]
<1>1. /\ Null \notin D /\ Typed(h, S)
      /\ \A x \in D : /\ Place(x) /\ L[x] \in Int /\ IsNode(x)
                      /\ h[x].parent \in D \cup {Null} /\ h[x].up \in D \cup {Null}
                      /\ h[x].down \in D \cup {Null}
                      /\ \A q \in Quadrants : Kid(h, x, q) \in D \cup {Null}
  BY HeapTypes DEF TreeOK, LevelsOK, LevelsIn, IsNode, HeapOK, Typed, FieldsIn
<1>2. /\ m \in D /\ lo \in D \cup {Null} /\ GridSquare(f) /\ In(sb, f) /\ In(f, m)
      /\ dn \in D \cup {Null} /\ L[m] >= 0 /\ In(P, m) /\ sb \in D
  BY DEF WalkEndsAt, CopyOf, Between
<1>3. /\ IsNode(new) /\ Same(new, P) /\ new \notin D /\ new.square = FALSE
      /\ IsNode(s) /\ Same(s, f) /\ s \notin D /\ s.square = TRUE
  BY <1>2, NewPointIs, NewSquareIs DEF TreeOK
<1>4. new # s /\ new # Null /\ s # Null /\ Null \notin S
  BY <1>1, <1>3, NodeFacts
<1>5. /\ In(P, s) /\ In(sb, s) /\ In(s, m) /\ GridSquare(s) /\ Place(s)
      /\ QuadrantIn(s, sb) # QuadrantIn(s, new)
      /\ QuadrantIn(s, new) = QuadrantIn(s, P) /\ QuadrantIn(m, new) = qs
      /\ QuadrantIn(s, new) \in Quadrants /\ QuadrantIn(s, sb) \in Quadrants
      /\ qs \in Quadrants
  <2>1. qs = QuadrantIn(m, P)
    BY <1>2, QuadrantType DEF TreeOK, LinksOK, KidsOK
  <2> QED BY <1>2, <1>3, <2>1, InSame, SameIsEquivalence, QuadrantType DEF Place
<1>6. Between(h, L, s, m, sb, dn)
  <2>1. dn # Null => (Same(dn, f) => Same(dn, s)) BY <1>3, SameIsEquivalence
  <2>2. L[m] # 0 => dn # Null BY <1>1 DEF Between
  <2> QED BY <1>5, <2>1, <2>2 DEF Between
<1>7. SquareShape(h, g, S, new, lo, m, sb, s, dn)
  <2>1. GrownIn(h, S, new, s, lo) BY <1>1, <1>2, <1>3, <1>4 DEF GrownIn
  <2> HIDE DEF S, g
  <2> QED BY <1>2, <1>3, <1>4, <2>1, WithSquareIs DEF g
<1> HIDE DEF g
<1>8. /\ DOMAIN h1 = D \cup {s}
      /\ h1[s].parent = m /\ h1[s].up = Null /\ h1[s].down = dn
      /\ \A r \in Quadrants : h1[s].child[r] = IF r = QuadrantIn(s, sb) THEN sb ELSE Null
  OBVIOUS
<1>9. \A x \in D :
        /\ h1[x].parent = IF x = sb THEN s ELSE h[x].parent
        /\ h1[x].up = IF x = dn THEN s ELSE h[x].up
        /\ h1[x].down = h[x].down
        /\ \A r \in Quadrants :
             h1[x].child[r] = IF x = m /\ r = qs THEN s ELSE Kid(h, x, r)
  BY <1>3
<1>10. Typed(h1, D \cup {s})
  <2>1. ASSUME NEW x \in D \cup {s} PROVE Fields1(x) \in FieldsIn(D \cup {s})
    <3>1. CASE x = s BY <1>2, <3>1 DEF FieldsIn
    <3>2. CASE x \in D /\ x # s
      <4>1. [r \in Quadrants |-> IF x = m /\ r = qs THEN s ELSE Kid(h, x, r)]
              \in [Quadrants -> D \cup {s} \cup {Null}]
        BY <1>1, <3>2
      <4> QED BY <1>1, <3>2, <4>1 DEF FieldsIn
    <3> QED BY <2>1, <3>1, <3>2
  <2> HIDE DEF Fields1
  <2> QED BY <2>1 DEF Typed
<1> HIDE DEF h1
<1>11. SquareGrown(h, h1, s, m, sb, dn)
  BY <1>8, <1>9, <1>10 DEF SquareGrown, Kid
<1>12. TreeOK(h1, K) BY <1>3, <1>6, <1>11, GrowSquare
<1>13. /\ DOMAIN K = D \cup {s} /\ K[s] = L[m] /\ \A x \in D : K[x] = L[x]
  BY <1>3 DEF Alloc, TreeOK, LevelsOK, LevelsIn
<1>14. WalkEndsAt(h1, K, s, P) /\ Kid(h1, s, QuadrantIn(s, P)) = Null
  <2>1. Kid(h1, s, QuadrantIn(s, P)) = Null BY <1>5, <1>8 DEF Kid
  <2> QED BY <1>2, <1>3, <1>5, <1>8, <1>13, <2>1 DEF WalkEndsAt
<1>15. CopyOf(h1, K, s, P, lo)
  BY <1>1, <1>2, <1>8, <1>13 DEF CopyOf
<1>16. PointGrown(h1, g, new, s, lo)
  <2>1. /\ DOMAIN g = DOMAIN h1 \cup {new} /\ Typed(g, DOMAIN h1 \cup {new})
    <3>1. DOMAIN h1 \cup {new} = S BY <1>8
    <3> QED BY <1>7, <3>1 DEF SquareShape
  <2>2. \A x \in DOMAIN h1 :
          /\ g[x].parent = h1[x].parent /\ g[x].down = h1[x].down
          /\ g[x].up = IF x = lo THEN new ELSE h1[x].up
    <3>1. dn # Null => lo # dn
      <4>1. dn # Null => Same(dn, f) BY <1>1 DEF Between
      <4>2. lo # Null => Same(lo, P) BY <1>1 DEF CopyOf
      <4>3. f.square = TRUE /\ P.square = FALSE BY <1>2, PointPlace DEF GridSquare
      <4> QED BY <4>1, <4>2, <4>3 DEF Same
    <3>2. \A x \in D : x = dn => x # lo BY <1>1, <3>1
    <3>3. s # lo BY <1>2, <1>3, <1>4
    <3>4. /\ g[s].parent = h1[s].parent /\ g[s].down = h1[s].down
          /\ g[s].up = h1[s].up
      BY <1>7, <1>8 DEF SquareShape
    <3>5. \A x \in D :
            /\ g[x].parent = h1[x].parent /\ g[x].down = h1[x].down
            /\ g[x].up = IF x = lo THEN new ELSE h1[x].up
      BY <1>7, <1>9, <3>2 DEF SquareShape
    <3> QED BY <1>8, <3>3, <3>4, <3>5
  <2>3. \A x \in DOMAIN h1, r \in Quadrants :
          Kid(g, x, r) = IF x = s /\ r = QuadrantIn(s, new) THEN new ELSE Kid(h1, x, r)
    BY <1>3, <1>5, <1>7, <1>8, <1>9 DEF SquareShape, Kid
  <2>4. /\ g[new].parent = s /\ g[new].up = Null /\ g[new].down = lo
        /\ \A r \in Quadrants : Kid(g, new, r) = Null
    BY <1>7 DEF SquareShape
  <2> QED BY <2>1, <2>2, <2>3, <2>4 DEF PointGrown, Grown
<1>17. TreeOK(g, M)
  <2>1. new \notin DOMAIN h1 BY <1>3, <1>4, <1>8
  <2> HIDE DEF K, M
  <2>2. TreeOK(g, Alloc(K, new, K[s])) BY <1>3, <1>12, <1>14, <1>15, <1>16, <2>1, GrowPoint
  <2> QED BY <1>13, <2>2 DEF M
<1>18. M[new] = L[m] /\ \A x \in D : M[x] = L[x]
  BY <1>3, <1>13 DEF Alloc
<1> HIDE DEF M, K
<1>19. Thick(g, s)
  BY <1>1, <1>2, <1>4, <1>5, <1>7 DEF Thick, SquareShape
<1>20. \A x \in D, r \in Quadrants :
         Kid(g, x, r) = IF x = m /\ r = qs THEN s ELSE Kid(h, x, r)
  BY <1>5, <1>7 DEF SquareShape
<1>21. ASSUME NEW x \in D, Thick(h, x) PROVE Thick(g, x)
  <2>1. PICK q \in Quadrants, r \in Quadrants :
          q # r /\ Kid(h, x, q) # Null /\ Kid(h, x, r) # Null
    BY <1>21 DEF Thick
  <2>2. Kid(g, x, q) # Null /\ Kid(g, x, r) # Null
    BY <1>4, <1>20, <2>1
  <2> QED BY <2>1, <2>2 DEF Thick
<1>22. \A x \in D : L[x] # L[m] => \A r \in Quadrants : Kid(g, x, r) = Kid(h, x, r)
  BY <1>20
<1>23. DOMAIN g = S /\ g[new].down = lo /\ \A x \in D : g[x].down = h[x].down
  BY <1>7 DEF SquareShape
<1> QED BY <1>3, <1>17, <1>18, <1>19, <1>21, <1>22, <1>23 DEF Adds, g, M, K
-----------------------------------------------------------------------------
(* Removal of n, which is on the highest level it is on and has c and no   *)
(* other child, if any: the parent's pointer to n goes on to c.            *)
CutPlace(h, n, c) ==
  /\ n \in DOMAIN h /\ h[n].up = Null /\ h[n].parent # Null
  /\ \A q \in Quadrants : Kid(h, n, q) \in {Null, c}
  /\ c # Null => c \in DOMAIN h /\ h[c].parent = n
CutShape(h, g, n, c) ==
  LET m == h[n].parent IN
  /\ DOMAIN g = DOMAIN h \ {n} /\ Typed(g, DOMAIN h)
  /\ \A x \in DOMAIN h \ {n} :
       /\ g[x].parent = IF x = c THEN m ELSE h[x].parent
       /\ g[x].down = h[x].down
       /\ g[x].up = IF x = h[n].down THEN Null ELSE h[x].up
       /\ \A r \in Quadrants :
            Kid(g, x, r) = IF x = m /\ r = QuadrantIn(m, n) THEN c ELSE Kid(h, x, r)

LEMMA Retyped ==
  ASSUME NEW g, NEW S, Typed(g, S), NEW T,
         \A x \in DOMAIN g :
           /\ g[x].parent \in T \cup {Null} /\ g[x].up \in T \cup {Null}
           /\ g[x].down \in T \cup {Null}
           /\ \A r \in Quadrants : Kid(g, x, r) \in T \cup {Null}
  PROVE  Typed(g, T)
<1>1. ASSUME NEW x \in DOMAIN g PROVE g[x] \in FieldsIn(T)
  <2>1. g[x] \in FieldsIn(S) BY DEF Typed
  <2>2. g[x].child \in [Quadrants -> T \cup {Null}] BY <2>1 DEF FieldsIn, Kid
  <2> QED BY <2>1, <2>2 DEF FieldsIn
<1> QED BY <1>1 DEF Typed

LEMMA CutTree ==
  ASSUME NEW h, NEW L, TreeOK(h, L), NEW n, NEW c, CutPlace(h, n, c),
         NEW g, CutShape(h, g, n, c)
  PROVE  TreeOK(g, Only(L, DOMAIN h \ {n}))
<1> DEFINE D == DOMAIN h
           S == D \ {n}
           m == h[n].parent
           qn == QuadrantIn(m, n)
           M == Only(L, S)
<1>1. /\ Null \notin D /\ IsFiniteSet(D) /\ HeapOK(h) /\ LinksOK(h)
      /\ \A x \in D : /\ IsNode(x) /\ Place(x) /\ L[x] \in Int /\ L[x] >= -1
                      /\ h[x].parent \in D \cup {Null} /\ h[x].up \in D \cup {Null}
                      /\ h[x].down \in D \cup {Null}
                      /\ \A q \in Quadrants : Kid(h, x, q) \in D \cup {Null}
  BY HeapTypes DEF TreeOK, LevelsOK, LevelsIn, IsNode
<1>2. /\ n \in D /\ h[n].up = Null /\ m # Null /\ m \in D
      /\ \A q \in Quadrants : Kid(h, n, q) \in {Null, c}
      /\ c # Null => c \in D /\ h[c].parent = n
  BY <1>1 DEF CutPlace
<1>3. /\ Kid(h, m, qn) = n /\ In(n, m) /\ m.square /\ L[n] = L[m] /\ qn \in Quadrants
      /\ ~IsRoot(n) /\ L[n] >= 0
  <2>1. Kid(h, m, qn) = n /\ qn \in Quadrants
    BY <1>1, <1>2, QuadrantType DEF LinksOK, ParentsOK
  <2>2. ~IsRoot(n) /\ L[n] # -1 BY <1>2 DEF TreeOK, LevelsOK, LevelsIn
  <2>3. L[n] = L[m] BY <1>1, <1>2, <2>1 DEF TreeOK, LevelsOK, LevelsIn
  <2>4. In(n, m) /\ m.square BY <1>1, <1>2, <2>1 DEF LinksOK, KidsOK
  <2> QED BY <1>1, <1>2, <2>1, <2>2, <2>3, <2>4
<1>4. ASSUME c # Null
      PROVE  /\ c \in S /\ c # m /\ In(c, n) /\ In(c, m) /\ QuadrantIn(m, c) = qn
             /\ n.square /\ L[c] = L[n] /\ Kid(h, n, QuadrantIn(n, c)) = c
  <2>1. c \in D /\ h[c].parent = n BY <1>2, <1>4
  <2>2. Kid(h, n, QuadrantIn(n, c)) = c BY <1>1, <1>2, <2>1 DEF LinksOK, ParentsOK
  <2>3. In(c, n) /\ n.square
    BY <1>1, <1>2, <1>4, <2>2, QuadrantType DEF LinksOK, KidsOK
  <2>4. L[c] = L[n] BY <1>2, <1>4, <2>2, QuadrantType DEF TreeOK, LevelsOK, LevelsIn
  <2>5. In(c, m) /\ QuadrantIn(m, c) = qn
    BY <1>1, <1>2, <1>3, <2>1, <2>3, InTransitive, NodeFacts
  <2>6. c # n /\ c # m
    <3>1. c.length \in Nat /\ n.length \in Nat /\ m.length \in Nat
      BY <1>1, <1>2, <2>1, NodeFacts
    <3> QED BY <2>3, <2>5, <3>1 DEF In
  <2> QED BY <2>1, <2>2, <2>3, <2>4, <2>5, <2>6
<1>5. m # n
  <2>1. n.length \in Nat BY <1>1, <1>2, NodeFacts
  <2> QED BY <1>3, <2>1 DEF In
<1>6. ASSUME NEW x \in D, h[x].parent = n PROVE x = c
  <2>1. Kid(h, n, QuadrantIn(n, x)) = x BY <1>1, <1>2, <1>6 DEF LinksOK, ParentsOK
  <2> QED BY <1>1, <1>2, <1>6, <2>1, QuadrantType
<1>7. ASSUME NEW x \in D, h[x].down = n PROVE FALSE
  <2>1. h[n].up = x BY <1>1, <1>2, <1>7 DEF LinksOK, DownsOK
  <2> QED BY <1>1, <1>2, <1>7, <2>1
<1>8. ASSUME NEW x \in D, h[x].up = n PROVE x = h[n].down
  BY <1>1, <1>2, <1>8 DEF LinksOK, UpsOK
<1>9. ASSUME NEW x \in S, NEW r \in Quadrants, Kid(h, x, r) = n
      PROVE  x = m /\ r = qn
  BY <1>1, <1>2, <1>9 DEF LinksOK, KidsOK
<1>10. /\ DOMAIN g = S /\ Typed(g, D)
       /\ \A x \in S :
            /\ g[x].parent = IF x = c THEN m ELSE h[x].parent
            /\ g[x].down = h[x].down
            /\ g[x].up = IF x = h[n].down THEN Null ELSE h[x].up
            /\ \A r \in Quadrants :
                 Kid(g, x, r) = IF x = m /\ r = qn THEN c ELSE Kid(h, x, r)
  BY DEF CutShape
<1>11. DOMAIN M = S /\ M \in [S -> Int] /\ \A x \in S : M[x] = L[x]
  BY <1>1 DEF Only
<1> HIDE DEF M, qn, m
<1>12. \A x \in S : /\ g[x].parent \in S \cup {Null} /\ g[x].up \in S \cup {Null}
                    /\ g[x].down \in S \cup {Null}
                    /\ \A r \in Quadrants : Kid(g, x, r) \in S \cup {Null}
  <2>1. ASSUME NEW x \in S PROVE g[x].parent \in S \cup {Null}
    BY <1>1, <1>2, <1>5, <1>6, <1>10
  <2>2. ASSUME NEW x \in S PROVE g[x].up \in S \cup {Null}
    BY <1>1, <1>8, <1>10
  <2>3. ASSUME NEW x \in S PROVE g[x].down \in S \cup {Null}
    BY <1>1, <1>7, <1>10
  <2>4. ASSUME NEW x \in S, NEW r \in Quadrants PROVE Kid(g, x, r) \in S \cup {Null}
    <3>1. c \in S \cup {Null} BY <1>4
    <3> QED BY <1>1, <1>9, <1>10, <3>1
  <2> QED BY <2>1, <2>2, <2>3, <2>4
<1>13. HeapOK(g)
  <2>1. IsFiniteSet(S) BY <1>1, FS_RemoveElement
  <2>2. Typed(g, S)
    <3> HIDE DEF S
    <3> QED BY <1>10, <1>12, Retyped
  <2> QED BY <1>1, <1>10, <2>1, <2>2 DEF HeapOK, Typed
<1>14. KidsOK(g)
  <2>1. ASSUME NEW x \in S, NEW q \in Quadrants, Kid(g, x, q) # Null
        PROVE  /\ x.square /\ g[Kid(g, x, q)].parent = x
               /\ q = QuadrantIn(x, Kid(g, x, q)) /\ In(Kid(g, x, q), x)
    <3>1. CASE x = m /\ q = qn BY <1>3, <1>4, <1>10, <2>1, <3>1
    <3>2. CASE ~(x = m /\ q = qn)
      <4>1. Kid(g, x, q) = Kid(h, x, q) /\ Kid(h, x, q) \in S
        BY <1>10, <1>12, <2>1, <3>2
      <4>2. /\ x.square /\ h[Kid(h, x, q)].parent = x
            /\ q = QuadrantIn(x, Kid(h, x, q)) /\ In(Kid(h, x, q), x)
        BY <1>1, <2>1, <4>1 DEF LinksOK, KidsOK
      <4>3. Kid(h, x, q) # c BY <1>1, <1>2, <4>1, <4>2
      <4> QED BY <1>10, <4>1, <4>2, <4>3
    <3> QED BY <3>1, <3>2
  <2> QED BY <1>10, <2>1 DEF KidsOK
<1>15. ParentsOK(g)
  <2>1. ASSUME NEW x \in S, x # c, h[x].parent # Null
        PROVE  Kid(g, h[x].parent, QuadrantIn(h[x].parent, x)) = x
    <3>1. Kid(h, h[x].parent, QuadrantIn(h[x].parent, x)) = x /\ h[x].parent \in S
      BY <1>1, <1>6, <2>1 DEF LinksOK, ParentsOK
    <3> QED BY <1>3, <1>10, <2>1, <3>1, QuadrantType
  <2>2. c # Null => Kid(g, m, QuadrantIn(m, c)) = c BY <1>2, <1>3, <1>4, <1>5, <1>10
  <2>3. Null \notin S BY <1>1
  <2> QED BY <1>10, <2>1, <2>2, <2>3 DEF ParentsOK
<1>16. UpsOK(g)
  <2>1. ASSUME NEW x \in S, g[x].up # Null PROVE g[g[x].up].down = x
    <3>1. g[x].up = h[x].up /\ g[x].up \in S BY <1>10, <1>12, <2>1
    <3>2. h[h[x].up].down = x BY <1>1, <2>1, <3>1 DEF LinksOK, UpsOK
    <3> QED BY <1>10, <3>1, <3>2
  <2> QED BY <1>10, <2>1 DEF UpsOK
<1>17. DownsOK(g)
  <2>1. ASSUME NEW x \in S, g[x].down # Null
        PROVE  g[g[x].down].up = x /\ Same(x, g[x].down)
    <3>1. g[x].down = h[x].down /\ g[x].down \in S BY <1>10, <1>12, <2>1
    <3>2. h[h[x].down].up = x /\ Same(x, h[x].down)
      BY <1>1, <2>1, <3>1 DEF LinksOK, DownsOK
    <3>3. h[x].down # h[n].down
      <4>1. h[n].down # Null => h[h[n].down].up = n BY <1>1, <1>2 DEF LinksOK, DownsOK
      <4> QED BY <2>1, <3>1, <3>2, <4>1
    <3> QED BY <1>10, <3>1, <3>2, <3>3
  <2> QED BY <1>10, <2>1 DEF DownsOK
<1>18. LevelsOK(g, M)
  <2>1. ASSUME NEW x \in S
        PROVE /\ M[x] >= -1
              /\ \A q \in Quadrants : Kid(g, x, q) # Null => M[Kid(g, x, q)] = M[x]
              /\ g[x].down # Null =>
                   M[x] = IF M[g[x].down] = -1 THEN -1 ELSE M[g[x].down] + 1
              /\ g[x].parent = Null <=> IsRoot(x)
              /\ M[x] = -1 => IsRoot(x) /\ \A q \in Quadrants : Kid(g, x, q) = Null
              /\ M[x] >= 0 => (g[x].down = Null <=> M[x] = 0)
    <3>1. /\ M[x] = L[x]
          /\ g[x].down # Null => M[g[x].down] = L[h[x].down]
      BY <1>10, <1>11, <1>12
    <3>2. /\ L[x] >= -1
          /\ \A q \in Quadrants : Kid(h, x, q) # Null => L[Kid(h, x, q)] = L[x]
          /\ h[x].down # Null =>
               L[x] = IF L[h[x].down] = -1 THEN -1 ELSE L[h[x].down] + 1
          /\ h[x].parent = Null <=> IsRoot(x)
          /\ L[x] = -1 => IsRoot(x) /\ \A q \in Quadrants : Kid(h, x, q) = Null
          /\ L[x] >= 0 => (h[x].down = Null <=> L[x] = 0)
      BY DEF TreeOK, LevelsOK, LevelsIn
    <3>3. g[x].parent = Null <=> h[x].parent = Null BY <1>1, <1>2, <1>10
    <3>4. \A q \in Quadrants : Kid(g, x, q) # Null => M[Kid(g, x, q)] = M[x]
      <4>1. ASSUME NEW q \in Quadrants, Kid(g, x, q) # Null
            PROVE  M[Kid(g, x, q)] = M[x]
        <5>1. Kid(g, x, q) \in S BY <1>12, <4>1
        <5>2. CASE x = m /\ q = qn BY <1>3, <1>4, <1>10, <1>11, <3>1, <4>1, <5>1, <5>2
        <5>3. CASE ~(x = m /\ q = qn)
          BY <1>10, <1>11, <3>1, <3>2, <4>1, <5>1, <5>3
        <5> QED BY <5>2, <5>3
      <4> QED BY <4>1
    <3>5. M[x] = -1 => IsRoot(x) /\ \A q \in Quadrants : Kid(g, x, q) = Null
      <4>1. x = m => L[x] # -1 BY <1>3
      <4> QED BY <1>10, <3>1, <3>2, <4>1
    <3> QED BY <1>10, <3>1, <3>2, <3>3, <3>4, <3>5
  <2>2. IF Root \in S THEN M[Root] = 0 ELSE \A x \in S : M[x] = -1
    <3>1. Root \in D /\ L[Root] = 0 BY <1>2, <1>3 DEF TreeOK, LevelsOK, LevelsIn
    <3>2. Root # n BY <1>3, SameIsEquivalence DEF IsRoot
    <3> QED BY <1>11, <3>1, <3>2
  <2> QED BY <1>10, <1>11, <2>1, <2>2 DEF LevelsOK, LevelsIn
<1>19. OneRoot(g, M) BY <1>10, <1>11 DEF TreeOK, OneRoot
<1>20. LeastOK(g, M)
  <2>1. ASSUME NEW a \in S, NEW x \in S, Level(M, a, x), In(x, a)
        PROVE  g[x].parent # Null /\ (g[x].parent = a \/ In(g[x].parent, a))
    <3>1. Level(L, a, x) BY <1>11, <2>1 DEF Level
    <3>2. h[x].parent # Null /\ (h[x].parent = a \/ In(h[x].parent, a))
      BY <2>1, <3>1 DEF TreeOK, LeastOK
    <3>3. CASE x = c
      <4>1. h[x].parent = n /\ L[x] = L[n] BY <1>1, <1>2, <1>4, <3>3
      <4>2. In(n, a) /\ Level(L, a, n) BY <3>1, <3>2, <4>1 DEF Level
      <4>3. m = a \/ In(m, a) BY <1>2, <2>1, <4>2 DEF TreeOK, LeastOK, m
      <4> QED BY <1>2, <1>10, <3>3, <4>3
    <3>4. CASE x # c BY <1>10, <3>2, <3>4
    <3> QED BY <3>3, <3>4
  <2> QED BY <1>10, <2>1 DEF LeastOK
<1>21. PartedOK(g, M)
  <2>1. ASSUME NEW a \in S, NEW b \in S, Level(M, a, b),
               NEW x, GridSquare(x), Parted(a, b, x)
        PROVE  \E s \in S : Level(M, s, a) /\ Same(s, x)
    <3>1. Level(L, a, b) BY <1>11, <2>1 DEF Level
    <3>2. PICK s \in D : Level(L, s, a) /\ Same(s, x)
      BY <2>1, <3>1 DEF TreeOK, PartedOK
    <3>3. ASSUME s = n PROVE FALSE
      <4>1. /\ In(a, n) /\ In(b, n) /\ QuadrantIn(n, a) # QuadrantIn(n, b)
        BY <2>1, <3>2, <3>3, InSame, SameIsEquivalence DEF Parted
      <4>2. Level(L, n, a) /\ Level(L, n, b) BY <3>1, <3>2, <3>3 DEF Level
      <4>3. Kid(h, n, QuadrantIn(n, a)) \in D /\ Kid(h, n, QuadrantIn(n, b)) \in D
        BY <1>2, <4>1, <4>2, Towards
      <4>4. Kid(h, n, QuadrantIn(n, a)) = c /\ Kid(h, n, QuadrantIn(n, b)) = c
        BY <1>1, <1>2, <4>3, QuadrantType
      <4>5. QuadrantIn(n, a) = QuadrantIn(n, c) /\ QuadrantIn(n, b) = QuadrantIn(n, c)
        BY <1>1, <1>2, <4>3, <4>4, QuadrantType DEF LinksOK, KidsOK
      <4> QED BY <4>1, <4>5
    <3> QED BY <1>11, <3>2, <3>3 DEF Level
  <2> QED BY <1>10, <2>1 DEF PartedOK
<1>22. LinksOK(g) BY <1>14, <1>15, <1>16, <1>17 DEF LinksOK
<1> QED BY <1>13, <1>18, <1>19, <1>20, <1>21, <1>22 DEF TreeOK, M
(* Node_free takes n out of its tower of copies.                           *)
FreeShape(h, g, n, S) ==
  /\ DOMAIN g = DOMAIN h \ {n} /\ Typed(g, S)
  /\ \A x \in DOMAIN h \ {n} :
       /\ g[x].parent = h[x].parent
       /\ g[x].down = IF x = h[n].up THEN Null ELSE h[x].down
       /\ g[x].up = IF x = h[n].down THEN Null ELSE h[x].up
       /\ \A r \in Quadrants : Kid(g, x, r) = Kid(h, x, r)

LEMMA FreeIs ==
  ASSUME NEW h, NEW S, Typed(h, S), NEW n \in DOMAIN h, Null \notin DOMAIN h,
         h[n].up \in DOMAIN h \cup {Null}, h[n].down \in DOMAIN h \cup {Null}
  PROVE  FreeShape(h, Node_free(h, n), n, S)
<1> DEFINE dn == h[n].down
           u == h[n].up
           a == SetUp(h, dn, Null)
           b == SetDown(a, u, Null)
           g == Drop(b, n)
<1>1. UpSet(h, a, S, dn, Null) BY SetUpIs
<1> HIDE DEF a
<1>2. DOMAIN a = DOMAIN h /\ Typed(a, S) BY <1>1 DEF UpSet
<1>3. DownSet(a, b, S, u, Null)
  <2>1. u \in DOMAIN a \cup {Null} /\ Null \notin DOMAIN a BY <1>2
  <2> HIDE DEF u
  <2> QED BY <1>2, <2>1, SetDownIs
<1> HIDE DEF b
<1>4. DOMAIN b = DOMAIN h /\ Typed(b, S) BY <1>2, <1>3 DEF DownSet
<1>5. DOMAIN g = DOMAIN h \ {n} /\ \A x \in DOMAIN h \ {n} : g[x] = b[x]
  BY <1>4 DEF Drop
<1>6. g = Node_free(h, n) BY DEF Node_free, a, b
<1> HIDE DEF g
<1>7. \A x \in DOMAIN h :
        /\ b[x].parent = h[x].parent
        /\ b[x].down = IF x = u THEN Null ELSE h[x].down
        /\ b[x].up = IF x = dn THEN Null ELSE h[x].up
        /\ \A r \in Quadrants : Kid(b, x, r) = Kid(h, x, r)
  BY <1>1, <1>2, <1>3 DEF UpSet, DownSet
<1>8. Typed(g, S) BY <1>4, <1>5 DEF Typed
<1>9. \A x \in DOMAIN h \ {n}, r \in Quadrants : Kid(g, x, r) = Kid(b, x, r)
  BY <1>5 DEF Kid
<1> QED BY <1>5, <1>6, <1>7, <1>8, <1>9 DEF FreeShape

LEMMA CutPointIs ==
  ASSUME NEW h, HeapOK(h), LinksOK(h), NEW n, CutPlace(h, n, Null)
  PROVE  LET m == h[n].parent
         IN CutShape(h, Node_free(SetSlot(h, m, QuadrantIn(m, n), Null), n), n, Null)
<1> DEFINE D == DOMAIN h
           m == h[n].parent
           q == QuadrantIn(m, n)
           a == SetSlot(h, m, q, Null)
           g == Node_free(a, n)
<1>1. /\ Null \notin D /\ Typed(h, D) /\ n \in D /\ m \in D /\ q \in Quadrants
      /\ h[n].up = Null /\ h[n].down \in D \cup {Null}
  BY HeapTypes, QuadrantType DEF HeapOK, Typed, CutPlace
<1>2. SlotSet(h, a, D, m, q, Null) BY <1>1, SetSlotIs
<1> HIDE DEF a, q
<1>3. DOMAIN a = D /\ Typed(a, D) /\ a[n].up = Null /\ a[n].down = h[n].down
  BY <1>1, <1>2 DEF SlotSet
<1>4. FreeShape(a, g, n, D) BY <1>1, <1>3, FreeIs
<1> HIDE DEF g
<1>5. \A x \in D \ {n} :
        /\ g[x].parent = h[x].parent /\ g[x].down = h[x].down
        /\ g[x].up = IF x = h[n].down THEN Null ELSE h[x].up
        /\ \A r \in Quadrants :
             Kid(g, x, r) = IF x = m /\ r = q THEN Null ELSE Kid(h, x, r)
  <2>1. \A x \in D : x # Null BY <1>1
  <2> QED BY <1>2, <1>3, <1>4, <2>1 DEF SlotSet, FreeShape
<1>6. DOMAIN g = D \ {n} /\ Typed(g, D) BY <1>3, <1>4 DEF FreeShape
<1>7. \A x \in D : x # Null BY <1>1
<1> QED BY <1>5, <1>6, <1>7 DEF CutShape, g, a, q

LEMMA CutSquareIs ==
  ASSUME NEW h, HeapOK(h), LinksOK(h), NEW n, NEW c, c # Null, CutPlace(h, n, c)
  PROVE  LET m == h[n].parent
         IN CutShape(h, Node_free(SetParent(SetSlot(h, m, QuadrantIn(m, n), c), c, m), n),
                     n, c)
<1> DEFINE D == DOMAIN h
           m == h[n].parent
           q == QuadrantIn(m, n)
           a == SetSlot(h, m, q, c)
           b == SetParent(a, c, m)
           g == Node_free(b, n)
<1>1. /\ Null \notin D /\ Typed(h, D) /\ n \in D /\ m \in D /\ q \in Quadrants
      /\ h[n].up = Null /\ h[n].down \in D \cup {Null} /\ c \in D
  BY HeapTypes, QuadrantType DEF HeapOK, Typed, CutPlace
<1>2. SlotSet(h, a, D, m, q, c) BY <1>1, SetSlotIs
<1> HIDE DEF a, q
<1>3. DOMAIN a = D /\ Typed(a, D) BY <1>2 DEF SlotSet
<1>4. ParentSet(a, b, D, c, m)
  <2>1. c \in DOMAIN a /\ m \in D \cup {Null} BY <1>1, <1>3
  <2> QED BY <1>3, <2>1, SetParentIs
<1> HIDE DEF b
<1>5. DOMAIN b = D /\ Typed(b, D) /\ b[n].up = Null /\ b[n].down = h[n].down
  BY <1>1, <1>2, <1>3, <1>4 DEF SlotSet, ParentSet
<1>6. FreeShape(b, g, n, D) BY <1>1, <1>5, FreeIs
<1> HIDE DEF g
<1>7. \A x \in D :
        /\ b[x].parent = IF x = c THEN m ELSE h[x].parent
        /\ b[x].down = h[x].down /\ b[x].up = h[x].up
        /\ \A r \in Quadrants :
             Kid(b, x, r) = IF x = m /\ r = q THEN c ELSE Kid(h, x, r)
  BY <1>2, <1>3, <1>4 DEF SlotSet, ParentSet
<1>8. \A x \in D \ {n} :
        /\ g[x].parent = b[x].parent /\ g[x].down = b[x].down
        /\ g[x].up = IF x = h[n].down THEN Null ELSE b[x].up
        /\ \A r \in Quadrants : Kid(g, x, r) = Kid(b, x, r)
  <2>1. \A x \in D : x # Null BY <1>1
  <2> QED BY <1>5, <1>6, <2>1 DEF FreeShape
<1>9. DOMAIN g = D \ {n} /\ Typed(g, D) BY <1>5, <1>6 DEF FreeShape
<1> QED BY <1>7, <1>8, <1>9 DEF CutShape, g, b, a, q

-----------------------------------------------------------------------------
(* Removal of an empty root r: the levels above, roots without children,   *)
(* are cut off.                                                            *)
Lowered(L, S, r) == [x \in S |-> IF L[x] > L[r] THEN -1 ELSE L[x]]

LEMMA CutRoot ==
  ASSUME NEW h, NEW L, TreeOK(h, L), NEW r \in DOMAIN h, IsRoot(r), L[r] > 0,
         \A q \in Quadrants : Kid(h, r, q) = Null,
         NEW g, FreeShape(h, g, r, DOMAIN h)
  PROVE  TreeOK(g, Lowered(L, DOMAIN h \ {r}, r))
<1> DEFINE D == DOMAIN h
           S == D \ {r}
           M == Lowered(L, S, r)
<1>1. /\ Null \notin D /\ IsFiniteSet(D) /\ HeapOK(h) /\ LinksOK(h)
      /\ \A x \in D : /\ IsNode(x) /\ Place(x) /\ L[x] \in Int /\ L[x] >= -1
                      /\ h[x].parent \in D \cup {Null} /\ h[x].up \in D \cup {Null}
                      /\ h[x].down \in D \cup {Null}
                      /\ \A q \in Quadrants : Kid(h, x, q) \in D \cup {Null}
  BY HeapTypes DEF TreeOK, LevelsOK, LevelsIn, IsNode
<1>2. /\ DOMAIN g = S /\ Typed(g, D)
      /\ \A x \in S :
           /\ g[x].parent = h[x].parent
           /\ g[x].down = IF x = h[r].up THEN Null ELSE h[x].down
           /\ g[x].up = IF x = h[r].down THEN Null ELSE h[x].up
           /\ \A q \in Quadrants : Kid(g, x, q) = Kid(h, x, q)
  BY DEF FreeShape
<1>3. DOMAIN M = S /\ M \in [S -> Int]
      /\ \A x \in S : M[x] = IF L[x] > L[r] THEN -1 ELSE L[x]
  BY <1>1 DEF Lowered
<1> HIDE DEF M
<1>4. ASSUME NEW x \in D, h[x].parent = r PROVE FALSE
  <2>1. Kid(h, r, QuadrantIn(r, x)) = x BY <1>1, <1>4 DEF LinksOK, ParentsOK
  <2> QED BY <1>1, <1>4, <2>1, QuadrantType
<1>5. ASSUME NEW x \in D, NEW q \in Quadrants, Kid(h, x, q) = r PROVE FALSE
  <2>1. h[r].parent = x BY <1>1, <1>5 DEF LinksOK, KidsOK
  <2>2. h[r].parent = Null BY DEF TreeOK, LevelsOK, LevelsIn
  <2> QED BY <1>1, <1>5, <2>1, <2>2
<1>6. \A x \in D : h[x].up = r => x = h[r].down BY <1>1 DEF LinksOK, UpsOK
<1>7. \A x \in D : h[x].down = r => x = h[r].up BY <1>1 DEF LinksOK, DownsOK
<1>8. \A x \in S : /\ g[x].parent \in S \cup {Null} /\ g[x].up \in S \cup {Null}
                   /\ g[x].down \in S \cup {Null}
                   /\ \A q \in Quadrants : Kid(g, x, q) \in S \cup {Null}
  BY <1>1, <1>2, <1>4, <1>5, <1>6, <1>7
<1>9. HeapOK(g)
  <2>1. IsFiniteSet(S) BY <1>1, FS_RemoveElement
  <2>2. Typed(g, S)
    <3> HIDE DEF S
    <3> QED BY <1>2, <1>8, Retyped
  <2> QED BY <1>1, <1>2, <2>1, <2>2 DEF HeapOK, Typed
<1>10. LinksOK(g)
  <2>1. KidsOK(g) BY <1>1, <1>2, <1>8 DEF LinksOK, KidsOK
  <2>2. ParentsOK(g) BY <1>1, <1>2, <1>8, QuadrantType DEF LinksOK, ParentsOK
  <2>3. UpsOK(g)
    <3>1. ASSUME NEW x \in S, g[x].up # Null PROVE g[g[x].up].down = x
      <4>1. g[x].up = h[x].up /\ g[x].up \in S /\ x # h[r].down BY <1>2, <1>8, <3>1
      <4>2. h[h[x].up].down = x BY <1>1, <3>1, <4>1 DEF LinksOK, UpsOK
      <4>3. h[x].up # h[r].up
        <5>1. h[r].up # Null => h[h[r].up].down = r BY <1>1 DEF LinksOK, UpsOK
        <5> QED BY <3>1, <4>1, <4>2, <5>1
      <4> QED BY <1>2, <4>1, <4>2, <4>3
    <3> QED BY <1>2, <3>1 DEF UpsOK
  <2>4. DownsOK(g)
    <3>1. ASSUME NEW x \in S, g[x].down # Null
          PROVE  g[g[x].down].up = x /\ Same(x, g[x].down)
      <4>1. g[x].down = h[x].down /\ g[x].down \in S BY <1>2, <1>8, <3>1
      <4>2. h[h[x].down].up = x /\ Same(x, h[x].down)
        BY <1>1, <3>1, <4>1 DEF LinksOK, DownsOK
      <4>3. h[x].down # h[r].down
        <5>1. h[r].down # Null => h[h[r].down].up = r BY <1>1 DEF LinksOK, DownsOK
        <5> QED BY <3>1, <4>1, <4>2, <5>1
      <4> QED BY <1>2, <4>1, <4>2, <4>3
    <3> QED BY <1>2, <3>1 DEF DownsOK
  <2> QED BY <2>1, <2>2, <2>3, <2>4 DEF LinksOK
<1>11. ASSUME NEW x \in D, L[x] > L[r]
       PROVE  IsRoot(x) /\ \A q \in Quadrants : Kid(h, x, q) = Null
  <2>1. \A y \in D : L[y] > L[r] => IsRoot(y)
    <3>1. L[r] >= 0 BY <1>1
    <3> QED BY <3>1, EmptyBelow
  <2>2. ASSUME NEW q \in Quadrants, Kid(h, x, q) # Null PROVE FALSE
    <3>1. Kid(h, x, q) \in D /\ In(Kid(h, x, q), x)
      BY <1>1, <2>2 DEF LinksOK, KidsOK
    <3>2. L[Kid(h, x, q)] = L[x] BY <2>2 DEF TreeOK, LevelsOK, LevelsIn
    <3>3. IsRoot(Kid(h, x, q)) BY <1>11, <2>1, <3>1, <3>2
    <3> QED BY <1>1, <3>1, <3>3, RootInNothing
  <2> QED BY <1>11, <2>1, <2>2
<1>12. LevelsOK(g, M)
  <2>1. ASSUME NEW x \in S
        PROVE /\ M[x] >= -1
              /\ \A q \in Quadrants : Kid(g, x, q) # Null => M[Kid(g, x, q)] = M[x]
              /\ g[x].down # Null =>
                   M[x] = IF M[g[x].down] = -1 THEN -1 ELSE M[g[x].down] + 1
              /\ g[x].parent = Null <=> IsRoot(x)
              /\ M[x] = -1 => IsRoot(x) /\ \A q \in Quadrants : Kid(g, x, q) = Null
              /\ M[x] >= 0 => (g[x].down = Null <=> M[x] = 0)
    <3>1. /\ L[x] >= -1
          /\ \A q \in Quadrants : Kid(h, x, q) # Null => L[Kid(h, x, q)] = L[x]
          /\ h[x].down # Null =>
               L[x] = IF L[h[x].down] = -1 THEN -1 ELSE L[h[x].down] + 1
          /\ h[x].parent = Null <=> IsRoot(x)
          /\ L[x] = -1 => IsRoot(x) /\ \A q \in Quadrants : Kid(h, x, q) = Null
          /\ L[x] >= 0 => (h[x].down = Null <=> L[x] = 0)
      BY DEF TreeOK, LevelsOK, LevelsIn
    <3>2. \A q \in Quadrants : Kid(g, x, q) # Null => M[Kid(g, x, q)] = M[x]
      BY <1>2, <1>3, <1>8, <3>1
    <3>3. M[x] = -1 => IsRoot(x) /\ \A q \in Quadrants : Kid(g, x, q) = Null
      BY <1>2, <1>3, <1>11, <3>1
    <3>4. ASSUME g[x].down # Null
          PROVE  M[x] = IF M[g[x].down] = -1 THEN -1 ELSE M[g[x].down] + 1
      <4>1. g[x].down = h[x].down /\ g[x].down \in S /\ x # h[r].up
        BY <1>2, <1>8, <3>4
      <4>2. L[g[x].down] # L[r] \/ L[x] # L[r] + 1
        <5>1. SUFFICES ASSUME L[g[x].down] = L[r], L[x] = L[r] + 1 PROVE FALSE OBVIOUS
        <5>2. IsRoot(x) BY <1>1, <1>11, <5>1
        <5>3. Same(x, g[x].down) BY <1>1, <3>4, <4>1 DEF LinksOK, DownsOK
        <5>4. IsRoot(g[x].down) BY <5>2, <5>3, SameIsEquivalence DEF IsRoot
        <5>5. g[x].down = r BY <1>1, <4>1, <5>1, <5>4 DEF TreeOK, OneRoot
        <5> QED BY <4>1, <5>5
      <4>3. M[g[x].down] = IF L[g[x].down] > L[r] THEN -1 ELSE L[g[x].down]
        BY <1>3, <4>1
      <4>4. M[x] = IF L[x] > L[r] THEN -1 ELSE L[x] BY <1>3
      <4>5. L[x] = IF L[g[x].down] = -1 THEN -1 ELSE L[g[x].down] + 1
        BY <3>1, <3>4, <4>1
      <4>6. L[x] \in Int /\ L[r] \in Int /\ L[g[x].down] \in Int /\ L[g[x].down] >= -1
        BY <1>1, <4>1
      <4> QED BY <4>2, <4>3, <4>4, <4>5, <4>6
    <3>5. M[x] >= 0 => (g[x].down = Null <=> M[x] = 0)
      <4>1. ASSUME x = h[r].up PROVE M[x] = -1
        <5>1. h[x].down = r BY <1>1, <4>1 DEF LinksOK, UpsOK
        <5>2. L[x] = IF L[r] = -1 THEN -1 ELSE L[r] + 1 BY <1>1, <3>1, <5>1
        <5> QED BY <1>1, <1>3, <5>2
      <4>2. M[x] >= 0 => x # h[r].up /\ M[x] = L[x] BY <1>3, <4>1
      <4> QED BY <1>2, <3>1, <4>2
    <3>6. M[x] >= -1 BY <1>1, <1>3
    <3> QED BY <1>2, <3>1, <3>2, <3>3, <3>4, <3>5, <3>6
  <2>2. IF Root \in S THEN M[Root] = 0 ELSE \A x \in S : M[x] = -1
    <3>1. Root \in D /\ L[Root] = 0 BY <1>1 DEF TreeOK, LevelsOK, LevelsIn
    <3>2. Root \in S BY <3>1
    <3> QED BY <1>1, <1>3, <3>1, <3>2
  <2> QED BY <1>2, <1>3, <2>1, <2>2 DEF LevelsOK, LevelsIn
<1>13. \A x \in S : M[x] >= 0 => M[x] = L[x] /\ L[x] <= L[r]
  BY <1>1, <1>3
<1>14. OneRoot(g, M) BY <1>2, <1>13 DEF TreeOK, OneRoot
<1>15. LeastOK(g, M)
  <2>1. ASSUME NEW a \in S, NEW x \in S, Level(M, a, x), In(x, a)
        PROVE  g[x].parent # Null /\ (g[x].parent = a \/ In(g[x].parent, a))
    <3>1. Level(L, a, x) BY <1>13, <2>1 DEF Level
    <3> QED BY <1>2, <2>1, <3>1 DEF TreeOK, LeastOK
  <2> QED BY <1>2, <2>1 DEF LeastOK
<1>16. PartedOK(g, M)
  <2>1. ASSUME NEW a \in S, NEW b \in S, Level(M, a, b),
               NEW x, GridSquare(x), Parted(a, b, x)
        PROVE  \E s \in S : Level(M, s, a) /\ Same(s, x)
    <3>1. Level(L, a, b) BY <1>13, <2>1 DEF Level
    <3>2. PICK s \in D : Level(L, s, a) /\ Same(s, x)
      BY <2>1, <3>1 DEF TreeOK, PartedOK
    <3>3. ASSUME s = r PROVE FALSE
      <4>1. In(a, r) BY <2>1, <3>2, <3>3, InSame, SameIsEquivalence DEF Parted
      <4>2. Level(L, r, a) BY <3>1, <3>2, <3>3 DEF Level
      <4>3. Kid(h, r, QuadrantIn(r, a)) \in D BY <4>1, <4>2, Towards
      <4> QED BY <1>1, <4>3, QuadrantType
    <3>4. L[s] <= L[r] /\ L[s] = M[a] BY <1>13, <2>1, <3>2 DEF Level
    <3>5. M[s] = L[s] BY <1>1, <1>3, <3>2, <3>3, <3>4
    <3> QED BY <1>13, <2>1, <3>2, <3>3, <3>4, <3>5 DEF Level
  <2> QED BY <1>2, <2>1 DEF PartedOK
<1> QED BY <1>9, <1>10, <1>12, <1>14, <1>15, <1>16 DEF TreeOK, M
=============================================================================
