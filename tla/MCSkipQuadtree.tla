--------------------------- MODULE MCSkipQuadtree ---------------------------
(* SkipQuadtree for TLC: the points that are added, removed and looked for. *)
EXTENDS SkipQuadtree

(* In the plane: two points in a small square, one of them on its edge; one *)
(* that shares a larger square with them; one outside the root.            *)
Plane == {<<-8, -6>>, <<-6, -6>>, <<-14, -10>>, <<22, 0>>}

(* On a line, the same.                                                    *)
Line(coords) == {<<x>> : x \in coords}
Three == Line({-8, -6, -14})
=============================================================================
