-------------------------- MODULE StructuredGrids --------------------------
(***************************************************************************)
(* The two kinds of structured grid that a pattern can be made for: the    *)
(* halo generator and the domain descriptors are template parameters of    *)
(* the pattern.                                                            *)
(***************************************************************************)
EXTENDS CubedSphere

Cubed(g) == "edge_size" \in DOMAIN g.hgen

GenerateHalos(g, dom) ==
  IF Cubed(g) THEN CubedHalos(g.hgen, dom) ELSE Halos(g.hgen, dom)
IntersectHalo(g, dom, halo, extent) ==
  IF Cubed(g) THEN CubedIntersect(g.hgen, dom, halo, extent) ELSE Intersect(halo, extent)

(* The cell that unpack takes from a message of the halo `space` for the   *)
(* local cell x of dom, in the global coordinates of its sender.           *)
UnpackedFrom(g, dom, space, x) ==
  IF Cubed(g)
  THEN LET at == Plus(x, dom.first)
           xy == Apply(UnpackTransform(dom.first[1], space.global.first[1]), at[2], at[3], g.hgen.edge_size)
       IN  <<space.global.first[1], xy[1], xy[2], at[4]>>
  ELSE Plus(space.global.first, Minus(x, space.local.first))

(* By definition: the cells of the halo of a domain, and the cell of the   *)
(* grid at one of them.                                                    *)
CellAt(g, dom, x) ==
  IF Cubed(g) THEN Folded(g.hgen.edge_size, Plus(x, dom.first)) ELSE GridCell(g, dom, x)
CellsAround(g, dom) ==
  IF Cubed(g)
  THEN LET w == g.hgen.widths
           inner == Minus(dom.last, dom.first)
       IN  Cells(Box(<<0, -w[1], -w[3], 0>>, Plus(inner, <<0, w[2], w[4], 0>>))) \ Cells(Box(<<0, 0, 0, 0>>, inner))
  ELSE HaloCells(g, dom)
=============================================================================
