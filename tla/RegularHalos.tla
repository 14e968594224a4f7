---------------------------- MODULE RegularHalos ----------------------------
(***************************************************************************)
(* The domains of a regular structured grid and their receive halos.  A    *)
(* domain has an id and its box in global coordinates.  hgen is a halo     *)
(* generator: the box of the whole grid, the widths of the halos below and *)
(* above in each dimension, and the dimensions that are periodic.          *)
(***************************************************************************)
EXTENDS Boxes

Domain(id, first, last) == [id |-> id, first |-> first, last |-> last]
HaloGenerator(first, last, below, above, periodic) ==
  [first |-> first, last |-> last, below |-> below, above |-> above, periodic |-> periodic]

(* The domain with its own local coordinates, which start at zero.         *)
DomainExtent(dom) ==
  Pair(Box(Minus(dom.first, dom.first), Minus(dom.last, dom.first)), Box(dom.first, dom.last))

(* Along each dimension a space lies left of the domain (0), in it (1) or  *)
(* right of it (2): the interval in local coordinates.                     *)
Interval(hgen, dom, side, i) ==
  LET last == dom.last[i] - dom.first[i]
  IN  CASE side = 0 -> [first |-> -hgen.below[i], last |-> -1]
        [] side = 1 -> [first |-> 0, last |-> last]
        [] side = 2 -> [first |-> last + 1, last |-> last + hgen.above[i]]

(* halo_generator::operator(): all combinations but the domain itself, the *)
(* last dimension fastest, without the empty ones; then the periodic       *)
(* dimensions are wrapped by the position of the first coordinate.         *)
Halos(hgen, dom) ==
  LET D == Len(dom.first)
      side(j, i) == (j \div 3^(D - i)) % 3
      space(j) == Box(Coord([i \in 1 .. D |-> Interval(hgen, dom, side(j, i), i).first]),
                      Coord([i \in 1 .. D |-> Interval(hgen, dom, side(j, i), i).last]))
      wrapped(first) ==
        [i \in 1 .. D |->
           IF hgen.periodic[i]
           THEN LET ext == hgen.last[i] + 1 - hgen.first[i]
                IN  hgen.first[i] + ((first[i] - hgen.first[i] + ext) % ext)
           ELSE first[i]]
      halo(box) ==
        LET first == wrapped(Plus(box.first, dom.first))
        IN  Pair(box, Box(first, Plus(first, Minus(box.last, box.first))))
      kept == SelectSeq([n \in 1 .. 3^D |-> n - 1],
                        LAMBDA j : j # 3^D \div 2 /\ Leq(space(j).first, space(j).last))
  IN  [n \in DOMAIN kept |-> halo(space(kept[n]))]

(* halo_generator::intersect with the global box of another domain; empty  *)
(* when its first coordinate is not below its last.                        *)
Intersect(halo, extent) ==
  LET global == Box(Upper(halo.global.first, extent.first), Lower(halo.global.last, extent.last))
      local(x) == Plus(halo.local.first, Minus(x, halo.global.first))
  IN  Pair(Box(local(global.first), local(global.last)), global)

(* A grid is what all ranks are given together: the domains of each rank   *)
(* and the halo generator.                                                 *)
RanksOf(g) == DOMAIN g.domains
AllDomains(g) == UNION {{<<r, n>> : n \in DOMAIN g.domains[r]} : r \in RanksOf(g)}
DomainAt(g, d) == g.domains[d[1]][d[2]]

(* By definition: the cell of the grid at local coordinate x of a domain,  *)
(* and the cells of its halo.                                              *)
GridCell(g, dom, x) ==
  Coord([i \in DOMAIN x |->
     LET n == g.hgen.last[i] - g.hgen.first[i] + 1
         c == dom.first[i] + x[i] - g.hgen.first[i]
     IN  g.hgen.first[i] + IF g.hgen.periodic[i] THEN c % n ELSE c])
HaloCells(g, dom) ==
  LET inner == Minus(dom.last, dom.first)
      zero  == Minus(inner, inner)
  IN  Cells(Box(Minus(zero, g.hgen.below), Plus(inner, g.hgen.above))) \ Cells(Box(zero, inner))
=============================================================================
