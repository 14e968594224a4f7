---------------------------- MODULE CubedSphere ----------------------------
(***************************************************************************)
(* The domains of a cubed sphere and their receive halos.  A coordinate is *)
(* <<tile, x, y, z>>; each of the six tiles of the cube has coordinates of *)
(* its own, and a halo that reaches over an edge of its tile is global in  *)
(* the coordinates of the tile on the other side.  hgen holds the halo     *)
(* widths in the order -x, +x, -y, +y and the size of the cube.            *)
(***************************************************************************)
EXTENDS RegularHalos

CubeHalos(widths, edge_size) == [widths |-> widths, edge_size |-> edge_size]

Tiles      == 0 .. 5
Directions == 1 .. 4   \* -x, +x, -y, +y

(* A domain: ids are ordered by tile, then y, then x of its first cell.    *)
CubeDomain(c, levels, tile, first, last) ==
  Domain((((tile * c) + first[2]) * c) + first[1],
         <<tile, first[1], first[2], 0>>, <<tile, last[1], last[2], levels - 1>>)

----------------------------------------------------------------------------
(* The tile on each side of a tile.                                        *)
tile_lu ==
  0 :> <<4, 1, 5, 2>> @@ 1 :> <<0, 3, 5, 2>> @@ 2 :> <<0, 3, 1, 4>> @@
  3 :> <<2, 5, 1, 4>> @@ 4 :> <<2, 5, 3, 0>> @@ 5 :> <<4, 1, 3, 0>>

(* Affine transforms of tile coordinates.                                  *)
Transform(rotation, translation, offset) ==
  [rotation |-> rotation, translation |-> translation, offset |-> offset]
Apply(t, x, y, c) ==
  <<t.rotation[1] * x + t.rotation[2] * y + t.translation[1] * c + t.offset[1],
    t.rotation[3] * x + t.rotation[4] * y + t.translation[2] * c + t.offset[2]>>
SwitchedXY(t) == t.rotation[1] = 0
ReversedX(t)  == t.rotation[IF SwitchedXY(t) THEN 2 ELSE 1] = -1
ReversedY(t)  == t.rotation[IF SwitchedXY(t) THEN 3 ELSE 4] = -1

IdentityTransform == Transform(<<1, 0, 0, 1>>, <<0, 0>>, <<0, 0>>)

(* From the coordinates of a tile to those of the tile on each side.       *)
EvenTransforms ==
  <<Transform(<<0, -1, 1, 0>>, <<1, 1>>, <<-1, 0>>),
    Transform(<<1, 0, 0, 1>>, <<-1, 0>>, <<0, 0>>),
    Transform(<<1, 0, 0, 1>>, <<0, 1>>, <<0, 0>>),
    Transform(<<0, 1, -1, 0>>, <<-1, 1>>, <<0, -1>>)>>
OddTransforms ==
  <<Transform(<<1, 0, 0, 1>>, <<1, 0>>, <<0, 0>>),
    Transform(<<0, -1, 1, 0>>, <<1, -1>>, <<-1, 0>>),
    Transform(<<0, 1, -1, 0>>, <<1, 1>>, <<0, -1>>),
    Transform(<<1, 0, 0, 1>>, <<0, -1>>, <<0, 0>>)>>
transform_lu == [tile \in Tiles |-> IF tile % 2 = 0 THEN EvenTransforms ELSE OddTransforms]

(* And back: the entry of transform_lu, as tile and direction.             *)
InverseEntry ==
  0 :> <<<<4, 4>>, <<1, 1>>, <<5, 4>>, <<2, 1>>>> @@
  1 :> <<<<0, 2>>, <<3, 3>>, <<5, 2>>, <<2, 3>>>> @@
  2 :> <<<<0, 4>>, <<3, 1>>, <<1, 4>>, <<4, 1>>>> @@
  3 :> <<<<2, 2>>, <<5, 3>>, <<1, 2>>, <<4, 3>>>> @@
  4 :> <<<<2, 4>>, <<5, 1>>, <<3, 4>>, <<0, 1>>>> @@
  5 :> <<<<4, 2>>, <<1, 3>>, <<3, 2>>, <<0, 3>>>>
inverse_transform_lu ==
  [tile \in Tiles |-> [n \in Directions |-> transform_lu[InverseEntry[tile][n][1]][InverseEntry[tile][n][2]]]]

Direction(tile, other) == CHOOSE n \in Directions : tile_lu[tile][n] = other

\* Mutant of TransformBox: the corners of a reversed box stay in their order.
TransformBoxUnswapped(t, tile, box, c) ==
  LET f == Apply(t, box.first[2], box.first[3], c)
      l == Apply(t, box.last[2], box.last[3], c)
  IN  Box(<<tile, f[1], f[2], box.first[4]>>, <<tile, l[1], l[2], box.last[4]>>)

(* A box in the coordinates of another tile.                               *)
TransformBox(t, tile, box, c) ==
  LET f == Apply(t, box.first[2], box.first[3], c)
      l == Apply(t, box.last[2], box.last[3], c)
      lo == IF ReversedX(t) THEN l[1] ELSE f[1]
      hi == IF ReversedX(t) THEN f[1] ELSE l[1]
  IN  Box(<<tile, lo, IF ReversedY(t) THEN l[2] ELSE f[2], box.first[4]>>,
          <<tile, hi, IF ReversedY(t) THEN f[2] ELSE l[2], box.last[4]>>)

----------------------------------------------------------------------------
(* halo_generator::operator(): below (with the corners), left, right and   *)
(* above (with the corners), each cut by the tile and then by the squares  *)
(* on its four sides.                                                      *)
CubedHalos(hgen, dom) ==
  LET c    == hgen.edge_size
      w    == hgen.widths
      tile == dom.first[1]
      lo   == dom.first
      hi   == dom.last
      span(x1, x2, y1, y2) == Box(<<tile, x1, y1, lo[4]>>, <<tile, x2, y2, hi[4]>>)
      around == <<span(lo[2] - w[1], hi[2] + w[2], lo[3] - w[3], lo[3] - 1),
                  span(lo[2] - w[1], lo[2] - 1, lo[3], hi[3]),
                  span(hi[2] + 1, hi[2] + w[2], lo[3], hi[3]),
                  span(lo[2] - w[1], hi[2] + w[2], hi[3] + 1, hi[3] + w[4])>>
      square(dx, dy) == span(dx, dx + c - 1, dy, dy + c - 1)
      squares == <<square(0, 0), square(-c, 0), square(c, 0), square(0, -c), square(0, c)>>
      region(box) == Pair(Box(Minus(box.first, lo), Minus(box.last, lo)), box)
      cut(r, n) ==
        LET h == Intersect(region(around[r]), squares[n])
        IN  IF \E i \in {2, 3} : h.global.first[i] > h.global.last[i] THEN <<>>
            ELSE IF n = 1 THEN <<h>>
            ELSE <<Pair(h.local, TransformBox(transform_lu[tile][n - 1], tile_lu[tile][n - 1], h.global, c))>>
  IN  FlattenSeq([r \in 1 .. 4 |-> FlattenSeq([n \in 1 .. 5 |-> cut(r, n)])])

(* halo_generator::intersect: nothing (a box from its last to its first    *)
(* cell) on different tiles; over an edge the local part is found from the *)
(* global one by the inverse transform.                                    *)
CubedIntersect(hgen, dom, halo, extent) ==
  LET tile == halo.global.first[1]
      both == Box(Upper(halo.global.first, extent.first), Lower(halo.global.last, extent.last))
      back == TransformBox(inverse_transform_lu[dom.first[1]][Direction(dom.first[1], tile)],
                           dom.first[1], both, hgen.edge_size)
      local(b, z) == [Minus(b, dom.first) EXCEPT ![4] = z]
      \* the levels are shifted, not transformed
      z1 == halo.local.first[4] + both.first[4] - halo.global.first[4]
      z2 == halo.local.last[4] + both.last[4] - halo.global.last[4]
  IN  IF tile # extent.first[1]
      THEN Pair(Box(halo.local.last, halo.local.first), Box(halo.global.last, halo.global.first))
      ELSE IF tile # dom.first[1] THEN Pair(Box(local(back.first, z1), local(back.last, z2)), both)
      ELSE Intersect(halo, extent)

(* The transform that unpack uses for data from another tile.              *)
UnpackTransform(tile, other) ==
  IF other = tile THEN IdentityTransform ELSE transform_lu[tile][Direction(tile, other)]

----------------------------------------------------------------------------
(* By definition: the tiles are faces of a cube of edge 2c.  Each one has  *)
(* the vertex of the cube at its origin, the directions of its x and y in  *)
(* space, and the outer normal; cells have their centers at odd distances. *)
Face ==
  0 :> [o |-> <<0, 0, 0>>, u |-> <<1, 0, 0>>,  v |-> <<0, 0, 1>>,  n |-> <<0, -1, 0>>] @@
  1 :> [o |-> <<1, 0, 0>>, u |-> <<0, 1, 0>>,  v |-> <<0, 0, 1>>,  n |-> <<1, 0, 0>>] @@
  2 :> [o |-> <<1, 0, 1>>, u |-> <<0, 1, 0>>,  v |-> <<-1, 0, 0>>, n |-> <<0, 0, 1>>] @@
  3 :> [o |-> <<1, 1, 1>>, u |-> <<0, 0, -1>>, v |-> <<-1, 0, 0>>, n |-> <<0, 1, 0>>] @@
  4 :> [o |-> <<0, 1, 1>>, u |-> <<0, 0, -1>>, v |-> <<0, -1, 0>>, n |-> <<-1, 0, 0>>] @@
  5 :> [o |-> <<0, 1, 0>>, u |-> <<1, 0, 0>>,  v |-> <<0, -1, 0>>, n |-> <<0, 0, -1>>]

(* What sticks out over an edge is folded down onto the next face; there   *)
(* is nothing over two edges, at a vertex of the cube.                     *)
NoCell == <<-1, 0, 0, 0>>
Folded(c, cell) ==
  LET f == Face[cell[1]]
      clip(a) == IF a < 0 THEN 0 ELSE IF a > 2 * c THEN 2 * c ELSE a
      over(a) == IF a < 0 THEN -a ELSE IF a > 2 * c THEN a - 2 * c ELSE 0
      at(g, x, y) ==
        LET a == 2 * x + 1  b == 2 * y + 1
        IN  Coord([i \in 1 .. 3 |-> 2 * c * g.o[i] + clip(a) * g.u[i] + clip(b) * g.v[i]
                                                  - (over(a) + over(b)) * g.n[i]])
      point == at(f, cell[2], cell[3])
      out(x) == x < 0 \/ x >= c
  IN  IF out(cell[2]) /\ out(cell[3]) THEN NoCell
      ELSE CHOOSE x \in {<<t, i, j, cell[4]>> : t \in Tiles, i \in 0 .. c - 1, j \in 0 .. c - 1} :
             at(Face[x[1]], x[2], x[3]) = point
=============================================================================
