---------------------------- MODULE MCPatterns ----------------------------
(***************************************************************************)
(* Halos from the domains to the data: the patterns of structured grids,   *)
(* regular and cubed, the staged patterns of regular grids, the patterns   *)
(* and exchanges of unstructured meshes, the transfer of halos between     *)
(* structured fields, and exchanges on devices.  A behaviour is one of one *)
(* part; the other parts have no ranks, no meshes and no fields in it.     *)
(***************************************************************************)
EXTENDS StructuredPattern, StagedPattern, UnstructuredExchange, FieldTransfer, GpuExchange

----------------------------------------------------------------------------
\* Regular grids of 4 x 4 cells: domains of different size, ids that are not
\* in the order of ranks, several domains on a rank, a domain that is its own
\* neighbor.
Regular(split, below, above, periodic) ==
  [domains |-> [r \in 0 .. Len(split) - 1 |-> split[r + 1]],
   hgen |-> HaloGenerator(<<0, 0>>, <<3, 3>>, below, above, periodic)]

Whole  == << <<Domain(5, <<0, 0>>, <<3, 3>>)>> >>
Square == << <<Domain(0, <<0, 0>>, <<1, 1>>), Domain(3, <<2, 0>>, <<3, 1>>)>>,
             <<Domain(1, <<0, 2>>, <<1, 3>>), Domain(2, <<2, 2>>, <<3, 3>>)>> >>
Three  == << <<Domain(0, <<0, 0>>, <<1, 1>>)>>,
             <<Domain(2, <<2, 0>>, <<3, 1>>), Domain(1, <<0, 2>>, <<1, 3>>)>>,
             <<Domain(3, <<2, 2>>, <<3, 3>>)>> >>
Uneven == << <<Domain(5, <<0, 0>>, <<3, 1>>)>>,
             <<Domain(4, <<0, 2>>, <<1, 3>>), Domain(3, <<2, 2>>, <<3, 3>>)>> >>
Rows   == << <<Domain(5, <<0, 0>>, <<3, 1>>)>>, <<Domain(4, <<0, 2>>, <<3, 3>>)>> >>

Periods == {<<TRUE, FALSE>>, <<TRUE, TRUE>>, <<FALSE, FALSE>>}

\* Cubes of edge 2 with two ranks: tiles in p are split into four domains.
Tile(levels, t, p) ==
  IF t \in p
  THEN [k \in 1 .. 4 |-> LET x == <<(k - 1) % 2, (k - 1) \div 2>> IN CubeDomain(2, levels, t, x, x)]
  ELSE <<CubeDomain(2, levels, t, <<0, 0>>, <<1, 1>>)>>
Cube(levels, p, widths) ==
  LET all == FlattenSeq([t \in 1 .. 6 |-> Tile(levels, t - 1, p)])
  IN  [domains |-> [r \in 0 .. 1 |-> [k \in 1 .. (Len(all) + 1 - r) \div 2 |-> all[2 * k - 1 + r]]],
       hgen |-> CubeHalos(widths, 2)]

MCGrids ==
  {Regular(s, b, a, p) : s \in {Whole, Square, Three, Uneven}, b \in {<<0, 0>>, <<1, 2>>},
                         a \in {<<1, 1>>, <<2, 0>>}, p \in Periods}
    \cup {Cube(2, {0}, w) : w \in {<<1, 1, 1, 1>>, <<2, 2, 2, 2>>, <<1, 0, 2, 1>>}}
    \cup {Cube(1, {}, <<1, 1, 1, 1>>)}

MCStagedGrids ==
  {Regular(s, w[1], w[2], p) : s \in {Whole, Square, Three, Rows}, p \in Periods,
     w \in {<<<<1, 1>>, <<1, 1>>>>, <<<<0, 2>>, <<0, 1>>>>, <<<<2, 1>>, <<1, 2>>>>}}

----------------------------------------------------------------------------
\* A mesh of six vertices on two ranks, and one of two levels.
MCMeshes ==
  {[levels |-> 1,
    domains |-> 0 :> <<FromAdjacency(2, <<1, 2>>, {2, 1, 3, 4}), FromAdjacency(0, <<3, 4>>, {3, 4, 2, 6})>>
             @@ 1 :> <<FromAdjacency(1, <<6, 5>>, {4, 5, 6, 1})>>],
   [levels |-> 2,
    domains |-> 0 :> <<FromAdjacency(0, <<1, 2>>, {1, 2, 4, 3})>>
             @@ 1 :> <<Descriptor(1, <<3, 4, 1, 2>>, 2)>>]}
MCPassed == [inplace |-> <<<<"f", "g">>, <<"f", "g">>>>, copy |-> <<<<"f", "g">>, <<"g">>>>]

----------------------------------------------------------------------------
\* Fields of two neighboring domains of a regular grid, with and without
\* components, and of a tile of a cube of edge 2 with the tiles around it.
Moved(box, by) == Box(Plus(box.first, by), Plus(box.last, by))
Flat ==
  {[edge_size |-> 0, layout |-> l, arch |-> a, first |-> <<<<5, 3>>, <<7, 3>>>>,
    offsets |-> <<<<1, 1>>, <<2, 1>>>>, extents |-> <<<<4, 4>>, <<4, 3>>>>, components |-> Len(l) - 1,
    halos |-> [send |-> [j \in DOMAIN s |-> Pair(s[j], Moved(s[j], <<5, 3>>))],
               recv |-> [j \in DOMAIN s |-> Pair(Moved(s[j], <<-2, 0>>), Moved(s[j], <<5, 3>>))]]] :
     l \in {<<0, 1>>, <<1, 0>>, <<0, 1, 2>>, <<0, 2, 1>>, <<1, 0, 2>>, <<1, 2, 0>>, <<2, 0, 1>>, <<2, 1, 0>>},
     a \in {"cpu", "gpu"} \X {"cpu", "gpu"},
     s \in {<<Box(<<0, 0>>, <<1, 0>>)>>, <<Box(<<0, 0>>, <<0, 1>>)>>,
            <<Box(<<1, 0>>, <<1, 1>>), Box(<<0, 1>>, <<0, 1>>)>>}}

TileDomains == [t \in Tiles |-> CubeDomain(2, 2, t, <<0, 0>>, <<1, 1>>)]
TileHalos ==
  LET hgen == CubeHalos(<<1, 1, 1, 1>>, 2)
      own(t, n) == CubedHalos(hgen, TileDomains[t])[n]
  IN  [t \in Tiles |-> [n \in Directions |->
        LET h == own(t, n)
        IN  CubedIntersect(hgen, TileDomains[t], h, Box(TileDomains[h.global.first[1]].first,
                                                        TileDomains[h.global.first[1]].last))]]
Turned(t, n, l, a) ==
  LET h == TileHalos[t][n]
      from == TileDomains[h.global.first[1]]
  IN  [edge_size |-> 2, layout |-> l, arch |-> a, first |-> <<from.first, TileDomains[t].first>>,
       offsets |-> <<<<1, 1, 0>>, <<1, 1, 0>>>>, extents |-> <<<<4, 4, 2>>, <<4, 4, 2>>>>, components |-> 2,
       halos |-> [recv |-> <<h>>,
                  send |-> <<Pair(Box(Minus(h.global.first, from.first), Minus(h.global.last, from.first)),
                                  h.global)>>]]
MCTransfers ==
  Flat \cup {Turned(t, n, l, a) : t \in Tiles, n \in Directions, l \in {<<3, 2, 1, 0>>, <<1, 2, 3, 0>>},
                                  a \in {<<"cpu", "gpu">>, <<"gpu", "cpu">>}}

----------------------------------------------------------------------------
\* Exchanges on devices: few blocks of one kernel each, with two messages of a
\* rank, or messages one way only, whose sender may be any number of exchanges
\* ahead, and numbers of blocks around what one kernel takes.
GpuMessage(from, blocks) == [from |-> from, to |-> 1 - from, blocks |-> blocks]
MCExchanges ==
  {[variant |-> v, messages |-> <<GpuMessage(0, 2), GpuMessage(1, 1)>>] : v \in {"plain", "fat", "u_fat"}}
    \cup {[variant |-> "plain", messages |-> <<GpuMessage(0, 1), GpuMessage(0, 1), GpuMessage(1, 1)>>],
          [variant |-> "u_fat", messages |-> <<GpuMessage(0, 2)>>]}
    \cup {[variant |-> "u", messages |-> <<GpuMessage(0, a), GpuMessage(1, b)>>] : a \in {7, 35}, b \in {34, 69}}

----------------------------------------------------------------------------
VARIABLE active   \* the part of this behaviour

allvars == <<active, pvars, svars, uvars, xvars, fvars, gvars>>

NoGrid == [domains |-> <<>>, hgen |-> <<>>]
NoMesh == [domains |-> <<>>, levels |-> 1]

PatternIdle ==
  /\ turn = <<>> /\ entered = <<>> /\ recv_map = <<>> /\ send_map = <<>> /\ send_halos_map = <<>>
  /\ max_tag = <<>> /\ announced = <<>> /\ outbox = <<>> /\ pending = <<>>
StagedIdle ==
  /\ stage = <<>> /\ staged = <<>> /\ todo = <<>> /\ awaited = <<>> /\ received = <<>>
GridIdle ==
  /\ grid = NoGrid /\ eager = TRUE /\ pc = <<>> /\ chan = <<>>
MeshIdle ==
  /\ mesh = NoMesh /\ hints = TRUE /\ call = <<>> /\ inside = {} /\ given = <<>> /\ patterns = <<>>
  /\ style = "copy" /\ buffering = TRUE /\ opc = <<>> /\ object = <<>> /\ round = <<>> /\ memory = <<>>
  /\ recv_memory = <<>> /\ posted = <<>> /\ buffers = <<>> /\ net = <<>>
FieldIdle ==
  /\ src = <<>> /\ dst = <<>> /\ target = <<>> /\ containers = <<>> /\ buffer = <<>> /\ phase = "exchange"
GpuIdle ==
  /\ ex = [variant |-> "plain", messages |-> <<>>] /\ host = <<>> /\ grounds = <<>> /\ computed = <<>>
  /\ send_mem = <<>> /\ recv_mem = <<>> /\ filled = <<>> /\ streams = <<>> /\ packing = {}
  /\ flying = {} /\ buffered = <<>> /\ arrived = {} /\ unpacked = {}

MCInit ==
  \/ active = "pattern" /\ PatternInit /\ StagedIdle /\ MeshIdle /\ FieldIdle /\ GpuIdle
  \/ active = "staged" /\ StagedInit /\ PatternIdle /\ MeshIdle /\ FieldIdle /\ GpuIdle
  \/ active = "mesh" /\ MeshInit /\ GridIdle /\ PatternIdle /\ StagedIdle /\ FieldIdle /\ GpuIdle
  \/ active = "field" /\ TransferInit /\ GridIdle /\ PatternIdle /\ StagedIdle /\ MeshIdle /\ GpuIdle
  \/ active = "gpu" /\ GpuInit /\ GridIdle /\ PatternIdle /\ StagedIdle /\ MeshIdle /\ FieldIdle

PatternPart(r) ==
  /\ active = "pattern" /\ r \in Ranks /\ PatternStep(r)
  /\ UNCHANGED <<active, stage, staged, todo, awaited, received, uvars, xvars, fvars, gvars>>
StagedPart(r) ==
  /\ active = "staged" /\ r \in Ranks /\ StagedStep(r)
  /\ UNCHANGED <<active, turn, entered, recv_map, send_map, send_halos_map, max_tag, announced, outbox, pending,
                 uvars, xvars, fvars, gvars>>
MeshPart(r) ==
  /\ active = "mesh" /\ MeshStep(r)
  /\ UNCHANGED <<active, pvars, svars, fvars, gvars>>
FieldPart ==
  /\ active = "field" /\ TransferNext
  /\ UNCHANGED <<active, pvars, svars, uvars, xvars, gvars>>
GpuPart ==
  /\ active = "gpu" /\ GpuNext
  /\ UNCHANGED <<active, pvars, svars, uvars, xvars, fvars>>

RankPart(r) == PatternPart(r) \/ StagedPart(r) \/ MeshPart(r)

\* The fairness of PatternSpec, StagedSpec and MeshSpec: all ranks run.
MCSpec == /\ MCInit /\ [][(\E r \in 0 .. MaxRanks - 1 : RankPart(r)) \/ FieldPart \/ GpuPart]_allvars
          /\ \A r \in 0 .. MaxRanks - 1 : WF_allvars(RankPart(r))
=============================================================================
