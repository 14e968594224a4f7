--------------------------- MODULE StagedPattern ---------------------------
(***************************************************************************)
(* Construction of the staged patterns of a regular grid: one pattern for  *)
(* each dimension, exchanged one after the other, so that corners come     *)
(* through neighbors along the axes.  The domains around a domain are      *)
(* looked up; what the ranks have to tell each other is the tags.          *)
(***************************************************************************)
EXTENDS GridRanks

CONSTANT StagedGrids   \* cartesian decompositions with a halo generator

VARIABLES
  stage,
  staged,    \* my_patterns: for each rank, domain and stage the halos
  todo,      \* destinations a rank has still to send its tags to
  awaited,   \* sources that a receive is posted for in this stage
  received   \* send_tag_map of this stage: the tags that have arrived

svars == <<grid, eager, pc, stage, staged, todo, awaited, received, chan>>

Stages == 1 .. Len(grid.hgen.first)

----------------------------------------------------------------------------
(* The domain look-up d_lu: the domain next to dom along dimension i.      *)
Neighbor(g, dom, i, sign) ==
  LET inner == Minus(dom.last, dom.first)
      next  == GridCell(g, dom, [Minus(inner, inner) EXCEPT ![i] = IF sign < 0 THEN -1 ELSE inner[i] + 1])
  IN  CHOOSE d \in AllDomains(g) : Inside(next, DomainAt(g, d))

HasLeft(g, dom, i)  == g.hgen.below[i] > 0 /\ (g.hgen.periodic[i] \/ dom.first[i] - g.hgen.below[i] >= g.hgen.first[i])
HasRight(g, dom, i) == g.hgen.above[i] > 0 /\ (g.hgen.periodic[i] \/ dom.last[i] + g.hgen.above[i] <= g.hgen.last[i])

\* A cartesian decomposition, in which a domain is the neighbor of its neighbors;
\* otherwise ranks and ids as in StructuredPattern.
Adjacent(g, d, i) ==
  LET dom == DomainAt(g, d)
  IN  {Neighbor(g, dom, i, sign) : sign \in {s \in {-1, 1} : IF s < 0 THEN HasLeft(g, dom, i) ELSE HasRight(g, dom, i)}}
ASSUME StagedGridsType ==
  \A g \in StagedGrids :
    /\ IsFiniteSet(RanksOf(g)) /\ RanksOf(g) = 0 .. Cardinality(RanksOf(g)) - 1
    /\ IsFiniteSet(AllDomains(g))
    /\ \A e \in AllDomains(g) : e[2] \in Int /\ DomainAt(g, e).id \in Int
    /\ \A d, e \in AllDomains(g) : DomainAt(g, d).id = DomainAt(g, e).id => d = e
    /\ g.hgen.first \in Seq(Int) /\ g.hgen.first # <<>>
    /\ \A d \in AllDomains(g), i \in DOMAIN g.hgen.first :
         \A e \in Adjacent(g, d, i) : e \in AllDomains(g) /\ d \in Adjacent(g, e, i)

\* Mutant of Grown: the box does not grow from stage to stage.
GrownNever(g, dom, i) == Box(Minus(dom.first, dom.first), Minus(dom.last, dom.first))

(* is_pair, in local coordinates, when it comes to dimension i: grown by   *)
(* the halos of the dimensions before.                                     *)
Grown(g, dom, i) ==
  LET inner == Minus(dom.last, dom.first)
  IN  Box(Coord([j \in DOMAIN inner |-> IF j < i /\ HasLeft(g, dom, j) THEN -g.hgen.below[j] ELSE 0]),
          Coord([j \in DOMAIN inner |-> inner[j] + IF j < i /\ HasRight(g, dom, j) THEN g.hgen.above[j] ELSE 0]))

(* A slice of a box along dimension i.                                     *)
Slice(box, i, first, last) == Box([box.first EXCEPT ![i] = first], [box.last EXCEPT ![i] = last])

(* The halos of a domain in stage i with the domain on the other side, in  *)
(* the order they are added: left before right to receive, and the sides   *)
(* they fill on the other domain in the same order to send.                *)
RecvSlices(g, dom, i) ==
  LET box == Grown(g, dom, i)
  IN  (IF HasLeft(g, dom, i)
       THEN <<[with |-> Neighbor(g, dom, i, -1), space |-> Slice(box, i, -g.hgen.below[i], -1)]>> ELSE <<>>) \o
      (IF HasRight(g, dom, i)
       THEN <<[with |-> Neighbor(g, dom, i, 1),
               space |-> Slice(box, i, box.last[i] + 1, box.last[i] + g.hgen.above[i])]>> ELSE <<>>)
SendSlices(g, dom, i) ==
  LET box == Grown(g, dom, i)
  IN  (IF HasRight(g, dom, i)
       THEN <<[with |-> Neighbor(g, dom, i, 1),
               space |-> Slice(box, i, box.last[i] + 1 - g.hgen.below[i], box.last[i])]>> ELSE <<>>) \o
      (IF HasLeft(g, dom, i)
       THEN <<[with |-> Neighbor(g, dom, i, -1), space |-> Slice(box, i, 0, g.hgen.above[i] - 1)]>> ELSE <<>>)

(* recv_halos or send_halos: slices with the same domain in one entry.     *)
SpacesWith(g, slices, id) ==
  LET own == SelectSeq(slices, LAMBDA s : DomainAt(g, s.with).id = id)
  IN  [n \in DOMAIN own |-> own[n].space]
HaloMap(g, slices) ==
  LET sides == {slices[n].with : n \in DOMAIN slices}
      named(id) == CHOOSE d \in sides : DomainAt(g, d).id = id
  IN  [id \in {DomainAt(g, d).id : d \in sides} |->
         [rank |-> named(id)[1], tag |-> 0, spaces |-> SpacesWith(g, slices, id)]]
Built ==
  [g \in StagedGrids |-> [r \in RanksOf(g) |-> [n \in DOMAIN g.domains[r] |-> [i \in DOMAIN g.hgen.first |->
     LET dom == g.domains[r][n]
     IN  [recv |-> HaloMap(g, RecvSlices(g, dom, i)), send |-> HaloMap(g, SendSlices(g, dom, i))]]]]]

----------------------------------------------------------------------------
IdOf(r, n) == grid.domains[r][n].id

(* What of the halos of r in stage i is on rank q.                         *)
With(r, q, i, side) ==
  UNION {{<<n, id>> : id \in {k \in DOMAIN staged[r][n][i][side] : staged[r][n][i][side][k].rank = q}} :
         n \in DOMAIN staged[r]}
PeersOf(r, i, side) == {q \in Ranks : With(r, q, i, side) # {}}

\* Mutant of StagedTag: each domain starts its tags at zero.
StagedTagOfDomain(r, n, id, i) ==
  Cardinality({e \in With(r, staged[r][n][i]["recv"][id].rank, i, "recv") : e[1] = n /\ e[2] < id})

(* tag_map: receives from one rank are counted over domains and senders.   *)
StagedTag(r, n, id, i) ==
  Cardinality({e \in With(r, staged[r][n][i]["recv"][id].rank, i, "recv") :
                 e[1] < n \/ (e[1] = n /\ e[2] < id)})
TagItems(r, q, i) ==
  {[source_id |-> e[2], dest_id |-> IdOf(r, e[1]), tag |-> StagedTag(r, e[1], e[2], i)] : e \in With(r, q, i, "recv")}

(* The patterns s with the tags t on the halos of one side in stage i.     *)
Retagged(s, i, side, t) ==
  [n \in DOMAIN s |-> [s[n] EXCEPT ![i] = [s[n][i] EXCEPT ![side] =
     [id \in DOMAIN s[n][i][side] |-> [s[n][i][side][id] EXCEPT !.tag = t[n][id]]]]]]

----------------------------------------------------------------------------
StagedInit ==
  /\ grid \in StagedGrids
  /\ eager \in BOOLEAN
  /\ pc = [r \in Ranks |-> "halos"]
  /\ stage = [r \in Ranks |-> 1]
  /\ staged = [r \in Ranks |-> <<>>]
  /\ todo = [r \in Ranks |-> <<>>]
  /\ awaited = [r \in Ranks |-> {}]
  /\ received = [r \in Ranks |-> [q \in Ranks |-> {}]]
  /\ chan = [p \in Ranks \X Ranks |-> <<>>]

BuildHalos(r) ==
  /\ pc[r] = "halos"
  /\ staged' = [staged EXCEPT ![r] = Built[grid][r]]
  /\ pc' = [pc EXCEPT ![r] = "tags"]
  /\ UNCHANGED <<grid, eager, stage, todo, awaited, received, chan>>

(* Numbers the receive tags of a stage and posts a receive for each rank   *)
(* that will say how it has numbered what r sends.                         *)
PostReceives(r) ==
  LET i == stage[r]
  IN  /\ pc[r] = "tags"
      /\ staged' = [staged EXCEPT ![r] =
           Retagged(@, i, "recv", [n \in DOMAIN @ |-> [id \in DOMAIN @[n][i].recv |-> StagedTag(r, n, id, i)]])]
      /\ awaited' = [awaited EXCEPT ![r] = PeersOf(r, i, "send")]
      /\ todo' = [todo EXCEPT ![r] = Ascending(PeersOf(r, i, "recv"))]
      /\ pc' = [pc EXCEPT ![r] = "send"]
      /\ UNCHANGED <<grid, eager, stage, received, chan>>

(* MPI_Send in the order of ranks; it may have to wait for the receive.    *)
SendTags(r) ==
  /\ pc[r] = "send" /\ todo[r] # <<>>
  /\ LET q == Head(todo[r])
     IN  /\ eager \/ (r \in awaited[q] /\ chan[<<r, q>>] = <<>>)
         /\ chan' = [chan EXCEPT ![<<r, q>>] = Append(@, TagItems(r, q, stage[r]))]
  /\ todo' = [todo EXCEPT ![r] = Tail(@)]
  /\ UNCHANGED <<grid, eager, pc, stage, staged, awaited, received>>

(* MPI completes the receive that r has posted for q.                      *)
DeliverTags(r) ==
  \E q \in awaited[r] :
    /\ chan[<<q, r>>] # <<>>
    /\ received' = [received EXCEPT ![r][q] = Head(chan[<<q, r>>])]
    /\ chan' = [chan EXCEPT ![<<q, r>>] = Tail(@)]
    /\ awaited' = [awaited EXCEPT ![r] = @ \ {q}]
    /\ UNCHANGED <<grid, eager, pc, stage, staged, todo>>

(* MPI_Waitall; then each send halo gets the tag that its receiver gave.   *)
WaitAll(r) ==
  LET i == stage[r]
      item(n, id) == CHOOSE x \in received[r][staged[r][n][i].send[id].rank] :
                       x.source_id = IdOf(r, n) /\ x.dest_id = id
  IN  /\ pc[r] = "send" /\ todo[r] = <<>> /\ awaited[r] = {}
      /\ staged' = [staged EXCEPT ![r] =
           Retagged(@, i, "send", [n \in DOMAIN @ |-> [id \in DOMAIN @[n][i].send |-> item(n, id).tag]])]
      /\ stage' = [stage EXCEPT ![r] = i + 1]
      /\ pc' = [pc EXCEPT ![r] = IF i + 1 \in Stages THEN "tags" ELSE "staged"]
      /\ UNCHANGED <<grid, eager, todo, awaited, received, chan>>

StagedStep(r) == BuildHalos(r) \/ PostReceives(r) \/ SendTags(r) \/ DeliverTags(r) \/ WaitAll(r)

StagedNext == \E r \in Ranks : StagedStep(r)

(* The operating system runs every rank and MPI delivers.                  *)
StagedSpec == StagedInit /\ [][StagedNext]_svars
                         /\ \A r \in 0 .. MaxRanks - 1 : WF_svars(r \in Ranks /\ StagedStep(r))

----------------------------------------------------------------------------
AllStaged == \A r \in Ranks : pc[r] = "staged"

(* What fills each receive halo in an exchange: the send halos of domains  *)
(* of the rank q it is received from, to the rank of the receiver, under   *)
(* its tag.                                                                *)
Senders(r, q, tag, i) ==
  UNION {{<<<<q, m>>, staged[q][m][i].send[id].spaces>> : id \in
            {k \in DOMAIN staged[q][m][i].send : staged[q][m][i].send[k].rank = r /\ staged[q][m][i].send[k].tag = tag}} :
         m \in DOMAIN staged[q]}
Routes ==
  [d \in AllDomains(grid) |-> [i \in Stages |->
     LET recv == staged[d[1]][d[2]][i].recv
     IN  [id \in DOMAIN recv |-> [into |-> recv[id].spaces, from |-> Senders(d[1], recv[id].rank, recv[id].tag, i)]]]]

(* What is to fill it: the halo that the domain with its id sends to d.    *)
Intended(g) ==
  [d \in AllDomains(g) |-> [i \in DOMAIN g.hgen.first |->
     LET recv == Built[g][d[1]][d[2]][i].recv
         source(id) == CHOOSE e \in AllDomains(g) : DomainAt(g, e).id = id
         sent(e) == Built[g][e[1]][e[2]][i].send[DomainAt(g, d).id]
     IN  [id \in DOMAIN recv |-> [into |-> recv[id].spaces, from |-> {<<source(id), sent(source(id)).spaces>>}]]]]

(* What is in a cell when the patterns of all stages have been exchanged   *)
(* along these routes: the cell of the grid whose data it holds.           *)
Nothing == <<>>
Exchanged(g, routes, d, x) ==
  LET after[i \in 0 .. Len(x)] == [e \in AllDomains(g) |-> [y \in Cells(Grown(g, DomainAt(g, e), i + 1)) |->
        IF i = 0 THEN GridCell(g, DomainAt(g, e), y)
        ELSE LET hits == {h \in (DOMAIN routes[e][i]) \X (1 .. 2) :
                            LET into == routes[e][i][h[1]].into
                            IN  h[2] \in DOMAIN into /\ Inside(y, into[h[2]])}
             IN  IF hits = {} THEN after[i - 1][e][y]
                 ELSE LET h == CHOOSE h \in hits : TRUE
                          route == routes[e][i][h[1]]
                          into == route.into[h[2]]
                          s == CHOOSE s \in route.from : TRUE
                          from == s[2][h[2]]
                          z == Plus(from.first, Minus(y, into.first))
                      IN  IF Cardinality(route.from) = 1 /\ Extents(from) = Extents(into)
                          THEN after[i - 1][s[1]][z] ELSE Nothing]]
  IN  IF x \in DOMAIN after[Len(x)][d] THEN after[Len(x)][d][x] ELSE Nothing
Filled(g, routes) ==
  \A d \in AllDomains(g) : \A x \in HaloCells(g, DomainAt(g, d)) :
    LET cell == GridCell(g, DomainAt(g, d), x)
    IN  Inside(cell, g.hgen) => Exchanged(g, routes, d, x) = cell

(* What the slices are meant to do on a grid: going where they are meant   *)
(* to, they fill the halo cells.                                           *)
StagesCover(g) == Filled(g, Intended(g))

(* The tags of a stage, counted by each receiver and told to the senders   *)
(* while some ranks are stages ahead of others, route to every receive     *)
(* halo the one send halo of the domain that it names.                     *)
TagsRoute == AllStaged => Routes = Intended(grid)

(* Exchanging the patterns stage by stage fills every halo cell that is in *)
(* the grid, the corners included, with the data of that cell, whatever    *)
(* the numbers of domains on a rank and along a dimension.                 *)
StagedHalosFilled == AllStaged => Filled(grid, Routes)
=============================================================================
