------------------------ MODULE UnstructuredPattern ------------------------
(***************************************************************************)
(* Construction of the patterns of an unstructured mesh.  Vertices have    *)
(* global numbers; a domain holds its inner vertices and then its halo.    *)
(* Without hints every rank gathers the halos of all domains, looks up     *)
(* what it owns and tells the receivers which places of their halos it     *)
(* will fill.  With hints (receive domain ids) a rank knows where its halo *)
(* comes from and tells the owners what to send.                           *)
(***************************************************************************)
EXTENDS Integers, FiniteSets, SequencesExt

CONSTANT Meshes   \* [domains |-> domains of each rank, levels |-> levels of a vertex]

(* domain_descriptor: from vertices and their neighbors, whose difference  *)
(* is the halo, or from vertices in any order with the inner ones first.   *)
Descriptor(id, vertices, inner_size) == [id |-> id, vertices |-> vertices, inner_size |-> inner_size]
FromAdjacency(id, inner, adjncy) ==
  Descriptor(id, inner \o SetToSortSeq(adjncy \ ToSet(inner), <), Len(inner))

Inner(d) == SubSeq(d.vertices, 1, d.inner_size)
(* halo_generator.                                                         *)
Halo(d)  == SubSeq(d.vertices, d.inner_size + 1, Len(d.vertices))

VARIABLES
  mesh,
  hints,     \* a generator of receive domain ids is given
  call,      \* the collective operation that a rank is at
  inside,    \* ranks that have entered theirs
  given,     \* what each rank gives to each operation
  patterns   \* my_patterns: for each rank the halos of its domains

uvars == <<mesh, hints, call, inside, given, patterns>>

MeshRanks == DOMAIN mesh.domains

(* With hints patterns are built in the order of domain ids.               *)
Domains(r) == IF hints THEN SortSeq(mesh.domains[r], LAMBDA d, e : d.id < e.id) ELSE mesh.domains[r]

Calls == IF hints THEN <<"domains", "ids", "addresses", "max", "counts", "indices">>
                  ELSE <<"domains", "ids", "sizes", "halos", "addresses", "counts", "indices">>

(* Tags hold two domain ids of seven bits.                                 *)
Tag(from, to) == (from * 128) + to

MaxTag == LET top == CHOOSE i \in UNION {ToSet(given["ids"][r]) : r \in MeshRanks} :
                       \A r \in MeshRanks : \A j \in ToSet(given["ids"][r]) : j <= i
          IN  Tag(top, top)

(* An entry of a halo map; the map keeps the first of two with one key.    *)
Entry(id, rank, tag, indices) == [id |-> id, rank |-> rank, tag |-> tag, indices |-> indices]
\* Mutant of MapOf: halos are told apart by rank alone.
MapOfRanks(entries) ==
  {entries[n] : n \in {m \in DOMAIN entries : \A l \in 1 .. m - 1 : entries[l].rank # entries[m].rank}}

MapOf(entries) ==
  {entries[n] : n \in {m \in DOMAIN entries : \A l \in 1 .. m - 1 :
     <<entries[l].rank, entries[l].tag>> # <<entries[m].rank, entries[m].tag>>}}

----------------------------------------------------------------------------
(* Without hints.                                                          *)

(* The places that a sequence of halos has before its p-th.                *)
Before(sizes, p) == FoldLeft(LAMBDA a, b : a + b, 0, SubSeq(sizes, 1, p - 1))

(* The halo of domain j of q, cut out of what q has given.                 *)
HaloOf(q, j) ==
  LET first == Before(given["sizes"][q], j)
  IN  SubSeq(given["halos"][q], first + 1, first + given["sizes"][q][j])

(* The places of that halo with a vertex that domain p of r owns.          *)
Owned(r, p, q, j) ==
  LET halo == HaloOf(q, j)  owned == ToSet(Inner(Domains(r)[p]))
  IN  SelectSeq([n \in DOMAIN halo |-> n], LAMBDA n : halo[n] \in owned)

SendEntries(r, p, q) ==
  LET d == Domains(r)[p]
      entry(j) == LET other == given["ids"][q][j]
                      own == Owned(r, p, q, j)
                      local(n) == CHOOSE i \in 0 .. d.inner_size - 1 : d.vertices[i + 1] = HaloOf(q, j)[n]
                  IN  IF own = <<>> THEN <<>>
                      ELSE <<Entry(other, q, Tag(d.id, other), [k \in DOMAIN own |-> local(own[k])])>>
  IN  FlattenSeq([j \in 1 .. given["domains"][q] |-> entry(j)])

(* What r tells q: how much each domain sends, and to which places.        *)
SendCounts(r, q) ==
  [p \in DOMAIN Domains(r) |->
     Len(FlattenSeq([j \in 1 .. given["domains"][q] |-> Owned(r, p, q, j)]))]
SendPlaces(r, q) ==
  LET places(p, j) ==
        LET own == Owned(r, p, q, j)
        IN  [k \in DOMAIN own |-> Before(given["sizes"][q], j) + own[k] - 1]
  IN  FlattenSeq([p \in DOMAIN Domains(r) |->
                   FlattenSeq([j \in 1 .. given["domains"][q] |-> places(p, j)])])

\* Mutant of RecvEntries: places of the domains after p are taken as well.
RecvEntriesUnbounded(r, p, q) ==
  LET d == Domains(r)[p]
      start == Before([n \in DOMAIN Domains(r) |-> Len(Halo(Domains(r)[n]))], p)
      counts == given["counts"][q][r]
      entry(j) ==
        LET first == Before(counts, j)
            places == SelectSeq(SubSeq(given["indices"][q][r], first + 1, first + counts[j]),
                                LAMBDA x : x >= start)
        IN  IF places = <<>> THEN <<>>
            ELSE <<Entry(given["ids"][q][j], q, Tag(given["ids"][q][j], d.id),
                         [k \in DOMAIN places |-> places[k] - start + d.inner_size])>>
  IN  FlattenSeq([j \in 1 .. given["domains"][q] |-> entry(j)])

(* The receive halo of domain p of r from domain j of q: the places in the *)
(* range of p, which come after the inner vertices.                        *)
RecvEntries(r, p, q) ==
  LET d == Domains(r)[p]
      start == Before([n \in DOMAIN Domains(r) |-> Len(Halo(Domains(r)[n]))], p)
      counts == given["counts"][q][r]
      entry(j) ==
        LET first == Before(counts, j)
            places == SelectSeq(SubSeq(given["indices"][q][r], first + 1, first + counts[j]),
                                LAMBDA x : x >= start /\ x < start + Len(Halo(d)))
        IN  IF places = <<>> THEN <<>>
            ELSE <<Entry(given["ids"][q][j], q, Tag(given["ids"][q][j], d.id),
                         [k \in DOMAIN places |-> places[k] - start + d.inner_size])>>
  IN  FlattenSeq([j \in 1 .. given["domains"][q] |-> entry(j)])

----------------------------------------------------------------------------
(* With hints: the owner of each halo vertex and its index there.          *)
OwnerOf(v) == CHOOSE o \in UNION {{<<q, n>> : n \in DOMAIN mesh.domains[q]} : q \in MeshRanks} :
                v \in ToSet(Inner(mesh.domains[o[1]][o[2]]))
RecvDomainIds(d) ==
  LET halo == Halo(d)
  IN  [n \in DOMAIN halo |->
        LET o == OwnerOf(halo[n])
            owner == mesh.domains[o[1]][o[2]]
        IN  [id |-> owner.id, rank |-> o[1],
             index |-> CHOOSE i \in 0 .. owner.inner_size - 1 : owner.vertices[i + 1] = halo[n]]]

(* The places of the halo of d that come from domain id.                   *)
From(d, id) == LET hint == RecvDomainIds(d)
               IN  SelectSeq([n \in DOMAIN hint |-> n], LAMBDA n : hint[n].id = id)

HintedRecvs(r, p) ==
  LET d == Domains(r)[p]
      ids == SetToSortSeq({RecvDomainIds(d)[n].id : n \in DOMAIN Halo(d)}, <)
  IN  [k \in DOMAIN ids |->
        LET places == From(d, ids[k])
        IN  Entry(ids[k], RecvDomainIds(d)[places[1]].rank, Tag(ids[k], d.id),
                  [m \in DOMAIN places |-> d.inner_size + places[m] - 1])]

(* What r tells q: for each domain of q, in the order of ids, how much and *)
(* what each domain of r gets from it.                                     *)
RecvCounts(r, q) ==
  FlattenSeq([j \in DOMAIN given["ids"][q] |->
    [p \in DOMAIN Domains(r) |-> Len(From(Domains(r)[p], given["ids"][q][j]))]])
RecvIndices(r, q) ==
  LET indices(d, id) ==
        [k \in DOMAIN From(d, id) |-> RecvDomainIds(d)[From(d, id)[k]].index]
  IN  FlattenSeq([j \in DOMAIN given["ids"][q] |->
        FlattenSeq([p \in DOMAIN Domains(r) |-> indices(Domains(r)[p], given["ids"][q][j])])])

(* The send halo of domain p of r to domain j of q: the counts are read    *)
(* for each own domain and then each of q, the indices in the same order.  *)
HintedSends(r, p, q) ==
  LET counts == given["counts"][q][r]
      d == Domains(r)[p]
      entry(j) ==
        LET n == ((p - 1) * given["domains"][q]) + j
            first == Before(counts, n)
            other == given["ids"][q][j]
        IN  IF counts[n] = 0 THEN <<>>
            ELSE <<Entry(other, q, Tag(d.id, other),
                         SubSeq(given["indices"][q][r], first + 1, first + counts[n]))>>
  IN  FlattenSeq([j \in 1 .. given["domains"][q] |-> entry(j)])

----------------------------------------------------------------------------
UnstructuredInit ==
  /\ mesh \in Meshes
  /\ hints \in BOOLEAN
  /\ call = [r \in MeshRanks |-> 1]
  /\ inside = {}
  /\ given = [c \in ToSet(Calls) |-> <<>>]
  /\ patterns = [r \in MeshRanks |-> <<>>]

(* What a rank gives: one value to all, or a part for each other rank.     *)
Contribution(r, c) ==
  CASE c = "domains"   -> Len(Domains(r))
    [] c = "ids"       -> [p \in DOMAIN Domains(r) |-> Domains(r)[p].id]
    [] c = "sizes"     -> [p \in DOMAIN Domains(r) |-> Len(Halo(Domains(r)[p]))]
    [] c = "halos"     -> FlattenSeq([p \in DOMAIN Domains(r) |-> Halo(Domains(r)[p])])
    [] c = "addresses" -> r
    [] c = "max"       -> MaxTag
    [] c = "counts"    -> [q \in MeshRanks |-> IF hints THEN RecvCounts(r, q) ELSE SendCounts(r, q)]
    [] c = "indices"   -> [q \in MeshRanks |-> IF hints THEN RecvIndices(r, q) ELSE SendPlaces(r, q)]

Enter(r) ==
  /\ call[r] \in DOMAIN Calls /\ r \notin inside
  /\ LET c == Calls[call[r]]
     IN  given' = [given EXCEPT ![c] = [s \in DOMAIN @ \cup {r} |->
                     IF s = r THEN Contribution(r, c) ELSE given[c][s]]]
  /\ inside' = inside \cup {r}
  /\ UNCHANGED <<mesh, hints, call, patterns>>

(* A rank leaves all_gather and all_to_allv when everybody has come.       *)
Leave(r) ==
  /\ r \in inside
  /\ DOMAIN given[Calls[call[r]]] = MeshRanks
  /\ inside' = inside \ {r}
  /\ call' = [call EXCEPT ![r] = @ + 1]
  /\ UNCHANGED <<mesh, hints, given, patterns>>

(* When all is gathered the halos are written into the patterns.           *)
SetHalos(r) ==
  LET each(F(_)) == MapOf(FlattenSeq([n \in 1 .. Cardinality(MeshRanks) |-> F(n - 1)]))
  IN  /\ call[r] = Len(Calls) + 1 /\ patterns[r] = <<>>
      /\ patterns' = [patterns EXCEPT ![r] = [p \in DOMAIN Domains(r) |->
           [domain |-> Domains(r)[p],
            recv |-> IF hints THEN MapOf(HintedRecvs(r, p)) ELSE each(LAMBDA q : RecvEntries(r, p, q)),
            send |-> IF hints THEN each(LAMBDA q : HintedSends(r, p, q))
                              ELSE each(LAMBDA q : SendEntries(r, p, q))]]]
      /\ UNCHANGED <<mesh, hints, call, inside, given>>

UnstructuredStep(r) == Enter(r) \/ Leave(r) \/ SetHalos(r)

----------------------------------------------------------------------------
Constructed == \A r \in MeshRanks : patterns[r] # <<>>

(* When all ranks have their patterns, every place of every halo is filled *)
(* once; the messages of a pair of ranks have tags of their own; and what  *)
(* is received under a tag is sent under it by the domain it names: the    *)
(* same number of vertices, the same vertex at the same place.  It relates *)
(* the lists that two ranks have computed apart from each other.           *)
UnstructuredHalosMatch ==
  Constructed =>
    \A r \in MeshRanks : \A p \in DOMAIN patterns[r] :
      LET d == patterns[r][p].domain
          recv == patterns[r][p].recv
      IN  /\ \A i \in d.inner_size .. Len(d.vertices) - 1 :
               Cardinality({<<e, k>> \in UNION {{e} \X DOMAIN e.indices : e \in recv} : e.indices[k] = i}) = 1
          /\ \A e \in recv :
               \E m \in DOMAIN patterns[e.rank] : \E s \in patterns[e.rank][m].send :
                 LET from == patterns[e.rank][m].domain
                 IN  /\ from.id = e.id /\ s.rank = r /\ s.id = d.id /\ s.tag = e.tag
                     /\ e.tag <= MaxTag
                     /\ Len(s.indices) = Len(e.indices)
                     /\ \A k \in DOMAIN e.indices :
                          from.vertices[s.indices[k] + 1] = d.vertices[e.indices[k] + 1]
                     /\ \A n \in DOMAIN patterns[e.rank] : \A u \in patterns[e.rank][n].send :
                          u.rank = r /\ u.tag = e.tag => n = m /\ u = s
=============================================================================
