---------------------------- MODULE PatternProofs ----------------------------
(***************************************************************************)
(* Proofs about the construction of structured patterns (structured/       *)
(* pattern.hpp): for any grids with any halo generators, the tags that the *)
(* receiver assigns keep the messages between two ranks apart, the ranks   *)
(* agree on the bound of them, and however the ranks interleave, each ends *)
(* with a send halo for every receive halo that names it and no other.     *)
(***************************************************************************)
EXTENDS StructuredPattern, StagedPattern, FiniteSetTheorems, SequenceTheorems, NaturalsInduction, WellFoundedInduction, TLAPS

----------------------------------------------------------------------------
(***************************************************************************)
(* Numbers.                                                                *)
(***************************************************************************)

LEMMA LeastNumber ==
  ASSUME NEW S \in SUBSET Nat, S # {}
  PROVE  \E k \in S : \A n \in S : k <= n
<1> DEFINE R == {ss \in Nat \X Nat : ss[1] < ss[2]}
<1>1. IsWellFoundedOn(R, Nat)
  BY NatLessThanWellFounded, Zenon DEF OpToRel
<1>2. PICK k \in S : \A n \in S : ~(<<n, k>> \in R)
  <2> HIDE DEF R
  <2> QED
    BY <1>1, WFMin
<1>3. \A n \in S : ~(n < k)
  BY <1>2
<1> QED
  BY <1>3

\* A bounded set of numbers has a largest one.
LEMMA MaxOfBounded ==
  ASSUME NEW S \in SUBSET Nat, S # {}, NEW B \in Nat, \A x \in S : x <= B
  PROVE  Max(S) \in S /\ \A x \in S : x <= Max(S)
<1> DEFINE T == {k \in Nat : \A x \in S : x <= k}
<1>1. PICK k \in T : \A n \in T : k <= n
  <2>1. B \in T
    OBVIOUS
  <2> HIDE DEF T
  <2>2. T \in SUBSET Nat
    BY DEF T
  <2>3. QED
    BY <2>1, <2>2, LeastNumber
<1>2. k \in S
  <2>1. SUFFICES ASSUME k \notin S PROVE FALSE
    OBVIOUS
  <2>2. \A x \in S : x < k
    BY <1>1, <2>1
  <2>3. PICK m : m = k - 1
    OBVIOUS
  <2>4. k \in Nat /\ m \in Nat /\ m < k /\ \A x \in S : x <= m
    <3>1. PICK y \in S : y \in Nat /\ y < k
      BY <2>2
    <3>2. k \in Nat
      BY <1>1
    <3>3. \A x \in S : x \in Nat
      OBVIOUS
    <3> HIDE DEF T
    <3>4. QED
      BY <2>2, <2>3, <3>1, <3>2, <3>3
  <2>5. m \in T
    BY <2>4
  <2>6. QED
    BY <2>4, <2>5, <1>1
<1>3. \E x \in S : \A y \in S : x >= y
  BY <1>1, <1>2
<1>4. QED
  BY <1>3 DEF Max

----------------------------------------------------------------------------
(***************************************************************************)
(* The tags of a receiver.                                                 *)
(***************************************************************************)

\* The order in which tags are assigned.
Before(a, b) == a[1] < b[1] \/ (a[1] = b[1] /\ a[2] < b[2])
Pred(S, b) == {e \in S : Before(e, b)}

\* Positions in a totally ordered finite set differ and are below its size.
LEMMA Positions ==
  ASSUME NEW S \in SUBSET (Int \X Int), IsFiniteSet(S), NEW a \in S
  PROVE  /\ Cardinality(Pred(S, a)) \in 0 .. Cardinality(S) - 1
         /\ \A b \in S : Cardinality(Pred(S, a)) = Cardinality(Pred(S, b)) => a = b
<1>1. \A b \in S : IsFiniteSet(Pred(S, b)) /\ Cardinality(Pred(S, b)) \in Nat
  BY FS_Subset, FS_CardinalityType DEF Pred
<1>2. Cardinality(S) \in Nat
  BY FS_CardinalityType
<1>3. ASSUME NEW x \in S, NEW y \in S, Before(x, y)
      PROVE  Cardinality(Pred(S, x)) < Cardinality(Pred(S, y))
  <2>1. Pred(S, x) \subseteq Pred(S, y)
    BY <1>3 DEF Pred, Before
  <2>2. x \in Pred(S, y) /\ x \notin Pred(S, x)
    BY <1>3 DEF Pred, Before
  <2>3. QED
    BY <1>1, <2>1, <2>2, FS_Subset
<1>4. \A b \in S : a = b \/ Before(a, b) \/ Before(b, a)
  BY DEF Before
<1>5. Cardinality(Pred(S, a)) < Cardinality(S)
  <2>1. Pred(S, a) \subseteq S /\ a \notin Pred(S, a)
    BY DEF Pred, Before
  <2>2. QED
    BY <2>1, <1>1, <1>2, FS_Subset
<1>6. QED
  BY <1>1, <1>2, <1>3, <1>4, <1>5

\* What the domains of a grid can be numbered by.
Indices(g) == {e[2] : e \in AllDomains(g)}
Ids(g) == {DomainAt(g, e).id : e \in AllDomains(g)}
Bound(g) == Cardinality(Indices(g) \X Ids(g))

LEMMA GridFinite ==
  ASSUME NEW g \in Grids
  PROVE  /\ Indices(g) \subseteq Int /\ Ids(g) \subseteq Int /\ IsFiniteSet(Ids(g))
         /\ IsFiniteSet(Indices(g) \X Ids(g)) /\ Bound(g) \in Nat
<1> DEFINE f == [e \in AllDomains(g) |-> e[2]]
           h == [e \in AllDomains(g) |-> DomainAt(g, e).id]
<1>1. IsFiniteSet(AllDomains(g))
  BY GridsType
<1>2. f \in Surjection(AllDomains(g), Indices(g)) /\ h \in Surjection(AllDomains(g), Ids(g))
  BY DEF Surjection, Indices, Ids
<1>3. IsFiniteSet(Indices(g)) /\ IsFiniteSet(Ids(g))
  <2> HIDE DEF f, h
  <2> QED
    BY <1>1, <1>2, FS_Surjection
<1>4. IsFiniteSet(Indices(g) \X Ids(g))
  BY <1>3, FS_Product
<1>5. Bound(g) \in Nat
  BY <1>4, FS_CardinalityType DEF Bound
<1>6. QED
  BY <1>3, <1>4, <1>5, GridsType DEF Indices, Ids

----------------------------------------------------------------------------
(***************************************************************************)
(* The inductive invariant.                                                *)
(***************************************************************************)
Early == {"domains", "halos"}
Agreed == {"own", "turn", "send", "recv", "made"}
Numbered == {"tags"} \cup Agreed

\* The largest tag of what a rank receives, and of what any rank does.
OwnMax(r) == Max({0} \cup {Cardinality(ReceivedFrom(r, q)) - 1 : q \in Ranks})
AnyMax == Max({OwnMax(r) : r \in Ranks})

TagTypes ==
  /\ grid \in Grids
  /\ pc \in [Ranks -> Early \cup {"number"} \cup Numbered]
  /\ DOMAIN recv_map = Ranks /\ DOMAIN max_tag = Ranks
  /\ entered \in [Ranks -> 0 .. 2]

\* What is received is keyed by an index and an id.
Keyed(r) == \A q \in Ranks : ReceivedFrom(r, q) \subseteq Indices(grid) \X Ids(grid)

\* A tag is a position in what is received from one rank.
Positioned(r) ==
  \A q \in Ranks : \A a \in ReceivedFrom(r, q) :
    recv_map[r][a[1]][a[2]].tag = Cardinality(Pred(ReceivedFrom(r, q), a))

\* A rank has entered the second gathering when it has numbered its tags, and
\* passes it when all have; then it knows the largest of all, and what another
\* one still has is between the largest of that one and it.
Tagged(r) ==
  /\ entered[r] = 2 <=> pc[r] \in Numbered
  /\ pc[r] = "number" => recv_map[r] = Received[grid][r]
  /\ pc[r] \in Numbered => Keyed(r) /\ Positioned(r)
  /\ pc[r] = "tags" => max_tag[r] = OwnMax(r)
  /\ pc[r] \in Agreed => max_tag[r] = AnyMax /\ \A q \in Ranks : pc[q] \in Numbered
TagInv == TagTypes /\ \A r \in Ranks : Tagged(r)

LEMMA Unnumbered ==
  /\ "domains" \notin Numbered /\ "halos" \notin Numbered /\ "number" \notin Numbered
  /\ "tags" \in Numbered /\ "tags" \notin Agreed /\ "own" \in Agreed /\ Agreed \subseteq Numbered
  /\ \A at \in Agreed : at # "number" /\ at # "tags"
BY DEF Numbered, Agreed

\* What is numbered stays as it is when the halos do.
LEMMA RankSame ==
  ASSUME grid' = grid, NEW x, \A q : ReceivedFrom(x, q)' = ReceivedFrom(x, q)
  PROVE  OwnMax(x)' = OwnMax(x) /\ (Keyed(x)' <=> Keyed(x))
<1>1. Ranks' = Ranks
  BY DEF Ranks
<1>2. Keyed(x)' <=> Keyed(x)
  BY <1>1 DEF Keyed, Indices, Ids
<1>3. OwnMax(x)' = OwnMax(x)
  BY <1>1 DEF OwnMax
<1>4. QED
  BY <1>2, <1>3

LEMMA AllSame ==
  ASSUME grid' = grid, recv_map' = recv_map
  PROVE  /\ Ranks' = Ranks /\ AnyMax' = AnyMax
         /\ \A x : /\ OwnMax(x)' = OwnMax(x) /\ (Keyed(x)' <=> Keyed(x)) /\ (Positioned(x)' <=> Positioned(x))
                   /\ recv_map'[x] = recv_map[x]
<1>1. Ranks' = Ranks
  BY DEF Ranks
<1>2. \A x, q : ReceivedFrom(x, q)' = ReceivedFrom(x, q)
  BY DEF ReceivedFrom
<1>3. \A x : OwnMax(x)' = OwnMax(x) /\ (Keyed(x)' <=> Keyed(x))
  BY <1>2, RankSame
<1>4. AnyMax' = AnyMax
  BY <1>1, <1>3 DEF AnyMax
<1>5. ASSUME NEW x PROVE Positioned(x)' <=> Positioned(x)
  BY <1>1, <1>2 DEF Positioned
<1>6. QED
  BY <1>1, <1>3, <1>4, <1>5

\* The found halos are keyed.
LEMMA FoundKeyed ==
  ASSUME NEW g \in Grids, NEW r \in RanksOf(g), NEW i \in DOMAIN Received[g][r]
  PROVE  /\ i \in Indices(g) /\ DOMAIN Received[g][r][i] \subseteq Ids(g)
         /\ \A id \in DOMAIN Received[g][r][i] :
              \E rank, spaces : Received[g][r][i][id] = [rank |-> rank, tag |-> 0, spaces |-> spaces]
<1>1. Received[g][r] = [n \in DOMAIN g.domains[r] |-> RecvHalos(g, <<r, n>>)]
  BY DEF Received
<1>2. i \in DOMAIN g.domains[r] /\ Received[g][r][i] = RecvHalos(g, <<r, i>>)
  BY <1>1
<1>3. i \in Indices(g)
  <2>1. <<r, i>> \in AllDomains(g)
    BY <1>2 DEF AllDomains
  <2>2. QED
    BY <2>1 DEF Indices
<1>4. DOMAIN RecvHalos(g, <<r, i>>) =
        {DomainAt(g, e).id : e \in {e \in AllDomains(g) : Parts(g, <<r, i>>, e) # <<>>}}
  BY DEF RecvHalos
<1>5. DOMAIN RecvHalos(g, <<r, i>>) \subseteq Ids(g)
  BY <1>4 DEF Ids
<1>6. ASSUME NEW id \in DOMAIN RecvHalos(g, <<r, i>>)
      PROVE  \E rank, spaces : RecvHalos(g, <<r, i>>)[id] = [rank |-> rank, tag |-> 0, spaces |-> spaces]
  BY DEF RecvHalos
<1>7. QED
  BY <1>2, <1>3, <1>5, <1>6

\* The largest tag of a rank bounds its tags, and is bounded for all ranks.
LEMMA OwnMaxProperties ==
  ASSUME TagInv, NEW r \in Ranks, pc[r] \in Numbered
  PROVE  /\ OwnMax(r) \in Nat /\ OwnMax(r) <= Bound(grid)
         /\ \A q \in Ranks : Cardinality(ReceivedFrom(r, q)) - 1 <= OwnMax(r)
<1> DEFINE S == {0} \cup {Cardinality(ReceivedFrom(r, q)) - 1 : q \in Ranks}
<1>1. ASSUME NEW q \in Ranks
      PROVE  Cardinality(ReceivedFrom(r, q)) \in Nat /\ Cardinality(ReceivedFrom(r, q)) <= Bound(grid)
  <2>1. ReceivedFrom(r, q) \subseteq Indices(grid) \X Ids(grid)
    BY DEF TagInv, Tagged, Keyed
  <2>2. QED
    BY <2>1, GridFinite, FS_Subset, FS_CardinalityType DEF TagInv, TagTypes, Bound
<1>2. PICK N : N = {x \in S : x >= 0}
  OBVIOUS
<1>3. Bound(grid) \in Nat
  BY GridFinite DEF TagInv, TagTypes
<1>4. N \in SUBSET Nat /\ 0 \in N /\ \A x \in N : x <= Bound(grid)
  BY <1>1, <1>2, <1>3
<1>5. Max(N) \in N /\ \A x \in N : x <= Max(N)
  BY <1>3, <1>4, MaxOfBounded
<1>6. \A x \in S : x \in Int /\ (x \in N \/ x < 0)
  BY <1>1, <1>2
<1>7. Max(S) \in N /\ \A x \in S : x <= Max(S)
  <2>1. Max(N) \in S /\ \A x \in S : Max(N) >= x
    BY <1>2, <1>4, <1>5, <1>6
  <2>2. Max(S) \in S /\ \A x \in S : Max(S) >= x
    BY <2>1 DEF Max
  <2>3. Max(S) >= 0
    BY <2>2
  <2>4. QED
    BY <2>2, <2>3, <1>2, <1>6
<1>8. OwnMax(r) = Max(S)
  BY DEF OwnMax
<1>9. QED
  BY <1>4, <1>7, <1>8, <1>1

\* When all have numbered their tags, the largest tag is one of them.
LEMMA AnyMaxProperties ==
  ASSUME TagInv, \A q \in Ranks : pc[q] \in Numbered, NEW r \in Ranks
  PROVE  /\ AnyMax \in Nat
         /\ \E q \in Ranks : AnyMax = OwnMax(q)
         /\ \A q \in Ranks : OwnMax(q) \in Nat /\ OwnMax(q) <= AnyMax
<1> DEFINE S == {OwnMax(q) : q \in Ranks}
<1>1. \A q \in Ranks : OwnMax(q) \in Nat /\ OwnMax(q) <= Bound(grid)
  BY OwnMaxProperties
<1>2. Bound(grid) \in Nat
  BY GridFinite DEF TagInv, TagTypes
<1>3. S \in SUBSET Nat /\ S # {} /\ \A x \in S : x <= Bound(grid)
  BY <1>1
<1>4. Max(S) \in S /\ \A x \in S : x <= Max(S)
  <2> HIDE DEF S
  <2> QED
    BY <1>2, <1>3, MaxOfBounded
<1>5. AnyMax = Max(S)
  BY DEF AnyMax
<1>6. QED
  BY <1>1, <1>4, <1>5

----------------------------------------------------------------------------
LEMMA TagInitial ==
  ASSUME PatternInit PROVE TagInv
<1>1. TagTypes
  BY DEF PatternInit, TagTypes, Early, Ranks
<1>2. ASSUME NEW r \in Ranks PROVE pc[r] = "domains" /\ entered[r] = 0
  BY DEF PatternInit
<1>3. QED
  BY <1>1, <1>2 DEF TagInv, Tagged, Numbered, Agreed

\* A step of another kind moves on after the gathering, and leaves what the
\* tags are made of alone.
LEMMA LaterKeeps ==
  ASSUME TagInv, NEW r \in Ranks, NEW at \in Agreed,
         UNCHANGED <<grid, recv_map, max_tag, entered>>, pc[r] \in Agreed, pc' = [pc EXCEPT ![r] = at]
  PROVE  TagInv'
<1>1. Ranks' = Ranks /\ \A q \in Ranks : pc'[q] = IF q = r THEN at ELSE pc[q]
  BY DEF Ranks, TagInv, TagTypes
<1>2. TagTypes'
  BY <1>1 DEF TagInv, TagTypes, Ranks, Numbered
<1>3. ASSUME NEW x \in Ranks PROVE Tagged(x)'
  <2>1. \A q \in Ranks : /\ pc'[q] \in Numbered <=> pc[q] \in Numbered
                         /\ pc'[q] \in Agreed <=> pc[q] \in Agreed
                         /\ pc'[q] = "tags" => pc[q] = "tags"
                         /\ pc'[q] = "number" => pc[q] = "number"
    BY <1>1, Unnumbered
  <2>2. QED
    BY <1>1, <2>1, AllSame DEF TagInv, Tagged
<1>4. QED
  BY <1>1, <1>2, <1>3 DEF TagInv

LEMMA GatherDomainsKeeps ==
  ASSUME TagInv, NEW r \in Ranks, GatherDomains(r) PROVE TagInv'
<1>1. Ranks' = Ranks /\ UNCHANGED <<grid, recv_map, max_tag>>
  BY DEF GatherDomains, config, Ranks
<1>2. \A q \in Ranks : /\ pc'[q] = IF q = r THEN "halos" ELSE pc[q]
                       /\ entered'[q] = IF q = r THEN 1 ELSE entered[q]
  BY DEF GatherDomains, TagInv, TagTypes
<1>3. TagTypes'
  BY <1>1 DEF TagInv, TagTypes, GatherDomains, Early
<1>4. pc[r] = "domains" /\ \A q \in Ranks : pc[q] \notin Agreed
  BY Unnumbered DEF GatherDomains, TagInv, Tagged
<1>5. ASSUME NEW x \in Ranks PROVE Tagged(x)'
  <2>1. CASE x = r
    BY <2>1, <1>2, Unnumbered DEF Tagged
  <2>2. CASE x # r
    BY <2>2, <1>1, <1>2, <1>4, AllSame DEF TagInv, Tagged
  <2>3. QED
    BY <2>1, <2>2
<1>6. QED
  BY <1>1, <1>3, <1>5 DEF TagInv

\* The halos that are found do not matter to those who have not found theirs.
LEMMA FindHalosKeeps ==
  ASSUME TagInv, NEW r \in Ranks, FindHalos(r) PROVE TagInv'
<1>1. Ranks' = Ranks /\ UNCHANGED <<grid, max_tag, entered>>
  BY DEF FindHalos, config, Ranks
<1>2. \A q \in Ranks : /\ pc'[q] = IF q = r THEN "number" ELSE pc[q]
                       /\ recv_map'[q] = IF q = r THEN Received[grid][r] ELSE recv_map[q]
  BY DEF FindHalos, TagInv, TagTypes
<1>3. TagTypes'
  BY <1>1 DEF TagInv, TagTypes, FindHalos
<1>4. \A x \in Ranks \ {r} : \A q : ReceivedFrom(x, q)' = ReceivedFrom(x, q)
  BY <1>2 DEF ReceivedFrom
<1>5. \A x \in Ranks \ {r} : /\ OwnMax(x)' = OwnMax(x) /\ (Keyed(x)' <=> Keyed(x))
                             /\ Positioned(x)' <=> Positioned(x)
  <2>1. ASSUME NEW x \in Ranks \ {r} PROVE OwnMax(x)' = OwnMax(x) /\ (Keyed(x)' <=> Keyed(x))
    BY <1>1, <1>4, RankSame
  <2>2. ASSUME NEW x \in Ranks \ {r} PROVE Positioned(x)' <=> Positioned(x)
    BY <1>1, <1>2, <1>4 DEF Positioned
  <2>3. QED
    BY <2>1, <2>2
<1>6. pc[r] = "halos" /\ \A q \in Ranks : pc[q] \notin Agreed
  BY Unnumbered DEF FindHalos, TagInv, Tagged
<1>7. ASSUME NEW x \in Ranks PROVE Tagged(x)'
  <2>1. CASE x = r
    <3>1. entered[x] # 2
      BY <2>1, <1>6, Unnumbered DEF TagInv, Tagged
    <3>2. QED
      BY <2>1, <3>1, <1>1, <1>2, Unnumbered DEF Tagged
  <2>2. CASE x # r
    BY <2>2, <1>1, <1>2, <1>5, <1>6 DEF TagInv, Tagged
  <2>3. QED
    BY <2>1, <2>2
<1>8. QED
  BY <1>1, <1>3, <1>7 DEF TagInv

\* A tag is the position of what it is for.
LEMMA NumberTagsKeeps ==
  ASSUME TagInv, NEW r \in Ranks, NumberTags(r) PROVE TagInv'
<1>1. Ranks' = Ranks /\ UNCHANGED grid
  BY DEF NumberTags, config, Ranks
<1>2. PICK f : f = [i \in DOMAIN recv_map[r] |-> [id \in DOMAIN recv_map[r][i] |->
                      [recv_map[r][i][id] EXCEPT !.tag = TagOf(r, i, id)]]]
  OBVIOUS
<1>3. \A q \in Ranks : /\ pc'[q] = IF q = r THEN "tags" ELSE pc[q]
                       /\ recv_map'[q] = IF q = r THEN f ELSE recv_map[q]
                       /\ entered'[q] = IF q = r THEN 2 ELSE entered[q]
  BY <1>2 DEF NumberTags, TagInv, TagTypes
<1>4. max_tag' = [max_tag EXCEPT ![r] = OwnMax(r)]
  BY DEF NumberTags, OwnMax
<1>5. TagTypes'
  BY <1>1 DEF TagInv, TagTypes, NumberTags, Numbered
<1>6. ASSUME NEW i \in DOMAIN recv_map[r]
      PROVE  /\ i \in Indices(grid) /\ DOMAIN recv_map[r][i] \subseteq Ids(grid)
             /\ DOMAIN f[i] = DOMAIN recv_map[r][i]
             /\ \A id \in DOMAIN f[i] : /\ f[i][id].rank = recv_map[r][i][id].rank
                                        /\ f[i][id].tag = TagOf(r, i, id)
  <2>1. recv_map[r] = Received[grid][r] /\ grid \in Grids /\ r \in RanksOf(grid)
    BY DEF NumberTags, TagInv, Tagged, TagTypes, Ranks
  <2>2. i \in Indices(grid) /\ DOMAIN recv_map[r][i] \subseteq Ids(grid)
    BY <2>1, FoundKeyed
  <2>3. DOMAIN f[i] = DOMAIN recv_map[r][i]
    BY <1>2
  <2>4. ASSUME NEW id \in DOMAIN recv_map[r][i]
        PROVE  f[i][id].rank = recv_map[r][i][id].rank /\ f[i][id].tag = TagOf(r, i, id)
    <3>0. \E rank, spaces : Received[grid][r][i][id] = [rank |-> rank, tag |-> 0, spaces |-> spaces]
      <4>1. i \in DOMAIN Received[grid][r] /\ id \in DOMAIN Received[grid][r][i]
        BY <2>1
      <4>2. QED
        BY <2>1, <4>1, FoundKeyed
    <3>1. PICK rank, spaces : recv_map[r][i][id] = [rank |-> rank, tag |-> 0, spaces |-> spaces]
      BY <2>1, <3>0
    <3>2. f[i][id] = [recv_map[r][i][id] EXCEPT !.tag = TagOf(r, i, id)]
      BY <1>2
    <3>3. QED
      BY <3>1, <3>2
  <2>5. QED
    BY <2>2, <2>3, <2>4
<1>7. DOMAIN f = DOMAIN recv_map[r]
  BY <1>2
<1>8. \A x \in Ranks : \A q : ReceivedFrom(x, q)' = ReceivedFrom(x, q)
  <2>1. ASSUME NEW q PROVE ReceivedFrom(r, q)' = ReceivedFrom(r, q)
    <3>1. recv_map'[r] = f
      BY <1>3
    <3>2. \A i \in DOMAIN f : {k \in DOMAIN f[i] : f[i][k].rank = q}
                            = {k \in DOMAIN recv_map[r][i] : recv_map[r][i][k].rank = q}
      BY <1>6, <1>7
    <3>3. QED
      BY <3>1, <3>2, <1>7 DEF ReceivedFrom
  <2>2. ASSUME NEW x \in Ranks \ {r}, NEW q PROVE ReceivedFrom(x, q)' = ReceivedFrom(x, q)
    BY <1>3 DEF ReceivedFrom
  <2>3. QED
    BY <2>1, <2>2
<1>9. \A x \in Ranks : OwnMax(x)' = OwnMax(x) /\ (Keyed(x)' <=> Keyed(x))
  BY <1>1, <1>8, RankSame
<1>10. Keyed(r)
  <2>1. ASSUME NEW q \in Ranks, NEW a \in ReceivedFrom(r, q) PROVE a \in Indices(grid) \X Ids(grid)
    <3>1. PICK i \in DOMAIN recv_map[r] : \E id \in DOMAIN recv_map[r][i] : a = <<i, id>>
      BY DEF ReceivedFrom
    <3>2. PICK id \in DOMAIN recv_map[r][i] : a = <<i, id>>
      BY <3>1
    <3>3. QED
      BY <3>2, <1>6
  <2>2. QED
    BY <2>1 DEF Keyed
<1>11. ASSUME NEW q \in Ranks, NEW a \in ReceivedFrom(r, q)
       PROVE  recv_map'[r][a[1]][a[2]].tag = Cardinality(Pred(ReceivedFrom(r, q), a))
  <2>0. PICK i \in DOMAIN recv_map[r] :
          \E id \in DOMAIN recv_map[r][i] : a = <<i, id>> /\ recv_map[r][i][id].rank = q
    BY DEF ReceivedFrom
  <2>1. PICK id \in DOMAIN recv_map[r][i] : a = <<i, id>> /\ recv_map[r][i][id].rank = q
    BY <2>0
  <2>2. recv_map'[r][i][id].tag = TagOf(r, i, id)
    BY <1>3, <1>6
  <2>3. TagOf(r, i, id) = Cardinality(Pred(ReceivedFrom(r, q), a))
    BY <2>1 DEF TagOf, Pred, Before
  <2>4. QED
    BY <2>1, <2>2, <2>3
<1>12. Positioned(r)'
  BY <1>1, <1>8, <1>11 DEF Positioned
<1>13. \A x \in Ranks \ {r} : Positioned(x)' <=> Positioned(x)
  BY <1>1, <1>3, <1>8 DEF Positioned
<1>14. max_tag'[r] = OwnMax(r) /\ \A q \in Ranks \ {r} : max_tag'[q] = max_tag[q]
  BY <1>4 DEF TagInv, TagTypes
<1>15. \A q \in Ranks : pc[q] \notin Agreed
  BY Unnumbered DEF NumberTags, TagInv, Tagged
<1>16. ASSUME NEW x \in Ranks PROVE Tagged(x)'
  <2>1. CASE x = r
    BY <2>1, <1>3, <1>9, <1>10, <1>12, <1>14, Unnumbered DEF Tagged
  <2>2. CASE x # r
    BY <2>2, <1>1, <1>3, <1>9, <1>13, <1>14, <1>15 DEF TagInv, Tagged
  <2>3. QED
    BY <2>1, <2>2
<1>17. QED
  BY <1>1, <1>5, <1>16 DEF TagInv

\* The gathering passes when all have numbered their tags; some of them have
\* passed it before.
LEMMA GatherTagsKeeps ==
  ASSUME TagInv, NEW r \in Ranks, GatherTags(r) PROVE TagInv'
<1>1. Ranks' = Ranks /\ UNCHANGED <<grid, recv_map, entered>>
  BY DEF GatherTags, config, Ranks
<1>2. \A q \in Ranks : pc'[q] = IF q = r THEN "own" ELSE pc[q]
  BY DEF GatherTags, TagInv, TagTypes
<1>3. \A q \in Ranks : pc[q] \in Numbered
  <2>1. ASSUME NEW q \in Ranks PROVE entered[q] = 2
    BY DEF GatherTags, Gathered, TagInv, TagTypes
  <2>2. QED
    BY <2>1 DEF TagInv, Tagged
<1>4. TagTypes'
  BY <1>1 DEF TagInv, TagTypes, GatherTags, Numbered, Agreed
<1>8. PICK S : S = {max_tag[q] : q \in Ranks}
  OBVIOUS
<1>9. \A q \in Ranks : max_tag[q] \in {OwnMax(q), AnyMax}
  BY <1>3 DEF TagInv, Tagged, Numbered
<1>10. Max(S) = AnyMax
  <2>1. AnyMax \in Nat /\ (\E q \in Ranks : AnyMax = OwnMax(q))
        /\ \A q \in Ranks : OwnMax(q) \in Nat /\ OwnMax(q) <= AnyMax
    BY <1>3, AnyMaxProperties
  <2>2. \A x \in S : x \in Nat /\ x <= AnyMax
    BY <1>8, <1>9, <2>1
  <2>3. AnyMax \in S
    BY <1>8, <1>9, <2>1
  <2>4. Max(S) \in S /\ \A x \in S : x <= Max(S)
    BY <2>1, <2>2, <2>3, MaxOfBounded
  <2>5. Max(S) \in Nat /\ Max(S) <= AnyMax /\ AnyMax <= Max(S)
    BY <2>2, <2>3, <2>4
  <2>6. QED
    BY <2>1, <2>5
<1>11. max_tag'[r] = AnyMax /\ \A q \in Ranks \ {r} : max_tag'[q] = max_tag[q]
  BY <1>8, <1>10 DEF GatherTags, TagInv, TagTypes
<1>12. \A q \in Ranks : pc'[q] \in Numbered /\ (q # r => pc'[q] = pc[q])
  BY <1>2, <1>3, Unnumbered
<1>13. ASSUME NEW x \in Ranks PROVE Tagged(x)'
  <2>1. CASE x = r
    <3>1. pc'[x] = "own" /\ entered[x] = 2 /\ Keyed(x) /\ Positioned(x)
      BY <2>1, <1>2, <1>3 DEF TagInv, Tagged
    <3>2. QED
      BY <2>1, <3>1, <1>1, <1>11, <1>12, AllSame, Unnumbered DEF Tagged
  <2>2. CASE x # r
    BY <2>2, <1>1, <1>2, <1>11, <1>12, AllSame DEF TagInv, Tagged
  <2>3. QED
    BY <2>1, <2>2
<1>14. QED
  BY <1>1, <1>4, <1>13 DEF TagInv

LEMMA PatternStuttering ==
  ASSUME TagInv, UNCHANGED pvars PROVE TagInv'
<1>1. UNCHANGED <<grid, pc, recv_map, max_tag, entered>> /\ Ranks' = Ranks
  BY DEF pvars, config, Ranks
<1>2. TagTypes'
  BY <1>1 DEF TagInv, TagTypes
<1>3. ASSUME NEW x \in Ranks PROVE Tagged(x)'
  BY <1>1, AllSame DEF TagInv, Tagged
<1>4. QED
  BY <1>1, <1>2, <1>3 DEF TagInv

(***************************************************************************)
(* The tags of a rank are positions in what it receives from the sender,   *)
(* from when it has numbered them, and after the second all_gather it has  *)
(* the largest one of any rank (structured/pattern.hpp:331-368).           *)
(***************************************************************************)
THEOREM TagInvariant == PatternSpec => []TagInv
<1>1. PatternInit => TagInv
  BY TagInitial
<1>2. TagInv /\ [PatternNext]_pvars => TagInv'
  <2>1. SUFFICES ASSUME TagInv, [PatternNext]_pvars PROVE TagInv'
    OBVIOUS
  <2>2. ASSUME NEW r \in Ranks, GatherDomains(r) PROVE TagInv'
    BY <2>1, <2>2, GatherDomainsKeeps
  <2>3. ASSUME NEW r \in Ranks, FindHalos(r) PROVE TagInv'
    BY <2>1, <2>3, FindHalosKeeps
  <2>4. ASSUME NEW r \in Ranks, NumberTags(r) PROVE TagInv'
    BY <2>1, <2>4, NumberTagsKeeps
  <2>5. ASSUME NEW r \in Ranks, GatherTags(r) PROVE TagInv'
    BY <2>1, <2>5, GatherTagsKeeps
  <2>6. ASSUME NEW r \in Ranks, KeepOwn(r) PROVE TagInv'
    <3>1. pc[r] = "own" /\ pc' = [pc EXCEPT ![r] = "turn"] /\ UNCHANGED <<grid, recv_map, max_tag, entered>>
      BY <2>6 DEF KeepOwn, config
    <3>2. QED
      BY <2>1, <3>1, LaterKeeps DEF Agreed
  <2>7. ASSUME NEW r \in Ranks, Announce(r) PROVE TagInv'
    <3>1. pc[r] = "turn" /\ pc' = [pc EXCEPT ![r] = "send"] /\ UNCHANGED <<grid, recv_map, max_tag, entered>>
      BY <2>7 DEF Announce, config
    <3>2. QED
      BY <2>1, <3>1, LaterKeeps DEF Agreed
  <2>8. ASSUME NEW r \in Ranks, Send(r) PROVE TagInv'
    <3>1. /\ pc[r] = "send" /\ pc' = [pc EXCEPT ![r] = "send"]
          /\ UNCHANGED <<grid, recv_map, max_tag, entered>>
      BY <2>1, <2>8 DEF Send, config, TagInv, TagTypes
    <3>2. QED
      BY <2>1, <3>1, LaterKeeps DEF Agreed
  <2>9. ASSUME NEW r \in Ranks, EndTurn(r) PROVE TagInv'
    <3>1. pc[r] = "send" /\ pc' = [pc EXCEPT ![r] = "turn"] /\ UNCHANGED <<grid, recv_map, max_tag, entered>>
      BY <2>9 DEF EndTurn, config
    <3>2. QED
      BY <2>1, <3>1, LaterKeeps DEF Agreed
  <2>10. ASSUME NEW r \in Ranks, Hear(r) PROVE TagInv'
    <3>1. /\ pc[r] = "turn" /\ \E at \in {"turn", "recv"} : pc' = [pc EXCEPT ![r] = at]
          /\ UNCHANGED <<grid, recv_map, max_tag, entered>>
      BY <2>1, <2>10 DEF Hear, config, TagInv, TagTypes
    <3>2. QED
      BY <2>1, <3>1, LaterKeeps DEF Agreed
  <2>11. ASSUME NEW r \in Ranks, Recv(r) PROVE TagInv'
    <3>1. /\ pc[r] = "recv" /\ \E at \in {"turn", "recv"} : pc' = [pc EXCEPT ![r] = at]
          /\ UNCHANGED <<grid, recv_map, max_tag, entered>>
      BY <2>11 DEF Recv, config
    <3>2. QED
      BY <2>1, <3>1, LaterKeeps DEF Agreed
  <2>12. ASSUME NEW r \in Ranks, Finish(r) PROVE TagInv'
    <3>1. pc[r] = "turn" /\ pc' = [pc EXCEPT ![r] = "made"] /\ UNCHANGED <<grid, recv_map, max_tag, entered>>
      BY <2>12 DEF Finish, config
    <3>2. QED
      BY <2>1, <3>1, LaterKeeps DEF Agreed
  <2>13. QED
    BY <2>1, <2>2, <2>3, <2>4, <2>5, <2>6, <2>7, <2>8, <2>9, <2>10, <2>11, <2>12, PatternStuttering
       DEF PatternNext, PatternStep
<1>3. QED
  BY <1>1, <1>2, PTL DEF PatternSpec

(***************************************************************************)
(* No two messages between the same ranks get the same tag, for any grids  *)
(* and however the ranks interleave, and all ranks have the same bound of  *)
(* them (structured/pattern.hpp:331-368).                                  *)
(***************************************************************************)
THEOREM TagsSafe == PatternSpec => []TagsDisambiguate
<1>1. TagInv => TagsDisambiguate
  <2>1. SUFFICES ASSUME TagInv, Made PROVE TagsDisambiguate
    BY DEF TagsDisambiguate
  <2>2. \A r \in Ranks : pc[r] \in Numbered /\ pc[r] \in Agreed
    BY <2>1 DEF Made, Numbered, Agreed
  <2>3. \A r, q \in Ranks : max_tag[r] = max_tag[q]
    BY <2>1, <2>2 DEF TagInv, Tagged
  <2>4. ASSUME NEW r \in Ranks, NEW q \in Ranks, NEW a \in ReceivedFrom(r, q)
        PROVE  /\ \A b \in ReceivedFrom(r, q) :
                    recv_map[r][a[1]][a[2]].tag = recv_map[r][b[1]][b[2]].tag => a = b
               /\ recv_map[r][a[1]][a[2]].tag \in 0 .. max_tag[r]
    <3>1. PICK S : S = ReceivedFrom(r, q)
      OBVIOUS
    <3>2. S \in SUBSET (Int \X Int) /\ IsFiniteSet(S)
      <4>1. S \subseteq Indices(grid) \X Ids(grid)
        BY <2>1, <2>2, <3>1 DEF TagInv, Tagged, Keyed
      <4>2. Indices(grid) \subseteq Int /\ Ids(grid) \subseteq Int /\ IsFiniteSet(Indices(grid) \X Ids(grid))
        BY <2>1, GridFinite DEF TagInv, TagTypes
      <4>3. QED
        BY <4>1, <4>2, FS_Subset
    <3>3. \A b \in S : recv_map[r][b[1]][b[2]].tag = Cardinality(Pred(S, b))
      BY <2>1, <2>2, <3>1 DEF TagInv, Tagged, Positioned
    <3>4. /\ Cardinality(Pred(S, a)) \in 0 .. Cardinality(S) - 1
          /\ \A b \in S : Cardinality(Pred(S, a)) = Cardinality(Pred(S, b)) => a = b
      BY <3>1, <3>2, Positions
    <3>5. Cardinality(S) - 1 <= OwnMax(r) /\ OwnMax(r) <= AnyMax /\ OwnMax(r) \in Nat /\ AnyMax \in Nat
      BY <2>1, <2>2, <3>1, OwnMaxProperties, AnyMaxProperties
    <3>6. max_tag[r] = AnyMax /\ Cardinality(S) \in Nat
      BY <2>1, <2>2, <3>2, FS_CardinalityType DEF TagInv, Tagged
    <3>7. Cardinality(Pred(S, a)) \in 0 .. max_tag[r]
      BY <3>4, <3>5, <3>6
    <3>8. QED
      BY <3>1, <3>3, <3>4, <3>7
  <2>5. QED
    BY <2>3, <2>4 DEF TagsDisambiguate
<1>2. QED
  BY <1>1, TagInvariant, PTL

----------------------------------------------------------------------------
(***************************************************************************)
(* Counting, and sequences.                                                *)
(***************************************************************************)

\* Induction up to a number, over a set.
LEMMA InductionUpTo ==
  ASSUME NEW N \in Nat, NEW S, 0 \in S, \A n \in 0 .. N : n \in S /\ n < N => n + 1 \in S
  PROVE  \A n \in 0 .. N : n \in S
<1>1. SUFFICES ASSUME NEW n \in 0 .. N, n \notin S PROVE FALSE
  OBVIOUS
<1>2. PICK T : T = {m \in 0 .. N : m \notin S}
  OBVIOUS
<1>3. PICK k \in T : \A m \in T : k <= m
  BY <1>1, <1>2, LeastNumber
<1>4. k \in 0 .. N /\ k \notin S /\ k # 0
  BY <1>2, <1>3
<1>5. PICK m \in 0 .. N : m + 1 = k
  BY <1>4
<1>6. m < k /\ m \notin T
  BY <1>3, <1>4, <1>5
<1> QED
  BY <1>2, <1>4, <1>5, <1>6

\* What is done to the value at each number.
Steps(N, S) == [1 .. N -> [S -> S]]
Iterates(g, N, S, base, step) ==
  g \in [0 .. N -> S] /\ g[0] = base /\ \A j \in 1 .. N : g[j] = step[j][g[j - 1]]

\* A value and a step determine a function on 0 .. N.
LEMMA Recursion ==
  ASSUME NEW N \in Nat, NEW S, NEW base \in S, NEW step \in Steps(N, S)
  PROVE  \E g : Iterates(g, N, S, base, step)
<1> DEFINE Solves(g, m) == g[0] = base /\ \A j \in 1 .. m : g[j] = step[j][g[j - 1]]
<1>1. PICK T : T = {m \in 0 .. N : \E g \in [0 .. m -> S] : Solves(g, m)}
  OBVIOUS
<1>2. 0 \in T
  <2>1. PICK g : g = [j \in 0 .. 0 |-> base]
    OBVIOUS
  <2>2. g \in [0 .. 0 -> S] /\ g[0] = base /\ 1 .. 0 = {}
    BY <2>1
  <2> QED
    BY <1>1, <2>2
<1>3. ASSUME NEW m \in 0 .. N, m \in T, m < N PROVE m + 1 \in T
  <2>1. PICK g \in [0 .. m -> S] : Solves(g, m)
    BY <1>1, <1>3
  <2>2. PICK h : h = [j \in 0 .. m + 1 |-> IF j = m + 1 THEN step[m + 1][g[m]] ELSE g[j]]
    OBVIOUS
  <2>3. m + 1 \in 1 .. N /\ m \in 0 .. m
    BY <1>3
  <2>4. step[m + 1][g[m]] \in S
    <3>1. g[m] \in S
      BY <2>1, <2>3
    <3>2. step[m + 1] \in [S -> S]
      BY <2>3 DEF Steps
    <3> QED
      BY <3>1, <3>2
  <2>5. h \in [0 .. m + 1 -> S]
    BY <2>2, <2>4
  <2>6. \A j \in 1 .. m + 1 : h[j] = step[j][h[j - 1]]
    <3>1. TAKE j \in 1 .. m + 1
    <3>2. CASE j = m + 1
      <4>1. j \in 0 .. m + 1 /\ m \in 0 .. m + 1 /\ j - 1 = m /\ m # m + 1
        BY <3>2, <1>3
      <4>2. h[j] = step[m + 1][g[m]] /\ h[m] = g[m]
        BY <3>2, <4>1, <2>2
      <4> QED
        BY <3>2, <4>1, <4>2
    <3>3. CASE j \in 1 .. m
      <4>1. h[j] = g[j] /\ h[j - 1] = g[j - 1]
        BY <3>3, <2>2
      <4> QED
        BY <4>1, <3>3, <2>1
    <3> QED
      BY <3>2, <3>3
  <2>7. h[0] = base
    BY <2>1, <2>2
  <2>8. Solves(h, m + 1) /\ m + 1 \in 0 .. N
    BY <2>6, <2>7, <2>3
  <2> HIDE DEF Solves
  <2> QED
    BY <2>5, <2>8, <1>1
<1>4. N \in T
  <2>1. \A n \in 0 .. N : n \in T /\ n < N => n + 1 \in T
    BY <1>3
  <2>2. \A n \in 0 .. N : n \in T
    BY <1>2, <2>1, InductionUpTo
  <2> QED
    BY <2>2
<1> QED
  BY <1>4, <1>1 DEF Iterates

\* The elements of a set up to a number.
Upto(S, n) == Cardinality(S \cap (1 .. n))

\* A number counts itself.
LEMMA UptoStep ==
  ASSUME NEW S, NEW n \in Nat
  PROVE  /\ Upto(S, n) \in Nat /\ Upto(S, 0) = 0
         /\ n + 1 \in S => Upto(S, n + 1) = Upto(S, n) + 1
         /\ n + 1 \notin S => Upto(S, n + 1) = Upto(S, n)
<1>1. PICK A, B : A = S \cap (1 .. n) /\ B = S \cap (1 .. n + 1)
  OBVIOUS
<1>2. IsFiniteSet(A) /\ Cardinality(A) \in Nat
  <2>1. IsFiniteSet(1 .. n)
    BY FS_Interval
  <2>2. A \subseteq 1 .. n
    BY <1>1
  <2> QED
    BY <2>1, <2>2, FS_Subset, FS_CardinalityType
<1>3. Upto(S, 0) = 0
  <2>1. S \cap (1 .. 0) = {}
    OBVIOUS
  <2> QED
    BY <2>1, FS_EmptySet DEF Upto
<1>4. CASE n + 1 \in S
  <2>1. B = A \cup {n + 1} /\ n + 1 \notin A
    BY <1>1, <1>4
  <2>2. Cardinality(B) = Cardinality(A) + 1
    BY <2>1, <1>2, FS_AddElement
  <2> QED
    BY <1>1, <1>2, <1>3, <1>4, <2>2 DEF Upto
<1>5. CASE n + 1 \notin S
  <2>1. B = A
    BY <1>1, <1>5
  <2> QED
    BY <1>1, <1>2, <1>3, <1>5, <2>1 DEF Upto
<1> QED
  BY <1>4, <1>5

\* Of two numbers, the larger has no fewer up to it, and more if it is in the set.
LEMMA UptoMonotone ==
  ASSUME NEW S, NEW n \in Nat, NEW m \in 0 .. n
  PROVE  /\ Upto(S, m) \in Nat /\ Upto(S, n) \in Nat
         /\ Upto(S, m) <= Upto(S, n)
         /\ m < n /\ n \in S => Upto(S, m) < Upto(S, n)
<1>1. \A k \in Nat : Upto(S, k) \in Nat /\ Upto(S, k) <= Upto(S, k + 1)
  BY UptoStep
<1>2. PICK T : T = {k \in 0 .. n : \A l \in 0 .. k : Upto(S, l) <= Upto(S, k)}
  OBVIOUS
<1>3. 0 \in T
  BY <1>1, <1>2
<1>4. ASSUME NEW k \in 0 .. n, k \in T, k < n PROVE k + 1 \in T
  <2>1. k \in Nat /\ k + 1 \in 0 .. n /\ \A l \in 0 .. k : Upto(S, l) <= Upto(S, k)
    BY <1>2, <1>4
  <2>2. ASSUME NEW l \in 0 .. k + 1 PROVE Upto(S, l) <= Upto(S, k + 1)
    <3>1. l \in Nat /\ Upto(S, l) \in Nat /\ Upto(S, k) \in Nat /\ Upto(S, k + 1) \in Nat
          /\ Upto(S, k) <= Upto(S, k + 1)
      BY <2>1, <1>1
    <3>2. CASE l = k + 1
      BY <3>1, <3>2
    <3>3. CASE l \in 0 .. k
      BY <3>1, <3>3, <2>1
    <3> QED
      BY <3>2, <3>3
  <2> QED
    BY <2>1, <2>2, <1>2
<1>5. \A k \in 0 .. n : k \in T
  BY <1>3, <1>4, InductionUpTo
<1>6. Upto(S, m) <= Upto(S, n)
  BY <1>2, <1>5
<1>7. ASSUME m < n, n \in S PROVE Upto(S, m) < Upto(S, n)
  <2>1. PICK k \in 0 .. n : n = k + 1 /\ m \in 0 .. k
    BY <1>7
  <2>2. Upto(S, m) <= Upto(S, k)
    BY <2>1, <1>2, <1>5
  <2>3. Upto(S, n) = Upto(S, k) + 1
    BY <2>1, <1>7, UptoStep
  <2>4. Upto(S, m) \in Nat /\ Upto(S, k) \in Nat
    BY <1>1
  <2> QED
    BY <2>2, <2>3, <2>4
<1> QED
  BY <1>1, <1>6, <1>7

\* Every number up to the count is the count of an element.
LEMMA UptoOnto ==
  ASSUME NEW S, NEW n \in Nat, NEW x \in 1 .. Upto(S, n)
  PROVE  \E m \in 1 .. n : m \in S /\ Upto(S, m) = x
<1>1. \A k \in Nat : Upto(S, k) \in Nat
  BY UptoStep
<1>2. PICK T : T = {k \in 0 .. n : x <= Upto(S, k)}
  OBVIOUS
<1>3. n \in T /\ T \subseteq Nat
  BY <1>1, <1>2
<1>4. PICK m \in T : \A l \in T : m <= l
  BY <1>3, LeastNumber
<1>5. m \in 0 .. n /\ x <= Upto(S, m)
  BY <1>2, <1>4
<1>6. m # 0
  BY <1>5, UptoStep
<1>7. PICK k \in 0 .. n : m = k + 1
  BY <1>5, <1>6
<1>8. ~(x <= Upto(S, k)) /\ k \in Nat
  <2>1. ~(m <= k)
    BY <1>7
  <2> QED
    BY <2>1, <1>2, <1>4
<1>9. Upto(S, k) \in Nat /\ Upto(S, m) \in Nat
  BY <1>1, <1>8, <1>7
<1>10. m \in S
  <2>1. m \notin S => Upto(S, m) = Upto(S, k)
    BY <1>7, <1>8, UptoStep
  <2> QED
    BY <2>1, <1>5, <1>8
<1>11. Upto(S, m) = Upto(S, k) + 1
  BY <1>7, <1>8, <1>10, UptoStep
<1> QED
  BY <1>5, <1>6, <1>8, <1>9, <1>10, <1>11

\* The ends of a sequence.
LEMMA AppendFacts ==
  ASSUME NEW S, NEW s \in Seq(S), NEW x \in S, NEW a, a = Append(s, x)
  PROVE  /\ a \in Seq(S) /\ Len(s) \in Nat /\ Len(a) = Len(s) + 1 /\ a[Len(s) + 1] = x
         /\ \A j \in 1 .. Len(s) : a[j] = s[j]
OBVIOUS

LEMMA TailFacts ==
  ASSUME NEW S, NEW s \in Seq(S), s # << >>, NEW a, a = Tail(s)
  PROVE  /\ a \in Seq(S) /\ Len(s) \in Nat /\ Len(s) = Len(a) + 1 /\ Len(a) \in Nat
         /\ \A j \in 1 .. Len(a) : a[j] = s[j + 1]
OBVIOUS

\* The numbers of a set below one.
Below(S, x) == {y \in S : y < x}

\* Of two elements, the smaller has fewer below it.
LEMMA BelowFacts ==
  ASSUME NEW S \in SUBSET Int, IsFiniteSet(S), NEW x \in S
  PROVE  /\ Cardinality(S) \in Nat /\ Cardinality(Below(S, x)) \in Nat
         /\ Cardinality(Below(S, x)) < Cardinality(S)
         /\ \A y \in S : x < y => Cardinality(Below(S, x)) < Cardinality(Below(S, y))
<1>1. Cardinality(S) \in Nat /\ \A y \in S : IsFiniteSet(Below(S, y)) /\ Cardinality(Below(S, y)) \in Nat
  BY FS_Subset, FS_CardinalityType DEF Below
<1>2. Below(S, x) \subseteq S /\ x \notin Below(S, x)
  BY DEF Below
<1>3. Cardinality(Below(S, x)) < Cardinality(S)
  BY <1>1, <1>2, FS_Subset
<1>4. ASSUME NEW y \in S, x < y PROVE Cardinality(Below(S, x)) < Cardinality(Below(S, y))
  <2>1. \A z \in S : z < x => z < y
    <3>1. x \in Int /\ y \in Int /\ \A z \in S : z \in Int
      OBVIOUS
    <3> QED
      BY <3>1, <1>4
  <2>2. Below(S, x) \subseteq Below(S, y) /\ x \in Below(S, y)
    BY <2>1, <1>4 DEF Below
  <2> QED
    BY <2>2, <1>1, <1>2, FS_Subset
<1> QED
  BY <1>1, <1>3, <1>4

\* The n-th smallest element of a finite set of numbers is one with n - 1 below
\* it, and there is one.
LEMMA AscendingFacts ==
  ASSUME NEW S \in SUBSET Int, IsFiniteSet(S)
  PROVE  /\ Cardinality(S) \in Nat /\ DOMAIN Ascending(S) = 1 .. Cardinality(S)
         /\ \A n \in 1 .. Cardinality(S) : Ascending(S)[n] \in S
         /\ \A n, m \in 1 .. Cardinality(S) : Ascending(S)[n] = Ascending(S)[m] => n = m
         /\ \A x \in S : \E n \in 1 .. Cardinality(S) : Ascending(S)[n] = x
<1>1. PICK N \in Nat : N = Cardinality(S)
  BY FS_CardinalityType
<1>2. \A x \in S : Cardinality(Below(S, x)) \in 0 .. N - 1
  BY <1>1, BelowFacts
<1>3. PICK rank : rank = [x \in S |-> Cardinality(Below(S, x)) + 1]
  OBVIOUS
<1>4. rank \in Injection(S, 1 .. N)
  <2>1. rank \in [S -> 1 .. N]
    BY <1>2, <1>3, <1>1
  <2>2. ASSUME NEW x \in S, NEW y \in S, rank[x] = rank[y] PROVE x = y
    <3>1. Cardinality(Below(S, x)) \in Nat /\ Cardinality(Below(S, y)) \in Nat
      BY <1>2
    <3>2. Cardinality(Below(S, x)) = Cardinality(Below(S, y))
      BY <2>2, <1>3, <3>1
    <3>3. ~(x < y) /\ ~(y < x)
      BY <3>1, <3>2, BelowFacts
    <3> QED
      BY <3>3
  <2> QED
    BY <2>1, <2>2 DEF Injection, IsInjective
<1>5. rank \in Surjection(S, 1 .. N)
  <2>1. IsFiniteSet(1 .. N) /\ Cardinality(1 .. N) = N
    BY FS_Interval
  <2> QED
    BY <1>1, <1>4, <2>1, FS_Injection
<1>6. ASSUME NEW n \in 1 .. N
      PROVE  Ascending(S)[n] \in S /\ Cardinality(Below(S, Ascending(S)[n])) = n - 1
  <2>1. \E x \in S : rank[x] = n
    BY <1>5 DEF Surjection
  <2>2. \E x \in S : Cardinality(Below(S, x)) = n - 1
    BY <2>1, <1>3, <1>2
  <2>3. Ascending(S)[n] = CHOOSE x \in S : Cardinality(Below(S, x)) = n - 1
    BY <1>1 DEF Ascending, Below
  <2> QED
    BY <2>2, <2>3
<1>7. DOMAIN Ascending(S) = 1 .. N
  BY <1>1 DEF Ascending
<1>8. ASSUME NEW x \in S PROVE \E n \in 1 .. N : Ascending(S)[n] = x
  <2>1. PICK n \in 1 .. N : n = rank[x]
    BY <1>4 DEF Injection
  <2>2. rank[Ascending(S)[n]] = n /\ Ascending(S)[n] \in S
    BY <1>6, <1>3
  <2>3. Ascending(S)[n] = x
    BY <2>1, <2>2, <1>4 DEF Injection, IsInjective
  <2> QED
    BY <2>3
<1>9. \A n, m \in 1 .. N : Ascending(S)[n] = Ascending(S)[m] => n = m
  BY <1>6
<1> QED
  BY <1>1, <1>6, <1>7, <1>8, <1>9

\* The places in a sequence of two.
LEMMA ConcatFacts ==
  ASSUME NEW S, NEW s \in Seq(S), NEW t \in Seq(S), NEW c, c = s \o t
  PROVE  /\ c \in Seq(S) /\ Len(s) \in Nat /\ Len(t) \in Nat /\ Len(c) = Len(s) + Len(t)
         /\ \A j \in 1 .. Len(s) : c[j] = s[j]
         /\ \A j \in 1 .. Len(t) : c[Len(s) + j] = t[j]
OBVIOUS

\* A sequence of the elements of the first m of some sequences without doubles.
Flat(f, ss, m) ==
  /\ \A n \in 1 .. m : \A i \in 1 .. Len(ss[n]) : \E j \in 1 .. Len(f) : f[j] = ss[n][i]
  /\ \A j \in 1 .. Len(f) : \E n \in 1 .. m : \E i \in 1 .. Len(ss[n]) : f[j] = ss[n][i]
  /\ \A j, k \in 1 .. Len(f) : f[j] = f[k] => j = k

\* One sequence more.
LEMMA FlatStep ==
  ASSUME NEW E, NEW N \in Nat, NEW ss \in [1 .. N -> Seq(E)], NEW m \in 0 .. N, m < N,
         \A n, l \in 1 .. N : \A i \in 1 .. Len(ss[n]) : \A j \in 1 .. Len(ss[l]) :
           ss[n][i] = ss[l][j] => n = l /\ i = j,
         NEW f \in Seq(E), Flat(f, ss, m), NEW c, c = f \o ss[m + 1]
  PROVE  c \in Seq(E) /\ Flat(c, ss, m + 1)
<1>1. PICK t \in Seq(E) : t = ss[m + 1] /\ m + 1 \in 1 .. N
  OBVIOUS
<1>0. c = f \o t
  BY <1>1
<1>2. /\ c \in Seq(E) /\ Len(f) \in Nat /\ Len(t) \in Nat /\ Len(c) = Len(f) + Len(t)
      /\ \A j \in 1 .. Len(f) : c[j] = f[j]
      /\ \A j \in 1 .. Len(t) : c[Len(f) + j] = t[j]
      /\ \A j \in 1 .. Len(c) : j \in 1 .. Len(f) \/ \E k \in 1 .. Len(t) : j = Len(f) + k
  <2>1. f \in Seq(E) /\ t \in Seq(E) /\ c = f \o t
    BY <1>0
  <2>2. c \in Seq(E) /\ Len(f) \in Nat /\ Len(t) \in Nat /\ Len(c) = Len(f) + Len(t)
    BY ONLY <2>1, ConcatFacts
  <2>3. \A j \in 1 .. Len(f) : c[j] = f[j]
    BY ONLY <2>1, ConcatFacts
  <2>4. \A j \in 1 .. Len(t) : c[Len(f) + j] = t[j]
    BY ONLY <2>1
  <2>5. ASSUME NEW j \in 1 .. Len(c), j \notin 1 .. Len(f) PROVE \E k \in 1 .. Len(t) : j = Len(f) + k
    <3>1. PICK k : k = j - Len(f)
      OBVIOUS
    <3>2. k \in 1 .. Len(t) /\ j = Len(f) + k
      BY <2>2, <2>5, <3>1
    <3> QED
      BY <3>2
  <2> QED
    BY <2>2, <2>3, <2>4, <2>5
<1>3. /\ \A j \in 1 .. Len(f) : j \in 1 .. Len(c)
      /\ \A j \in 1 .. Len(t) : Len(f) + j \in 1 .. Len(c)
      /\ \A n \in 1 .. m + 1 : n \in 1 .. m \/ n = m + 1
      /\ \A n \in 1 .. m : n \in 1 .. m + 1 /\ n \in 1 .. N /\ n # m + 1
      /\ m + 1 \in 1 .. m + 1
  BY <1>2
<1>4. ASSUME NEW n \in 1 .. m + 1, NEW i \in 1 .. Len(ss[n]) PROVE \E j \in 1 .. Len(c) : c[j] = ss[n][i]
  <2>1. CASE n \in 1 .. m
    <3>1. PICK j \in 1 .. Len(f) : f[j] = ss[n][i]
      BY <2>1 DEF Flat
    <3> QED
      BY <3>1, <1>2, <1>3
  <2>2. CASE n = m + 1
    BY <2>2, <1>1, <1>2, <1>3
  <2> QED
    BY <2>1, <2>2, <1>3
<1>5. ASSUME NEW j \in 1 .. Len(c)
      PROVE  \E n \in 1 .. m + 1 : \E i \in 1 .. Len(ss[n]) : c[j] = ss[n][i]
  <2>1. CASE j \in 1 .. Len(f)
    <3>1. \E n \in 1 .. m : \E i \in 1 .. Len(ss[n]) : f[j] = ss[n][i]
      BY <2>1 DEF Flat
    <3> QED
      BY <2>1, <3>1, <1>2, <1>3
  <2>2. CASE \E k \in 1 .. Len(t) : j = Len(f) + k
    <3>1. PICK k \in 1 .. Len(t) : j = Len(f) + k
      BY <2>2
    <3>2. c[j] = ss[m + 1][k] /\ k \in 1 .. Len(ss[m + 1])
      BY <3>1, <1>1, <1>2
    <3> QED
      BY <3>2, <1>3
  <2> QED
    BY <2>1, <2>2, <1>2
<1>6. ASSUME NEW j \in 1 .. Len(f), NEW k \in 1 .. Len(t) PROVE f[j] # t[k]
  <2>1. PICK n \in 1 .. m : \E i \in 1 .. Len(ss[n]) : f[j] = ss[n][i]
    BY DEF Flat
  <2>2. PICK i \in 1 .. Len(ss[n]) : f[j] = ss[n][i]
    BY <2>1
  <2>3. n \in 1 .. N /\ n # m + 1 /\ k \in 1 .. Len(ss[m + 1])
    BY <1>1, <1>3
  <2> QED
    BY <2>2, <2>3, <1>1
<1>7. \A j, k \in 1 .. Len(t) : t[j] = t[k] => j = k
  BY <1>1
<1>8. \A j, k \in 1 .. Len(f) : f[j] = f[k] => j = k
  BY DEF Flat
<1>9. ASSUME NEW j \in 1 .. Len(c), NEW k \in 1 .. Len(c), c[j] = c[k] PROVE j = k
  <2>1. CASE j \in 1 .. Len(f) /\ k \in 1 .. Len(f)
    BY <2>1, <1>2, <1>8, <1>9
  <2>2. CASE j \in 1 .. Len(f) /\ k \notin 1 .. Len(f)
    <3>1. PICK kk \in 1 .. Len(t) : k = Len(f) + kk
      BY <2>2, <1>2
    <3>2. f[j] = t[kk]
      BY <2>2, <3>1, <1>2, <1>9
    <3> QED
      BY <3>2, <2>2, <1>6
  <2>3. CASE j \notin 1 .. Len(f) /\ k \in 1 .. Len(f)
    <3>1. PICK jj \in 1 .. Len(t) : j = Len(f) + jj
      BY <2>3, <1>2
    <3>2. f[k] = t[jj]
      BY <2>3, <3>1, <1>2, <1>9
    <3> QED
      BY <3>2, <2>3, <1>6
  <2>4. CASE j \notin 1 .. Len(f) /\ k \notin 1 .. Len(f)
    <3>1. PICK jj \in 1 .. Len(t), kk \in 1 .. Len(t) : j = Len(f) + jj /\ k = Len(f) + kk
      BY <2>4, <1>2
    <3>2. t[jj] = t[kk]
      BY <3>1, <1>2, <1>9
    <3> QED
      BY <3>1, <3>2, <1>7
  <2> QED
    BY <2>1, <2>2, <2>3, <2>4
<1> QED
  BY <1>2, <1>4, <1>5, <1>9 DEF Flat

\* What FlattenSeq makes of sequences that have no element in common.
LEMMA FlattenFacts ==
  ASSUME NEW E, NEW N \in Nat, NEW ss \in [1 .. N -> Seq(E)],
         \A n, l \in 1 .. N : \A i \in 1 .. Len(ss[n]) : \A j \in 1 .. Len(ss[l]) :
           ss[n][i] = ss[l][j] => n = l /\ i = j
  PROVE  FlattenSeq(ss) \in Seq(E) /\ Flat(FlattenSeq(ss), ss, N)
<1>1. ss \in Seq(Seq(E)) /\ Len(ss) = N
  OBVIOUS
<1>2. CASE N = 0
  <2>1. FlattenSeq(ss) = << >>
    BY <1>1, <1>2 DEF FlattenSeq
  <2>2. << >> \in Seq(E) /\ Len(<< >>) = 0 /\ 1 .. 0 = {}
    OBVIOUS
  <2>3. Flat(<< >>, ss, 0)
    BY <2>2 DEF Flat
  <2> QED
    BY <2>1, <2>2, <2>3, <1>2
<1>3. CASE N # 0
  <2>1. PICK T : T = Seq(E)
    OBVIOUS
  <2>2. PICK step : step = [j \in 1 .. N |-> [s \in T |-> s \o ss[j]]]
    OBVIOUS
  <2>3. step \in Steps(N, T)
    <3>1. ASSUME NEW s \in T, NEW j \in 1 .. N PROVE s \o ss[j] \in T
      <4>1. ss[j] \in Seq(E)
        OBVIOUS
      <4> QED
        BY <4>1, <3>1, <2>1, ConcatFacts
    <3> QED
      BY <3>1, <2>2 DEF Steps
  <2>4. << >> \in T
    BY <2>1
  <2>5. PICK g : Iterates(g, N, T, << >>, step)
    BY <2>3, <2>4, Recursion
  <2>6. /\ g \in [0 .. N -> T] /\ g[0] = << >>
        /\ \A j \in 1 .. N : g[j] = g[j - 1] \o ss[j]
    <3>1. g \in [0 .. N -> T] /\ g[0] = << >> /\ \A j \in 1 .. N : g[j] = step[j][g[j - 1]]
      BY <2>5 DEF Iterates
    <3>2. ASSUME NEW j \in 1 .. N PROVE g[j] = g[j - 1] \o ss[j]
      <4>1. j - 1 \in 0 .. N
        OBVIOUS
      <4>2. g[j - 1] \in T
        BY <4>1, <3>1
      <4> QED
        BY <4>2, <3>1, <2>2
    <3> QED
      BY <3>1, <3>2
  <2> DEFINE Rec(f) == f = [i \in 1 .. N |-> IF i = 1 THEN ss[i] ELSE f[i - 1] \o ss[i]]
  <2>7. \E f : Rec(f)
    <3>1. PICK h : h = [i \in 1 .. N |-> g[i]]
      OBVIOUS
    <3>2. ASSUME NEW i \in 1 .. N PROVE h[i] = IF i = 1 THEN ss[i] ELSE h[i - 1] \o ss[i]
      <4>1. CASE i = 1
        <5>0. g[1] = g[1 - 1] \o ss[1] /\ 1 - 1 = 0 /\ ss[1] \in Seq(E)
          BY <4>1, <2>6, <1>3
        <5>1. g[i] = << >> \o ss[1] /\ ss[1] \in Seq(E)
          BY <4>1, <5>0, <2>6
        <5>2. << >> \o ss[1] = ss[1]
          BY <5>1
        <5> QED
          BY <5>1, <5>2, <4>1, <3>1
      <4>2. CASE i # 1
        <5>1. i - 1 \in 1 .. N
          BY <4>2
        <5> QED
          BY <5>1, <4>2, <3>1, <2>6
      <4> QED
        BY <4>1, <4>2
    <3>3. h = [i \in 1 .. N |-> IF i = 1 THEN ss[i] ELSE h[i - 1] \o ss[i]]
      BY <3>1, <3>2
    <3> QED
      BY <3>3
  <2>8. PICK f : Rec(f) /\ FlattenSeq(ss) = f[N]
    <3>1. FlattenSeq(ss) = (CHOOSE f : Rec(f))[N]
      BY <1>1, <1>3 DEF FlattenSeq
    <3> QED
      BY <3>1, <2>7
  <2>9. f[1] = ss[1] /\ \A i \in 2 .. N : f[i] = f[i - 1] \o ss[i]
    <3>1. f = [i \in 1 .. N |-> IF i = 1 THEN ss[i] ELSE f[i - 1] \o ss[i]]
      BY <2>8
    <3>2. \A i \in 1 .. N : f[i] = IF i = 1 THEN ss[i] ELSE f[i - 1] \o ss[i]
      BY ONLY <3>1
    <3>3. 1 \in 1 .. N /\ \A i \in 2 .. N : i \in 1 .. N /\ i # 1
      BY <1>3
    <3> QED
      BY <3>2, <3>3
  <2> HIDE DEF Rec
  <2>10. PICK R : R = {m \in 0 .. N : m = 0 \/ (f[m] \in Seq(E) /\ Flat(f[m], ss, m))}
    OBVIOUS
  <2>11. ASSUME NEW m \in 0 .. N, m \in R, m < N PROVE m + 1 \in R
    <3>1. CASE m = 0
      <4>1. Flat(<< >>, ss, 0) /\ << >> \in Seq(E)
        BY DEF Flat
      <4>2. ss[1] \in Seq(E)
        BY <1>3
      <4>3. PICK c : c = << >> \o ss[0 + 1]
        OBVIOUS
      <4>4. c \in Seq(E) /\ Flat(c, ss, 0 + 1)
        BY <4>1, <4>3, <3>1, <2>11, FlatStep
      <4>5. c = f[1]
        BY <4>2, <4>3, <2>9
      <4> QED
        BY <4>4, <4>5, <3>1, <2>10, <2>11
    <3>2. CASE m # 0
      <4>1. f[m + 1] = f[m] \o ss[m + 1]
        <5>1. m + 1 \in 2 .. N /\ (m + 1) - 1 = m
          BY <3>2, <2>11
        <5> QED
          BY <5>1, <2>9
      <4>2. f[m] \in Seq(E) /\ Flat(f[m], ss, m)
        BY <3>2, <2>10, <2>11
      <4>3. PICK a, c : a = f[m] /\ c = f[m + 1]
        OBVIOUS
      <4>4. a \in Seq(E) /\ Flat(a, ss, m) /\ c = a \o ss[m + 1]
        BY <4>1, <4>2, <4>3
      <4>5. c \in Seq(E) /\ Flat(c, ss, m + 1)
        BY <4>4, <2>11, FlatStep
      <4> QED
        BY <4>3, <4>5, <2>10, <2>11
    <3> QED
      BY <3>1, <3>2
  <2>12. 0 \in R
    BY <2>10
  <2>13. N \in R
    <3>1. \A n \in 0 .. N : n \in R
      BY <2>11, <2>12, InductionUpTo
    <3> QED
      BY <3>1
  <2> QED
    BY <2>8, <2>10, <2>13, <1>3
<1> QED
  BY <1>2, <1>3

----------------------------------------------------------------------------
(***************************************************************************)
(* The second inductive invariant: what a root has for the other ranks,    *)
(* what of it is on the way, and what they have made of it.                *)
(***************************************************************************)

\* The messages of root r for q, by their places among all it sends.
For(r, q) == {j \in DOMAIN Outbox(r) : Outbox(r)[j].dest = q}

Entries(r) == {Outbox(r)[j] : j \in DOMAIN Outbox(r)}
Bodies(r, q) == {Outbox(r)[j].body : j \in For(r, q)}

\* How many of them q has received: all when its turn is over, and as many as
\* the number of domains has been counted down in it.
Total(r, q) == Cardinality(For(r, q))
Heard(r, q) ==
  IF announced[r] = NotYet THEN 0
  ELSE IF turn[q] > r THEN Total(r, q)
  ELSE IF turn[q] = r /\ pending[q] # Unknown THEN Total(r, q) - pending[q]
  ELSE 0
Gone(r) == Len(Outbox(r)) - Len(outbox[r])

\* The domains whose send halos q has from r; its own it keeps.
Held(r, q) ==
  IF r = q THEN IF r \in DOMAIN send_halos_map[r] THEN DOMAIN send_halos_map[r][r] ELSE {}
  ELSE {Outbox(r)[j].body.id : j \in {n \in For(r, q) : Upto(For(r, q), n) \in 2 .. Heard(r, q)}}

\* What is found stays, but for the tags.
Found(r) ==
  /\ DOMAIN recv_map[r] = DOMAIN Received[grid][r]
  /\ \A i \in DOMAIN recv_map[r] :
       /\ DOMAIN recv_map[r][i] = DOMAIN Received[grid][r][i]
       /\ \A id \in DOMAIN recv_map[r][i] :
            /\ recv_map[r][i][id].rank = Received[grid][r][i][id].rank
            /\ recv_map[r][i][id].spaces = Received[grid][r][i][id].spaces

MapInv ==
  /\ DOMAIN send_halos_map = Ranks
  /\ \A r \in Ranks : /\ pc[r] \in Numbered => Found(r)
                      /\ pc[r] \in Agreed => send_halos_map[r] = [q \in Peers(r) |-> SendHalos(r, q)]

\* Where a rank is in the turns: a root has announced once its turn has come, and
\* who is past a turn has heard its root.
InTurns == {"turn", "send", "recv", "made"}
InTurn(r) ==
  /\ turn[r] \in 0 .. Cardinality(Ranks)
  /\ pc[r] \notin InTurns => turn[r] = 0
  /\ pc[r] = "send" => turn[r] = r
  /\ pc[r] = "recv" => turn[r] \in Ranks \ {r} /\ r \in announced[turn[r]]
  /\ pc[r] = "made" => turn[r] = Cardinality(Ranks)
  /\ pending[r] # Unknown => pc[r] = "recv"
  /\ announced[r] # NotYet <=> turn[r] > r \/ pc[r] = "send"
  /\ announced[r] # NotYet => announced[r] = DOMAIN send_halos_map[r] \ {r}
  /\ \A s \in Ranks \ {r} : turn[r] > s \/ (turn[r] = s /\ pc[r] = "recv") => announced[s] # NotYet
TurnInv ==
  /\ DOMAIN turn = Ranks /\ DOMAIN announced = Ranks /\ DOMAIN outbox = Ranks /\ DOMAIN pending = Ranks
  /\ DOMAIN chan = Ranks \X Ranks
  /\ \A r \in Ranks : InTurn(r)

\* What a root has not sent is the rest of its messages; what it has sent to q
\* and q has not received is in the channel.
Carried(r, q) ==
  /\ Heard(r, q) \in Nat
  /\ chan[<<r, q>>] \in Seq(Bodies(r, q))
  /\ Upto(For(r, q), Gone(r)) = Heard(r, q) + Len(chan[<<r, q>>])
  /\ \A j \in For(r, q) : j <= Gone(r) /\ Upto(For(r, q), j) > Heard(r, q)
       => chan[<<r, q>>][Upto(For(r, q), j) - Heard(r, q)] = Outbox(r)[j].body
  /\ turn[q] = r /\ pending[q] # Unknown => pending[q] \in 1 .. Total(r, q) - 1
SentBy(r) ==
  IF announced[r] = NotYet THEN outbox[r] = << >> /\ \A q \in Ranks : chan[<<r, q>>] = << >>
  ELSE /\ Gone(r) \in 0 .. Len(Outbox(r))
       /\ outbox[r] \in Seq(Entries(r))
       /\ \A n \in 1 .. Len(outbox[r]) : outbox[r][n] = Outbox(r)[Gone(r) + n]
       /\ \A q \in Ranks : Carried(r, q)
ChanInv == \A r \in Ranks : SentBy(r)

\* A domain has the send halos that its rank holds for it, and no other.
SendFor(r, q, id) == send_halos_map[r][q][id]
HoldsFor(q, m) ==
  LET id == domains[q][m].id
      from == {r \in Ranks : id \in Held(r, q)}
  IN  IF pc[q] \in InTurns
      THEN /\ DOMAIN send_map[q][m] = UNION {DOMAIN SendFor(r, q, id) : r \in from}
           /\ \A r \in from : \A key \in DOMAIN SendFor(r, q, id) : send_map[q][m][key] = SendFor(r, q, id)[key]
      ELSE send_map[q][m] = << >>
SendInv ==
  /\ DOMAIN send_map = Ranks
  /\ \A q \in Ranks : /\ DOMAIN send_map[q] = DOMAIN domains[q]
                      /\ \A m \in DOMAIN domains[q] : HoldsFor(q, m)

PairInv == TagInv /\ MapInv /\ TurnInv /\ ChanInv /\ SendInv

\* Where a rank is.
LEMMA Places ==
  /\ \A at \in InTurns : at \in Agreed /\ at \in Numbered /\ at \notin Early
                         /\ at # "domains" /\ at # "halos" /\ at # "number" /\ at # "tags" /\ at # "own"
  /\ "own" \notin InTurns /\ "own" \in Agreed
  /\ "turn" \in InTurns /\ "send" \in InTurns /\ "recv" \in InTurns /\ "made" \in InTurns
BY DEF InTurns, Agreed, Numbered, Early

----------------------------------------------------------------------------
(***************************************************************************)
(* Domains and their names.                                                *)
(***************************************************************************)

\* Ranks are numbered from zero, and an id names one domain.
LEMMA DomainNames ==
  ASSUME grid \in Grids
  PROVE  /\ IsFiniteSet(Ranks) /\ Cardinality(Ranks) \in Nat /\ Ranks = 0 .. Cardinality(Ranks) - 1
         /\ \A r \in Ranks, q \in Ranks : \A i \in DOMAIN domains[r], m \in DOMAIN domains[q] :
              domains[r][i].id = domains[q][m].id => r = q /\ i = m
         /\ \A q \in Ranks : \A m \in DOMAIN domains[q] :
              domains[q][m].id \in Ids(grid) /\ Named(q, domains[q][m].id) = m
<1>1. IsFiniteSet(Ranks) /\ Ranks = 0 .. Cardinality(Ranks) - 1
  BY GridsType DEF Ranks
<1>2. Cardinality(Ranks) \in Nat
  BY <1>1, FS_CardinalityType
<1>3. ASSUME NEW q \in Ranks, NEW m \in DOMAIN domains[q]
      PROVE  <<q, m>> \in AllDomains(grid) /\ DomainAt(grid, <<q, m>>) = domains[q][m]
  BY DEF AllDomains, DomainAt, domains, Ranks
<1>4. ASSUME NEW r \in Ranks, NEW q \in Ranks, NEW i \in DOMAIN domains[r], NEW m \in DOMAIN domains[q],
             domains[r][i].id = domains[q][m].id
      PROVE  r = q /\ i = m
  <2>1. PICK d, e : d = <<r, i>> /\ e = <<q, m>>
    OBVIOUS
  <2>2. /\ d \in AllDomains(grid) /\ e \in AllDomains(grid)
        /\ DomainAt(grid, d).id = DomainAt(grid, e).id
    BY <2>1, <1>3, <1>4
  <2>3. d = e
    BY <2>2, GridsType
  <2> QED
    BY <2>1, <2>3
<1>5. ASSUME NEW q \in Ranks, NEW m \in DOMAIN domains[q]
      PROVE  domains[q][m].id \in Ids(grid) /\ Named(q, domains[q][m].id) = m
  <2>1. domains[q][m].id \in Ids(grid)
    BY <1>3 DEF Ids
  <2>2. PICK id : id = domains[q][m].id
    OBVIOUS
  <2>3. (CHOOSE i \in DOMAIN domains[q] : domains[q][i].id = id) = m
    BY <2>2, <1>4
  <2> QED
    BY <2>1, <2>2, <2>3 DEF Named
<1> QED
  BY <1>1, <1>2, <1>4, <1>5

\* A receive halo names a domain of the rank that sends it.
LEMMA FoundNames ==
  ASSUME grid \in Grids, NEW r \in Ranks, NEW i \in DOMAIN Received[grid][r], NEW id \in DOMAIN Received[grid][r][i]
  PROVE  /\ i \in DOMAIN domains[r] /\ DOMAIN Received[grid][r] = DOMAIN domains[r]
         /\ Received[grid][r][i][id].rank \in Ranks
         /\ \E m \in DOMAIN domains[Received[grid][r][i][id].rank] :
              domains[Received[grid][r][i][id].rank][m].id = id
<1>1. Received[grid][r] = [n \in DOMAIN domains[r] |-> RecvHalos(grid, <<r, n>>)]
  BY DEF Received, Ranks, domains
<1>2. i \in DOMAIN domains[r] /\ Received[grid][r][i] = RecvHalos(grid, <<r, i>>)
  BY <1>1
<1>3. PICK e : e = CHOOSE f \in AllDomains(grid) : DomainAt(grid, f).id = id
  OBVIOUS
<1>4. id \in {DomainAt(grid, f).id : f \in {f \in AllDomains(grid) : Parts(grid, <<r, i>>, f) # << >>}}
  BY <1>2 DEF RecvHalos
<1>5. e \in AllDomains(grid) /\ DomainAt(grid, e).id = id
  BY <1>3, <1>4
<1>6. Received[grid][r][i][id].rank = e[1]
  BY <1>2, <1>3, <1>4 DEF RecvHalos
<1>7. e[1] \in Ranks /\ e[2] \in DOMAIN domains[e[1]] /\ domains[e[1]][e[2]].id = id
  BY <1>5 DEF AllDomains, DomainAt, Ranks, domains
<1> QED
  BY <1>1, <1>2, <1>6, <1>7

\* What r receives from q, by the domains of both.
LEMMA Wanted ==
  ASSUME TagInv, MapInv, NEW r \in Ranks, pc[r] \in Numbered, NEW q, NEW w \in ReceivedFrom(r, q)
  PROVE  /\ w = <<w[1], w[2]>> /\ q \in Ranks
         /\ w[1] \in DOMAIN domains[r] /\ w[1] \in DOMAIN recv_map[r] /\ w[2] \in DOMAIN recv_map[r][w[1]]
         /\ recv_map[r][w[1]][w[2]].rank = q
         /\ recv_map[r][w[1]][w[2]].spaces = Received[grid][r][w[1]][w[2]].spaces
         /\ w[2] \in Ids(grid)
         /\ \E m \in DOMAIN domains[q] : domains[q][m].id = w[2]
<1>1. PICK i \in DOMAIN recv_map[r] :
        \E id \in DOMAIN recv_map[r][i] : w = <<i, id>> /\ recv_map[r][i][id].rank = q
  BY DEF ReceivedFrom
<1>2. PICK id \in DOMAIN recv_map[r][i] : w = <<i, id>> /\ recv_map[r][i][id].rank = q
  BY <1>1
<1>3. grid \in Grids /\ Found(r)
  BY DEF TagInv, TagTypes, MapInv
<1>4. /\ i \in DOMAIN Received[grid][r] /\ id \in DOMAIN Received[grid][r][i]
      /\ Received[grid][r][i][id].rank = q /\ recv_map[r][i][id].spaces = Received[grid][r][i][id].spaces
  BY <1>2, <1>3 DEF Found
<1>5. i \in DOMAIN domains[r] /\ q \in Ranks /\ \E m \in DOMAIN domains[q] : domains[q][m].id = id
  BY <1>3, <1>4, FoundNames
<1>6. id \in Ids(grid)
  BY <1>3, <1>5, DomainNames
<1> QED
  BY <1>2, <1>4, <1>5, <1>6

----------------------------------------------------------------------------
(***************************************************************************)
(* What a root has for the others.                                         *)
(***************************************************************************)

\* The send halos for q are those of the domains that r receives from.
LEMMA GivenHalos ==
  ASSUME TagInv, MapInv, NEW r \in Ranks, pc[r] \in Agreed, NEW q \in DOMAIN send_halos_map[r]
  PROVE  /\ q \in Ranks /\ DOMAIN send_halos_map[r] = Peers(r)
         /\ DOMAIN send_halos_map[r][q] = {w[2] : w \in ReceivedFrom(r, q)}
         /\ DOMAIN send_halos_map[r][q] # {} /\ IsFiniteSet(DOMAIN send_halos_map[r][q])
         /\ DOMAIN send_halos_map[r][q] \subseteq Int
<1>1. pc[r] \in Numbered /\ grid \in Grids
  BY Unnumbered DEF TagInv, TagTypes
<1>2. send_halos_map[r] = [p \in Peers(r) |-> SendHalos(r, p)]
  BY DEF MapInv
<1>3. q \in Peers(r) /\ send_halos_map[r][q] = SendHalos(r, q) /\ DOMAIN send_halos_map[r] = Peers(r)
  BY <1>2
<1>4. q \in Ranks /\ ReceivedFrom(r, q) # {}
  BY <1>3 DEF Peers
<1>5. PICK D : D = {w[2] : w \in ReceivedFrom(r, q)}
  OBVIOUS
<1>6. DOMAIN SendHalos(r, q) = D
  BY <1>5 DEF SendHalos
<1>7. D # {} /\ \A id \in D : id \in Ids(grid)
  BY <1>1, <1>4, <1>5, Wanted
<1>8. D \subseteq Int /\ IsFiniteSet(D)
  BY <1>1, <1>7, GridFinite, FS_Subset
<1>9. DOMAIN send_halos_map[r][q] = D
  BY <1>3, <1>6
<1> QED
  BY <1>3, <1>4, <1>5, <1>7, <1>8, <1>9

\* The halos for one domain, by the tags of the receive halos.
LEMMA GivenKeys ==
  ASSUME TagInv, MapInv, NEW r \in Ranks, pc[r] \in Agreed, NEW q \in DOMAIN send_halos_map[r],
         NEW id \in DOMAIN send_halos_map[r][q]
  PROVE  /\ DOMAIN SendFor(r, q, id) =
              {<<domains[r][w[1]].id, recv_map[r][w[1]][w[2]].tag>> : w \in {v \in ReceivedFrom(r, q) : v[2] = id}}
         /\ \A key \in DOMAIN SendFor(r, q, id) :
              SendFor(r, q, id)[key] = Translate(domains[q][Named(q, id)], recv_map[r][Named(r, key[1])][id].spaces)
<1>1. send_halos_map[r] = [p \in Peers(r) |-> SendHalos(r, p)]
  BY DEF MapInv
<1>2. send_halos_map[r][q] = SendHalos(r, q)
  BY <1>1
<1>3. PICK D : D = {w[2] : w \in ReceivedFrom(r, q)}
  OBVIOUS
<1>4. SendHalos(r, q) =
        [i \in D |->
           [k \in {<<domains[r][w[1]].id, recv_map[r][w[1]][w[2]].tag>> :
                     w \in {v \in ReceivedFrom(r, q) : v[2] = i}} |->
              Translate(domains[q][Named(q, i)], recv_map[r][Named(r, k[1])][i].spaces)]]
  BY <1>3 DEF SendHalos
<1>5. id \in D
  BY <1>2, <1>4
<1>6. SendFor(r, q, id) =
        [k \in {<<domains[r][w[1]].id, recv_map[r][w[1]][w[2]].tag>> :
                   w \in {v \in ReceivedFrom(r, q) : v[2] = id}} |->
            Translate(domains[q][Named(q, id)], recv_map[r][Named(r, k[1])][id].spaces)]
  BY <1>2, <1>4, <1>5 DEF SendFor
<1> QED
  BY <1>6

\* The entry of the outbox for a domain of q.
Item(r, q, id) == [dest |-> q, body |-> [id |-> id, halos |-> send_halos_map[r][q][id]]]
ItemsFor(r, q) ==
  [n \in DOMAIN Ascending(DOMAIN send_halos_map[r][q]) |-> Item(r, q, Ascending(DOMAIN send_halos_map[r][q])[n])]

PeerList(r) == Ascending(DOMAIN send_halos_map[r] \ {r})
CountsOf(r) ==
  [n \in DOMAIN PeerList(r) |-> [dest |-> PeerList(r)[n], body |-> Cardinality(DOMAIN send_halos_map[r][PeerList(r)[n]])]]
ItemsOf(r) == [n \in DOMAIN PeerList(r) |-> ItemsFor(r, PeerList(r)[n])]

\* The outbox, with names for its parts.
LEMMA OutboxParts ==
  ASSUME NEW r
  PROVE  Outbox(r) = CountsOf(r) \o FlattenSeq(ItemsOf(r))
BY Zenon DEF Outbox, CountsOf, ItemsOf, ItemsFor, Item, PeerList

\* The halos for one rank, each of its domains once.
LEMMA ItemsForFacts ==
  ASSUME TagInv, MapInv, NEW r \in Ranks, pc[r] \in Agreed, NEW q \in DOMAIN send_halos_map[r]
  PROVE  /\ ItemsFor(r, q) \in Seq({Item(r, q, id) : id \in DOMAIN send_halos_map[r][q]})
         /\ \A n, m \in 1 .. Len(ItemsFor(r, q)) : ItemsFor(r, q)[n] = ItemsFor(r, q)[m] => n = m
         /\ \A id \in DOMAIN send_halos_map[r][q] :
              \E n \in 1 .. Len(ItemsFor(r, q)) : ItemsFor(r, q)[n] = Item(r, q, id)
<1>1. PICK D : D = DOMAIN send_halos_map[r][q]
  OBVIOUS
<1>2. IsFiniteSet(D) /\ D \in SUBSET Int
  BY <1>1, GivenHalos
<1>3. PICK N, a : N = Cardinality(D) /\ a = Ascending(D)
  OBVIOUS
<1>4. /\ N \in Nat /\ DOMAIN a = 1 .. N
      /\ \A n \in 1 .. N : a[n] \in D
      /\ \A n, m \in 1 .. N : a[n] = a[m] => n = m
      /\ \A x \in D : \E n \in 1 .. N : a[n] = x
  BY <1>2, <1>3, AscendingFacts
<1>5. PICK s : s = ItemsFor(r, q)
  OBVIOUS
<1>6. s = [n \in 1 .. N |-> Item(r, q, a[n])]
  BY <1>1, <1>3, <1>4, <1>5 DEF ItemsFor
<1>7. PICK E : E = {Item(r, q, id) : id \in D}
  OBVIOUS
<1>8. s \in [1 .. N -> E]
  BY <1>4, <1>6, <1>7
<1>9. s \in Seq(E) /\ Len(s) = N
  BY <1>4, <1>8
<1>10. ASSUME NEW n \in 1 .. N, NEW m \in 1 .. N, s[n] = s[m] PROVE n = m
  <2>1. Item(r, q, a[n]).body.id = a[n] /\ Item(r, q, a[m]).body.id = a[m]
    BY DEF Item
  <2> QED
    BY <2>1, <1>4, <1>6, <1>10
<1> QED
  BY <1>1, <1>4, <1>5, <1>6, <1>7, <1>9, <1>10

\* K numbers of domains, one for each peer, and after these the halos of each of
\* the domains once.
Laid(r, out, K) ==
  /\ \A j \in 1 .. K : out[j].dest \in DOMAIN send_halos_map[r] \ {r}
  /\ \A q \in DOMAIN send_halos_map[r] \ {r} :
       \E c \in 1 .. K : /\ out[c].dest = q
                         /\ out[c].body = Cardinality(DOMAIN send_halos_map[r][q])
                         /\ \A j \in 1 .. K : out[j].dest = q => j = c
  /\ \A j \in K + 1 .. Len(out) :
       \E q \in DOMAIN send_halos_map[r] \ {r} : \E id \in DOMAIN send_halos_map[r][q] :
         out[j] = Item(r, q, id)
  /\ \A q \in DOMAIN send_halos_map[r] \ {r} : \A id \in DOMAIN send_halos_map[r][q] :
       \E j \in K + 1 .. Len(out) : out[j] = Item(r, q, id)
  /\ \A j, k \in K + 1 .. Len(out) : out[j] = out[k] => j = k

\* What the root sends, in its two parts.
LEMMA OutboxFacts ==
  ASSUME TagInv, MapInv, NEW r \in Ranks, pc[r] \in Agreed
  PROVE  /\ Len(Outbox(r)) \in Nat /\ DOMAIN Outbox(r) = 1 .. Len(Outbox(r))
         /\ Outbox(r) \in Seq(Entries(r))
         /\ \E K \in 0 .. Len(Outbox(r)) : Laid(r, Outbox(r), K)
<1>1. PICK P : P = DOMAIN send_halos_map[r] \ {r}
  OBVIOUS
<1>2. IsFiniteSet(P) /\ P \in SUBSET Int
  <2>1. grid \in Grids
    BY DEF TagInv, TagTypes
  <2>2. IsFiniteSet(Ranks) /\ \A q \in Ranks : q \in Int
    BY <2>1, DomainNames
  <2>3. P \subseteq Ranks
    BY <1>1, GivenHalos
  <2> QED
    BY <2>2, <2>3, FS_Subset
<1>3. PICK K, peers : K = Cardinality(P) /\ peers = PeerList(r)
  OBVIOUS
<1>4. /\ K \in Nat /\ DOMAIN peers = 1 .. K
      /\ \A n \in 1 .. K : peers[n] \in P
      /\ \A n, m \in 1 .. K : peers[n] = peers[m] => n = m
      /\ \A x \in P : \E n \in 1 .. K : peers[n] = x
  <2>1. peers = Ascending(P)
    BY <1>1, <1>3 DEF PeerList
  <2> QED
    BY <2>1, <1>2, <1>3, AscendingFacts
<1>5. PICK counts : /\ counts = CountsOf(r)
                    /\ counts = [n \in 1 .. K |-> [dest |-> peers[n],
                                                   body |-> Cardinality(DOMAIN send_halos_map[r][peers[n]])]]
  BY <1>3, <1>4 DEF CountsOf
<1>6. PICK ss : ss = ItemsOf(r) /\ ss = [n \in 1 .. K |-> ItemsFor(r, peers[n])]
  BY <1>3, <1>4 DEF ItemsOf
<1>7. PICK f : f = FlattenSeq(ss)
  OBVIOUS
<1>8. PICK out : out = Outbox(r)
  OBVIOUS
<1>9. out = counts \o f
  BY <1>5, <1>6, <1>7, <1>8, OutboxParts
<1>10. PICK E1, E2 :
         /\ E1 = {[dest |-> q, body |-> Cardinality(DOMAIN send_halos_map[r][q])] : q \in P}
         /\ E2 = UNION {{Item(r, q, id) : id \in DOMAIN send_halos_map[r][q]} : q \in P}
  OBVIOUS
<1>11. ASSUME NEW n \in 1 .. K
       PROVE  /\ peers[n] \in P /\ ss[n] = ItemsFor(r, peers[n]) /\ ss[n] \in Seq(E2)
              /\ \A i, j \in 1 .. Len(ss[n]) : ss[n][i] = ss[n][j] => i = j
              /\ \A i \in 1 .. Len(ss[n]) : \E id \in DOMAIN send_halos_map[r][peers[n]] :
                   ss[n][i] = Item(r, peers[n], id)
              /\ \A id \in DOMAIN send_halos_map[r][peers[n]] :
                   \E i \in 1 .. Len(ss[n]) : ss[n][i] = Item(r, peers[n], id)
  <2>1. PICK q : q = peers[n]
    OBVIOUS
  <2>2. q \in P /\ ss[n] = ItemsFor(r, q) /\ q \in DOMAIN send_halos_map[r]
    BY <2>1, <1>1, <1>4, <1>6
  <2>3. PICK A : A = {Item(r, q, id) : id \in DOMAIN send_halos_map[r][q]}
    OBVIOUS
  <2>4. /\ ss[n] \in Seq(A)
        /\ \A i, j \in 1 .. Len(ss[n]) : ss[n][i] = ss[n][j] => i = j
        /\ \A id \in DOMAIN send_halos_map[r][q] : \E i \in 1 .. Len(ss[n]) : ss[n][i] = Item(r, q, id)
    <3>1. ItemsFor(r, q) \in Seq(A)
      BY <2>2, <2>3, ItemsForFacts
    <3>2. \A i, j \in 1 .. Len(ItemsFor(r, q)) : ItemsFor(r, q)[i] = ItemsFor(r, q)[j] => i = j
      BY <2>2, ItemsForFacts
    <3>3. \A id \in DOMAIN send_halos_map[r][q] : \E i \in 1 .. Len(ItemsFor(r, q)) : ItemsFor(r, q)[i] = Item(r, q, id)
      BY <2>2, ItemsForFacts
    <3> QED
      BY <2>2, <3>1, <3>2, <3>3
  <2>5. A \subseteq E2
    BY <2>2, <2>3, <1>10
  <2>6. ss[n] \in Seq(E2)
    BY <2>4, <2>5
  <2>7. \A i \in 1 .. Len(ss[n]) : ss[n][i] \in A
    BY <2>4
  <2> QED
    BY <2>1, <2>2, <2>3, <2>4, <2>6, <2>7
<1>12. ss \in [1 .. K -> Seq(E2)]
  BY <1>11, <1>6
<1>13. \A n, l \in 1 .. K : \A i \in 1 .. Len(ss[n]) : \A j \in 1 .. Len(ss[l]) :
         ss[n][i] = ss[l][j] => n = l /\ i = j
  <2>1. SUFFICES ASSUME NEW n \in 1 .. K, NEW l \in 1 .. K, NEW i \in 1 .. Len(ss[n]),
                        NEW j \in 1 .. Len(ss[l]), ss[n][i] = ss[l][j]
                 PROVE  n = l /\ i = j
    OBVIOUS
  <2>2. ss[n][i].dest = peers[n] /\ ss[l][j].dest = peers[l]
    <3>1. \A q, id : Item(r, q, id).dest = q
      BY DEF Item
    <3>2. \E id \in DOMAIN send_halos_map[r][peers[n]] : ss[n][i] = Item(r, peers[n], id)
      BY <1>11
    <3>3. \E id \in DOMAIN send_halos_map[r][peers[l]] : ss[l][j] = Item(r, peers[l], id)
      BY <1>11
    <3> QED
      BY <3>1, <3>2, <3>3
  <2>3. n = l
    BY <2>1, <2>2, <1>4
  <2> QED
    BY <2>1, <2>3, <1>11
<1>14. f \in Seq(E2) /\ Flat(f, ss, K)
  BY <1>4, <1>7, <1>12, <1>13, FlattenFacts
<1>15. PICK S : S = E1 \cup E2
  OBVIOUS
<1>16. counts \in Seq(S) /\ Len(counts) = K
  <2>1. counts \in [1 .. K -> S]
    BY <1>4, <1>5, <1>10, <1>15
  <2> QED
    BY <2>1, <1>4
<1>17. f \in Seq(S)
  BY <1>14, <1>15
<1>18. /\ out \in Seq(S) /\ Len(f) \in Nat /\ Len(out) = K + Len(f)
       /\ \A j \in 1 .. K : out[j] = counts[j]
       /\ \A j \in 1 .. Len(f) : out[K + j] = f[j]
  <2>1. counts \in Seq(S) /\ f \in Seq(S) /\ out = counts \o f /\ Len(counts) = K
    BY <1>9, <1>16, <1>17
  <2>2. out \in Seq(S) /\ Len(f) \in Nat /\ Len(out) = K + Len(f)
    <3>1. out \in Seq(S)
      BY ONLY <2>1
    <3>2. Len(f) \in Nat
      BY ONLY <2>1
    <3>3. Len(out) = Len(counts) + Len(f)
      BY <2>1, ConcatProperties
    <3> QED
      BY <3>1, <3>2, <3>3, <2>1
  <2>3. \A j \in 1 .. K : out[j] = counts[j]
    BY ONLY <2>1
  <2>4. \A j \in 1 .. Len(f) : out[K + j] = f[j]
    BY ONLY <2>1
  <2> QED
    BY <2>2, <2>3, <2>4
<1>19. Len(out) \in Nat /\ DOMAIN out = 1 .. Len(out) /\ K \in 0 .. Len(out)
  BY <1>18, <1>4
<1>20. ASSUME NEW j \in 1 .. K
       PROVE  out[j].dest = peers[j] /\ out[j].body = Cardinality(DOMAIN send_halos_map[r][peers[j]])
  <2>1. out[j] = [dest |-> peers[j], body |-> Cardinality(DOMAIN send_halos_map[r][peers[j]])]
    BY <1>5, <1>18
  <2> QED
    BY <2>1
<1>21. \A j \in 1 .. K : out[j].dest \in P
  BY <1>20, <1>4
<1>22. ASSUME NEW q \in P
       PROVE  \E c \in 1 .. K : /\ out[c].dest = q /\ out[c].body = Cardinality(DOMAIN send_halos_map[r][q])
                                /\ \A j \in 1 .. K : out[j].dest = q => j = c
  <2>1. PICK c \in 1 .. K : peers[c] = q
    BY <1>4
  <2>2. out[c].dest = q /\ out[c].body = Cardinality(DOMAIN send_halos_map[r][q])
    BY <2>1, <1>20
  <2>3. \A j \in 1 .. K : out[j].dest = q => j = c
    BY <2>1, <1>4, <1>20
  <2> QED
    BY <2>2, <2>3
<1>23. ASSUME NEW j \in K + 1 .. Len(out) PROVE \E i \in 1 .. Len(f) : j = K + i /\ out[j] = f[i]
  <2>1. PICK i : i = j - K
    OBVIOUS
  <2>2. i \in 1 .. Len(f) /\ j = K + i
    BY <2>1, <1>4, <1>18
  <2> QED
    BY <2>2, <1>18
<1>24. ASSUME NEW j \in K + 1 .. Len(out)
       PROVE  \E q \in P : \E id \in DOMAIN send_halos_map[r][q] : out[j] = Item(r, q, id)
  <2>1. PICK i \in 1 .. Len(f) : out[j] = f[i]
    BY <1>23
  <2>2. PICK n \in 1 .. K : \E l \in 1 .. Len(ss[n]) : f[i] = ss[n][l]
    BY <1>14 DEF Flat
  <2> QED
    BY <2>1, <2>2, <1>11
<1>25. ASSUME NEW q \in P, NEW id \in DOMAIN send_halos_map[r][q]
       PROVE  \E j \in K + 1 .. Len(out) : out[j] = Item(r, q, id)
  <2>1. PICK n \in 1 .. K : peers[n] = q
    BY <1>4
  <2>2. PICK l \in 1 .. Len(ss[n]) : ss[n][l] = Item(r, q, id)
    BY <2>1, <1>11
  <2>3. PICK i \in 1 .. Len(f) : f[i] = ss[n][l]
    BY <1>14 DEF Flat
  <2>4. K + i \in K + 1 .. Len(out) /\ out[K + i] = f[i]
    BY <1>4, <1>18
  <2> QED
    BY <2>2, <2>3, <2>4
<1>26. ASSUME NEW j \in K + 1 .. Len(out), NEW k \in K + 1 .. Len(out), out[j] = out[k] PROVE j = k
  <2>1. PICK i \in 1 .. Len(f) : j = K + i /\ out[j] = f[i]
    BY <1>23
  <2>2. PICK l \in 1 .. Len(f) : k = K + l /\ out[k] = f[l]
    BY <1>23
  <2>3. i = l
    BY <2>1, <2>2, <1>14, <1>26 DEF Flat
  <2> QED
    BY <2>1, <2>2, <2>3
<1>27. Laid(r, out, K)
  BY <1>1, <1>21, <1>22, <1>24, <1>25, <1>26 DEF Laid
<1>28. Outbox(r) \in Seq(Entries(r))
  <2>1. out \in Seq({out[j] : j \in DOMAIN out})
    BY <1>18, <1>19
  <2> QED
    BY <2>1, <1>8 DEF Entries
<1> QED
  BY <1>8, <1>19, <1>27, <1>28

----------------------------------------------------------------------------
(***************************************************************************)
(* The messages for one rank.                                              *)
(***************************************************************************)

\* A place among the elements of a set is that of one of them.
LEMMA UptoInjective ==
  ASSUME NEW S \in SUBSET Nat, NEW j \in S, NEW k \in S, Upto(S, j) = Upto(S, k)
  PROVE  j = k
<1>1. j < k => Upto(S, j) < Upto(S, k) /\ Upto(S, j) \in Nat /\ Upto(S, k) \in Nat
  BY UptoMonotone
<1>2. k < j => Upto(S, k) < Upto(S, j) /\ Upto(S, j) \in Nat /\ Upto(S, k) \in Nat
  BY UptoMonotone
<1> QED
  BY <1>1, <1>2

\* The messages for a rank are counted, and there are none for whom the root has no halos.
LEMMA ForFacts ==
  ASSUME TagInv, MapInv, NEW r \in Ranks, pc[r] \in Agreed, NEW q
  PROVE  /\ Len(Outbox(r)) \in Nat /\ DOMAIN Outbox(r) = 1 .. Len(Outbox(r))
         /\ For(r, q) \subseteq 1 .. Len(Outbox(r)) /\ For(r, q) \in SUBSET Nat /\ IsFiniteSet(For(r, q))
         /\ Total(r, q) \in Nat /\ Upto(For(r, q), Len(Outbox(r))) = Total(r, q)
         /\ q \notin DOMAIN send_halos_map[r] \ {r} => For(r, q) = {} /\ Total(r, q) = 0
         /\ \A j \in 1 .. Len(Outbox(r)) : Outbox(r)[j].dest \in Ranks \ {r}
<1>1. PICK L : L = Len(Outbox(r))
  OBVIOUS
<1>2. L \in Nat /\ DOMAIN Outbox(r) = 1 .. L
  BY <1>1, OutboxFacts
<1>3. For(r, q) \subseteq 1 .. L /\ IsFiniteSet(For(r, q))
  <2>1. For(r, q) \subseteq 1 .. L
    BY <1>2 DEF For
  <2>2. IsFiniteSet(1 .. L)
    BY <1>2, FS_Interval
  <2> QED
    BY <2>1, <2>2, FS_Subset
<1>4. Total(r, q) \in Nat /\ Upto(For(r, q), L) = Total(r, q)
  <2>1. For(r, q) \cap (1 .. L) = For(r, q)
    BY <1>3
  <2> QED
    BY <1>3, <2>1, FS_CardinalityType DEF Total, Upto
<1>5. \A j \in 1 .. L : Outbox(r)[j].dest \in DOMAIN send_halos_map[r] \ {r}
  <2>0. PICK K \in 0 .. Len(Outbox(r)) : Laid(r, Outbox(r), K)
    BY OutboxFacts
  <2>1. /\ \A j \in 1 .. K : Outbox(r)[j].dest \in DOMAIN send_halos_map[r] \ {r}
        /\ \A j \in K + 1 .. Len(Outbox(r)) :
             \E p \in DOMAIN send_halos_map[r] \ {r} : \E id \in DOMAIN send_halos_map[r][p] :
               Outbox(r)[j] = Item(r, p, id)
    BY <2>0 DEF Laid
  <2>2. \A p, id : Item(r, p, id).dest = p
    BY DEF Item
  <2>3. \A j \in K + 1 .. L : Outbox(r)[j].dest \in DOMAIN send_halos_map[r] \ {r}
    BY <2>1, <2>2, <1>1
  <2>4. \A j \in 1 .. L : j \in 1 .. K \/ j \in K + 1 .. L
    BY <1>1, <1>2
  <2> QED
    BY <2>1, <2>3, <2>4
<1>6. q \notin DOMAIN send_halos_map[r] \ {r} => For(r, q) = {} /\ Total(r, q) = 0
  <2>1. ASSUME q \notin DOMAIN send_halos_map[r] \ {r} PROVE For(r, q) = {}
    BY <2>1, <1>2, <1>5 DEF For
  <2> QED
    BY <2>1, FS_EmptySet DEF Total
<1>7. \A j \in 1 .. L : Outbox(r)[j].dest \in Ranks \ {r}
  BY <1>5, GivenHalos
<1> QED
  BY <1>1, <1>2, <1>3, <1>4, <1>6, <1>7

\* The first message for a peer is the number of the others; each of these has the
\* halos of one domain.
Body(r, q, id) == [id |-> id, halos |-> send_halos_map[r][q][id]]
Leads(r, q, c) ==
  /\ c \in For(r, q) /\ Outbox(r)[c].body = Total(r, q) - 1 /\ Upto(For(r, q), c) = 1
  /\ \A j \in For(r, q) \ {c} :
       /\ Upto(For(r, q), j) \in 2 .. Total(r, q)
       /\ \E id \in DOMAIN send_halos_map[r][q] : Outbox(r)[j].body = Body(r, q, id)
  /\ \A id \in DOMAIN send_halos_map[r][q] : \E j \in For(r, q) \ {c} : Outbox(r)[j].body = Body(r, q, id)
  /\ \A j, k \in For(r, q) \ {c} : Outbox(r)[j].body = Outbox(r)[k].body => j = k
LEMMA ForPeer ==
  ASSUME TagInv, MapInv, NEW r \in Ranks, pc[r] \in Agreed, NEW q \in DOMAIN send_halos_map[r] \ {r}
  PROVE  Total(r, q) - 1 \in Nat \ {0} /\ \E c \in For(r, q) : Leads(r, q, c)
<1>1. PICK L, D, F, out : L = Len(Outbox(r)) /\ D = DOMAIN send_halos_map[r][q] /\ F = For(r, q) /\ out = Outbox(r)
  OBVIOUS
<1>2. /\ L \in Nat /\ F \subseteq 1 .. L /\ F \in SUBSET Nat /\ IsFiniteSet(F) /\ Total(r, q) \in Nat
      /\ Upto(F, L) = Total(r, q) /\ F = {j \in 1 .. L : out[j].dest = q}
  BY <1>1, ForFacts DEF For
<1>3. IsFiniteSet(D) /\ D # {}
  BY <1>1, GivenHalos
<1>4. Cardinality(D) \in Nat \ {0}
  BY <1>3, FS_CardinalityType, FS_EmptySet
<1>0. PICK K \in 0 .. Len(Outbox(r)) : Laid(r, Outbox(r), K)
  BY OutboxFacts
<1>5. /\ K \in 0 .. L
      /\ \A p \in DOMAIN send_halos_map[r] \ {r} :
           \E n \in 1 .. K : /\ out[n].dest = p
                             /\ out[n].body = Cardinality(DOMAIN send_halos_map[r][p])
                             /\ \A j \in 1 .. K : out[j].dest = p => j = n
      /\ \A j \in K + 1 .. L :
           \E p \in DOMAIN send_halos_map[r] \ {r} : \E id \in DOMAIN send_halos_map[r][p] :
             out[j] = Item(r, p, id)
      /\ \A p \in DOMAIN send_halos_map[r] \ {r} : \A id \in DOMAIN send_halos_map[r][p] :
           \E j \in K + 1 .. L : out[j] = Item(r, p, id)
      /\ \A j, k \in K + 1 .. L : out[j] = out[k] => j = k
  BY <1>0, <1>1 DEF Laid
<1>6. PICK c \in 1 .. K : /\ out[c].dest = q /\ out[c].body = Cardinality(D)
                          /\ \A j \in 1 .. K : out[j].dest = q => j = c
  BY <1>1, <1>5
<1>7. c \in F /\ \A j \in F \ {c} : j \in K + 1 .. L
  <2>1. \A j \in F : j \in 1 .. L /\ out[j].dest = q
    BY <1>2
  <2>2. K \in 0 .. L
    BY <1>5
  <2>3. c \in F
    BY <1>2, <1>6, <2>2
  <2>4. \A j \in F \ {c} : j \notin 1 .. K
    BY <2>1, <1>6
  <2> QED
    BY <2>1, <2>2, <2>3, <2>4, <1>2
<1>8. \A p, id : Item(r, p, id).dest = p /\ Item(r, p, id).body = Body(r, p, id)
  BY DEF Item, Body
<1>9. ASSUME NEW j \in F \ {c} PROVE \E id \in D : out[j].body = Body(r, q, id) /\ out[j] = Item(r, q, id)
  <2>1. PICK p \in DOMAIN send_halos_map[r] \ {r} : \E id \in DOMAIN send_halos_map[r][p] : out[j] = Item(r, p, id)
    BY <1>5, <1>7
  <2>2. p = q
    BY <2>1, <1>2, <1>8
  <2> QED
    BY <2>1, <2>2, <1>1, <1>8
<1>10. ASSUME NEW id \in D PROVE \E j \in F \ {c} : out[j].body = Body(r, q, id)
  <2>1. PICK j \in K + 1 .. L : out[j] = Item(r, q, id)
    BY <1>1, <1>5
  <2>2. j \in 1 .. L /\ j # c /\ out[j].dest = q /\ out[j].body = Body(r, q, id)
    BY <2>1, <1>8
  <2> QED
    BY <2>2, <1>2
<1>11. ASSUME NEW j \in F \ {c}, NEW k \in F \ {c}, out[j].body = out[k].body PROVE j = k
  <2>1. PICK a \in D : out[j].body = Body(r, q, a) /\ out[j] = Item(r, q, a)
    BY <1>9
  <2>2. PICK b \in D : out[k].body = Body(r, q, b) /\ out[k] = Item(r, q, b)
    BY <1>9
  <2>3. Body(r, q, a).id = a /\ Body(r, q, b).id = b
    BY DEF Body
  <2>4. out[j] = out[k]
    BY <2>1, <2>2, <2>3, <1>11
  <2> QED
    BY <2>4, <1>5, <1>7
<1>12. Upto(F, c) = 1
  <2>1. F \cap (1 .. c) = {c}
    BY <1>6, <1>7, <1>2
  <2> QED
    BY <2>1, FS_Singleton DEF Upto
<1>13. ASSUME NEW j \in F \ {c} PROVE Upto(F, j) \in 2 .. Total(r, q)
  <2>1. j \in Nat /\ c \in 0 .. j /\ c < j /\ j \in 0 .. L
    BY <1>2, <1>6, <1>7
  <2>2. Upto(F, j) > 1 /\ Upto(F, j) \in Nat
    BY <2>1, <1>12, UptoMonotone
  <2>3. Upto(F, j) <= Upto(F, L)
    BY <2>1, <1>2, UptoMonotone
  <2> QED
    BY <2>2, <2>3, <1>2
<1>14. Cardinality(F \ {c}) = Cardinality(D)
  <2>1. PICK g : g = [j \in F \ {c} |-> out[j].body.id]
    OBVIOUS
  <2>2. \A id : Body(r, q, id).id = id
    BY DEF Body
  <2>3. g \in [F \ {c} -> D]
    BY <2>1, <2>2, <1>9
  <2>4. \A id \in D : \E j \in F \ {c} : g[j] = id
    BY <2>1, <2>2, <1>10
  <2>5. \A j, k \in F \ {c} : g[j] = g[k] => j = k
    <3>1. ASSUME NEW j \in F \ {c}, NEW k \in F \ {c}, g[j] = g[k] PROVE j = k
      <4>1. out[j].body = out[k].body
        BY <3>1, <2>1, <2>2, <1>9
      <4> QED
        BY <4>1, <1>11
    <3> QED
      BY <3>1
  <2>6. g \in Surjection(F \ {c}, D) /\ g \in Injection(F \ {c}, D)
    BY <2>3, <2>4, <2>5 DEF Surjection, Injection, IsInjective
  <2>7. IsFiniteSet(F \ {c})
    BY <1>2, FS_Subset
  <2> QED
    BY <2>6, <2>7, FS_Surjection
<1>15. Total(r, q) = Cardinality(D) + 1
  <2>1. Cardinality(F \ {c}) = Cardinality(F) - 1
    <3>1. IsFiniteSet(F) /\ c \in F
      BY <1>2, <1>7
    <3> QED
      BY <3>1, FS_RemoveElement
  <2>2. Total(r, q) = Cardinality(F)
    BY <1>1 DEF Total
  <2> QED
    BY <2>1, <2>2, <1>2, <1>4, <1>14
<1>16. Leads(r, q, c)
  <2>1. c \in For(r, q) /\ Outbox(r)[c].body = Total(r, q) - 1 /\ Upto(For(r, q), c) = 1
    BY <1>1, <1>4, <1>6, <1>7, <1>12, <1>15
  <2>2. \A j \in For(r, q) \ {c} :
       /\ Upto(For(r, q), j) \in 2 .. Total(r, q)
       /\ \E id \in DOMAIN send_halos_map[r][q] : Outbox(r)[j].body = Body(r, q, id)
    BY <1>1, <1>9, <1>13
  <2> QED
    BY <2>1, <2>2, <1>1, <1>10, <1>11 DEF Leads
<1> QED
  BY <1>1, <1>4, <1>7, <1>15, <1>16

----------------------------------------------------------------------------
(***************************************************************************)
(* What depends on what.                                                   *)
(***************************************************************************)

\* What is received depends on the rank's own receive halos,
LEMMA FoundSame ==
  ASSUME grid' = grid, NEW x, recv_map'[x] = recv_map[x]
  PROVE  /\ Ranks' = Ranks /\ domains' = domains
         /\ Found(x)' <=> Found(x)
         /\ Peers(x)' = Peers(x) /\ \A q : SendHalos(x, q)' = SendHalos(x, q)
<1>1. Ranks' = Ranks /\ domains' = domains
  BY DEF Ranks, domains
<1>2. \A q : ReceivedFrom(x, q)' = ReceivedFrom(x, q)
  BY DEF ReceivedFrom
<1>3. Found(x)' <=> Found(x)
  BY DEF Found
<1>4. Peers(x)' = Peers(x)
  BY <1>1, <1>2 DEF Peers
<1>5. ASSUME NEW q PROVE SendHalos(x, q)' = SendHalos(x, q)
  <2>1. ReceivedFrom(x, q)' = ReceivedFrom(x, q) /\ recv_map'[x] = recv_map[x] /\ domains' = domains
    BY <1>1, <1>2
  <2>2. \A p, id : Named(p, id)' = Named(p, id)
    BY <1>1 DEF Named
  <2>3. \A dom, spaces : Translate(dom, spaces)' = Translate(dom, spaces)
    BY DEF Translate
  <2> QED
    BY <2>1, <2>2 DEF SendHalos
<1> QED
  BY <1>1, <1>3, <1>4, <1>5

\* what is sent on what the root has to send,
LEMMA OutboxSame ==
  ASSUME NEW x, send_halos_map'[x] = send_halos_map[x]
  PROVE  /\ Outbox(x)' = Outbox(x) /\ Entries(x)' = Entries(x)
         /\ \A q : For(x, q)' = For(x, q) /\ Total(x, q)' = Total(x, q) /\ Bodies(x, q)' = Bodies(x, q)
<1>1. Outbox(x)' = Outbox(x)
  BY DEF Outbox
<1>2. \A q : For(x, q)' = For(x, q)
  BY <1>1 DEF For
<1> QED
  BY <1>1, <1>2 DEF Total, Entries, Bodies

\* what is on the way also on what has gone and what has been heard,
LEMMA CarriedSame ==
  ASSUME NEW x, NEW q, send_halos_map'[x] = send_halos_map[x], outbox'[x] = outbox[x],
         Heard(x, q)' = Heard(x, q), chan'[<<x, q>>] = chan[<<x, q>>],
         turn'[q] = x /\ pending'[q] # Unknown => turn[q] = x /\ pending'[q] = pending[q],
         Carried(x, q)
  PROVE  Carried(x, q)'
<1>1. /\ Outbox(x)' = Outbox(x) /\ For(x, q)' = For(x, q) /\ Total(x, q)' = Total(x, q) /\ Gone(x)' = Gone(x)
      /\ Bodies(x, q)' = Bodies(x, q)
  BY OutboxSame DEF Gone
<1>3. /\ Heard(x, q)' \in Nat
      /\ chan'[<<x, q>>] \in Seq(Bodies(x, q)')
      /\ Upto(For(x, q)', Gone(x)') = Heard(x, q)' + Len(chan'[<<x, q>>])
      /\ \A j \in For(x, q)' : j <= Gone(x)' /\ Upto(For(x, q)', j) > Heard(x, q)'
           => chan'[<<x, q>>][Upto(For(x, q)', j) - Heard(x, q)'] = Outbox(x)'[j].body
  BY <1>1 DEF Carried
<1>4. turn'[q] = x /\ pending'[q] # Unknown => pending'[q] \in 1 .. Total(x, q)' - 1
  BY <1>1 DEF Carried
<1> QED
  BY <1>3, <1>4 DEF Carried

\* for each of the peers,
LEMMA SentSame ==
  ASSUME NEW x \in Ranks, Ranks' = Ranks, announced'[x] = announced[x],
         send_halos_map'[x] = send_halos_map[x], outbox'[x] = outbox[x],
         \A q \in Ranks : /\ Heard(x, q)' = Heard(x, q) /\ chan'[<<x, q>>] = chan[<<x, q>>]
                          /\ turn'[q] = x /\ pending'[q] # Unknown => turn[q] = x /\ pending'[q] = pending[q],
         SentBy(x)
  PROVE  SentBy(x)'
<1>1. Outbox(x)' = Outbox(x) /\ Entries(x)' = Entries(x) /\ Gone(x)' = Gone(x)
  BY OutboxSame DEF Gone
<1>2. CASE announced[x] = NotYet
  BY <1>2 DEF SentBy
<1>3. CASE announced[x] # NotYet
  <2>1. \A q \in Ranks : Carried(x, q)'
    BY <1>3, CarriedSame DEF SentBy
  <2> QED
    BY <1>1, <1>3, <2>1 DEF SentBy
<1> QED
  BY <1>2, <1>3

\* Who has heard nothing of a root holds nothing from it.
LEMMA HeldSame ==
  ASSUME NEW x, NEW q, Heard(x, q)' = Heard(x, q),
         send_halos_map'[x] = send_halos_map[x] \/ (x # q /\ Heard(x, q) = 0)
  PROVE  /\ Held(x, q)' = Held(x, q)
         /\ send_halos_map'[x] = send_halos_map[x] \/ Held(x, q) = {}
<1>1. CASE send_halos_map'[x] = send_halos_map[x]
  BY <1>1, OutboxSame DEF Held
<1>2. CASE x # q /\ Heard(x, q) = 0
  <2>1. \A n : n \notin 2 .. 0
    OBVIOUS
  <2> QED
    BY <1>2, <2>1 DEF Held
<1> QED
  BY <1>1, <1>2

\* and the send halos on what has been heard of the roots.
LEMMA HoldsSame ==
  ASSUME Ranks' = Ranks, domains' = domains, NEW q \in Ranks, NEW m, HoldsFor(q, m),
         send_map'[q] = send_map[q], pc'[q] \in InTurns <=> pc[q] \in InTurns,
         pc[q] \in InTurns =>
           \A x \in Ranks : /\ Heard(x, q)' = Heard(x, q)
                            /\ send_halos_map'[x] = send_halos_map[x] \/ (x # q /\ Heard(x, q) = 0)
  PROVE  HoldsFor(q, m)'
<1>1. CASE pc[q] \notin InTurns
  BY <1>1 DEF HoldsFor
<1>2. CASE pc[q] \in InTurns
  <2>1. PICK id : id = domains[q][m].id
    OBVIOUS
  <2>2. \A x \in Ranks : Held(x, q)' = Held(x, q) /\ (send_halos_map'[x] = send_halos_map[x] \/ Held(x, q) = {})
    BY <1>2, HeldSame
  <2>3. PICK from : from = {x \in Ranks : id \in Held(x, q)}
    OBVIOUS
  <2>4. \A x \in from : SendFor(x, q, id)' = SendFor(x, q, id)
    BY <2>2, <2>3 DEF SendFor
  <2>5. from = {x \in Ranks' : id \in Held(x, q)'}
    BY <2>2, <2>3
  <2>6. /\ DOMAIN send_map[q][m] = UNION {DOMAIN SendFor(x, q, id) : x \in from}
        /\ \A x \in from : \A key \in DOMAIN SendFor(x, q, id) : send_map[q][m][key] = SendFor(x, q, id)[key]
    BY <1>2, <2>1, <2>3 DEF HoldsFor
  <2>7. UNION {DOMAIN SendFor(x, q, id) : x \in from} = UNION {DOMAIN SendFor(x, q, id)' : x \in from}
    BY <2>4
  <2>8. /\ DOMAIN send_map'[q][m] = UNION {DOMAIN SendFor(x, q, id)' : x \in from}
        /\ \A x \in from : \A key \in DOMAIN SendFor(x, q, id)' : send_map'[q][m][key] = SendFor(x, q, id)'[key]
    BY <2>4, <2>6, <2>7
  <2> QED
    BY <1>2, <2>1, <2>5, <2>8 DEF HoldsFor
<1> QED
  BY <1>1, <1>2

\* Before its turns come, a rank has heard nothing.
LEMMA HeardNothing ==
  ASSUME TagInv, TurnInv, NEW q \in Ranks, pc[q] \notin InTurns, NEW x \in Ranks
  PROVE  Heard(x, q) = 0 /\ announced[q] = NotYet
<1>1. turn[q] = 0 /\ pending[q] = Unknown /\ announced[q] = NotYet
  <2>1. InTurn(q) /\ turn[q] = 0 /\ ~(0 > q)
    BY DomainNames DEF TagInv, TagTypes, TurnInv, InTurn
  <2> QED
    BY <2>1, Places DEF InTurn
<1>2. ~(0 > x)
  BY DomainNames DEF TagInv, TagTypes
<1> QED
  BY <1>1, <1>2 DEF Heard

----------------------------------------------------------------------------
(***************************************************************************)
(* The steps before the turns.                                             *)
(***************************************************************************)

\* Nothing is announced and nothing has been received in the initial states.
LEMMA PairInitial ==
  ASSUME PatternInit PROVE PairInv
<1>1. TagInv /\ grid \in Grids
  BY TagInitial DEF PatternInit
<1>2. Ranks = 0 .. Cardinality(Ranks) - 1 /\ Cardinality(Ranks) \in Nat
  BY <1>1, DomainNames
<1>3. "domains" \notin Numbered /\ "domains" \notin Agreed /\ "domains" \notin InTurns
  BY Unnumbered, Places
<1>4. MapInv
  BY <1>3 DEF PatternInit, MapInv
<1>5. TurnInv
  <2>1. ASSUME NEW r \in Ranks PROVE InTurn(r)
    <3>1. turn[r] = 0 /\ pc[r] = "domains" /\ pending[r] = Unknown /\ announced[r] = NotYet
      BY DEF PatternInit
    <3>2. 0 \in 0 .. Cardinality(Ranks) /\ \A s \in Ranks : ~(0 > s)
      BY <1>2
    <3> QED
      BY <3>1, <3>2, <1>3 DEF InTurn
  <2>2. DOMAIN chan = Ranks \X Ranks
    BY DEF PatternInit
  <2>3. DOMAIN turn = Ranks /\ DOMAIN announced = Ranks /\ DOMAIN outbox = Ranks /\ DOMAIN pending = Ranks
    BY DEF PatternInit
  <2> QED
    BY <2>1, <2>2, <2>3 DEF TurnInv
<1>6. ChanInv
  <2>1. ASSUME NEW r \in Ranks PROVE announced[r] = NotYet /\ outbox[r] = << >>
    BY DEF PatternInit
  <2>2. ASSUME NEW r \in Ranks, NEW q \in Ranks PROVE chan[<<r, q>>] = << >>
    BY DEF PatternInit
  <2> QED
    BY <2>1, <2>2 DEF ChanInv, SentBy
<1>7. SendInv
  BY <1>3 DEF PatternInit, SendInv, HoldsFor
<1> QED
  BY <1>1, <1>4, <1>5, <1>6, <1>7 DEF PairInv

\* A rank that is not in its turns yet does not disturb them.
LEMMA EarlyTurns ==
  ASSUME PairInv, NEW r \in Ranks, pc[r] \notin InTurns,
         NEW at, at \in {"halos", "number", "tags", "own", "turn"}, pc' = [pc EXCEPT ![r] = at],
         UNCHANGED <<grid, turn, announced, outbox, pending, chan>>,
         \A x \in Ranks \ {r} : send_halos_map'[x] = send_halos_map[x]
  PROVE  /\ TurnInv' /\ ChanInv'
         /\ \A x \in Ranks, q \in Ranks : Heard(x, q)' = Heard(x, q) /\ (x = r => Heard(x, q) = 0)
<1>1. Ranks' = Ranks /\ TagInv /\ TurnInv /\ ChanInv
  BY DEF Ranks, PairInv
<1>2. \A q \in Ranks : pc'[q] = IF q = r THEN at ELSE pc[q]
  BY <1>1 DEF TagInv, TagTypes
<1>3. announced[r] = NotYet /\ turn[r] = 0 /\ pending[r] = Unknown
  BY <1>1, HeardNothing, Places DEF TurnInv, InTurn
<1>4. \A x \in Ranks : 0 \in 0 .. Cardinality(Ranks) /\ ~(0 > x) /\ x \in Nat
  BY <1>1, DomainNames DEF TagInv, TagTypes
<1>5. ASSUME NEW x \in Ranks PROVE InTurn(x)'
  <2>1. CASE x = r
    <3>1. pc'[x] \notin {"send", "recv", "made"} /\ turn'[x] = 0 /\ pending'[x] = Unknown /\ announced'[x] = NotYet
      BY <2>1, <1>2, <1>3
    <3> QED
      BY <3>1, <1>1, <1>4 DEF InTurn
  <2>2. CASE x # r
    <3>1. send_halos_map'[x] = send_halos_map[x] /\ pc'[x] = pc[x] /\ InTurn(x)
      BY <2>2, <1>1, <1>2 DEF TurnInv
    <3> QED
      BY <3>1, <1>1 DEF InTurn
  <2> QED
    BY <2>1, <2>2
<1>6. TurnInv'
  BY <1>1, <1>5 DEF TurnInv
<1>7. ASSUME NEW x \in Ranks, NEW q \in Ranks PROVE Heard(x, q)' = Heard(x, q) /\ (x = r => Heard(x, q) = 0)
  <2>1. CASE x = r
    BY <2>1, <1>3 DEF Heard
  <2>2. CASE x # r
    BY <2>2, OutboxSame DEF Heard
  <2> QED
    BY <2>1, <2>2
<1>8. ASSUME NEW x \in Ranks PROVE SentBy(x)'
  <2>1. CASE x = r
    BY <2>1, <1>1, <1>3 DEF ChanInv, SentBy
  <2>2. CASE x # r
    BY <2>2, <1>1, <1>7, SentSame DEF ChanInv
  <2> QED
    BY <2>1, <2>2
<1> QED
  BY <1>1, <1>6, <1>7, <1>8 DEF ChanInv

\* What a rank has to send stays as it is while it receives the same, and is what
\* its receive halos say from when the tags have been gathered.
LEMMA MapKeeps ==
  ASSUME PairInv, NEW r \in Ranks, NEW at, pc' = [pc EXCEPT ![r] = at], grid' = grid,
         DOMAIN send_halos_map' = Ranks,
         \A x \in Ranks \ {r} : recv_map'[x] = recv_map[x] /\ send_halos_map'[x] = send_halos_map[x],
         at \in Numbered => Found(r)',
         at \in Agreed => /\ recv_map'[r] = recv_map[r]
                          /\ send_halos_map'[r] = [q \in Peers(r) |-> SendHalos(r, q)]
  PROVE  MapInv'
<1>1. Ranks' = Ranks /\ TagInv /\ MapInv
  BY DEF Ranks, PairInv
<1>2. \A q \in Ranks : pc'[q] = IF q = r THEN at ELSE pc[q]
  BY <1>1 DEF TagInv, TagTypes
<1>3. ASSUME NEW x \in Ranks
      PROVE  /\ pc'[x] \in Numbered => Found(x)'
             /\ pc'[x] \in Agreed => send_halos_map'[x] = [q \in Peers(x)' |-> SendHalos(x, q)']
  <2>1. CASE x = r
    BY <2>1, <1>2, FoundSame
  <2>2. CASE x # r
    BY <2>2, <1>1, <1>2, FoundSame DEF MapInv
  <2> QED
    BY <2>1, <2>2
<1> QED
  BY <1>1, <1>3 DEF MapInv

\* Nor does it disturb what the others hold.
LEMMA EarlySends ==
  ASSUME PairInv, NEW r \in Ranks, pc[r] \notin InTurns,
         NEW at, at \in {"halos", "number", "tags", "own"}, pc' = [pc EXCEPT ![r] = at],
         UNCHANGED <<grid, turn, announced, outbox, pending, chan, send_map>>,
         \A x \in Ranks \ {r} : send_halos_map'[x] = send_halos_map[x]
  PROVE  SendInv'
<1>1. Ranks' = Ranks /\ domains' = domains /\ TagInv /\ SendInv
  BY DEF Ranks, domains, PairInv
<1>2. \A q \in Ranks : pc'[q] \in InTurns <=> pc[q] \in InTurns
  BY <1>1, Places DEF TagInv, TagTypes
<1>3. \A x \in Ranks, q \in Ranks : Heard(x, q)' = Heard(x, q) /\ (x = r => Heard(x, q) = 0)
  BY EarlyTurns
<1>4. ASSUME NEW q \in Ranks, NEW m \in DOMAIN domains[q] PROVE HoldsFor(q, m)'
  BY <1>1, <1>2, <1>3, HoldsSame DEF SendInv
<1> QED
  BY <1>1, <1>4 DEF SendInv

\* The steps before the turns, one by one.
LEMMA GatherDomainsPairs ==
  ASSUME PairInv, NEW r \in Ranks, GatherDomains(r) PROVE PairInv'
<1>1. /\ pc[r] = "domains" /\ pc' = [pc EXCEPT ![r] = "halos"]
      /\ UNCHANGED <<grid, recv_map, turn, announced, outbox, pending, chan, send_map, send_halos_map>>
  BY DEF GatherDomains, config
<1>2. pc[r] \notin InTurns /\ "halos" \notin Numbered /\ "halos" \notin Agreed
  BY <1>1, Places, Unnumbered
<1>3. TagInv'
  BY GatherDomainsKeeps DEF PairInv
<1>4. MapInv'
  BY <1>1, <1>2, MapKeeps DEF PairInv, MapInv
<1>5. TurnInv' /\ ChanInv' /\ SendInv'
  BY <1>1, <1>2, EarlyTurns, EarlySends
<1> QED
  BY <1>3, <1>4, <1>5 DEF PairInv

LEMMA FindHalosPairs ==
  ASSUME PairInv, NEW r \in Ranks, FindHalos(r) PROVE PairInv'
<1>1. /\ pc[r] = "halos" /\ pc' = [pc EXCEPT ![r] = "number"]
      /\ recv_map' = [recv_map EXCEPT ![r] = Received[grid][r]]
      /\ UNCHANGED <<grid, turn, announced, outbox, pending, chan, send_map, send_halos_map>>
  BY DEF FindHalos, config
<1>2. pc[r] \notin InTurns /\ "number" \notin Numbered /\ "number" \notin Agreed
  BY <1>1, Places, Unnumbered
<1>3. TagInv'
  BY FindHalosKeeps DEF PairInv
<1>4. \A x \in Ranks \ {r} : recv_map'[x] = recv_map[x] /\ send_halos_map'[x] = send_halos_map[x]
  BY <1>1
<1>5. MapInv'
  BY <1>1, <1>2, <1>4, MapKeeps DEF PairInv, MapInv
<1>6. TurnInv' /\ ChanInv' /\ SendInv'
  BY <1>1, <1>2, EarlyTurns, EarlySends
<1> QED
  BY <1>3, <1>5, <1>6 DEF PairInv

\* Numbering changes the tags and nothing else of what is found.
LEMMA NumberTagsPairs ==
  ASSUME PairInv, NEW r \in Ranks, NumberTags(r) PROVE PairInv'
<1>1. /\ pc[r] = "number" /\ pc' = [pc EXCEPT ![r] = "tags"]
      /\ recv_map' = [recv_map EXCEPT ![r] =
                        [i \in DOMAIN @ |-> [id \in DOMAIN @[i] |-> [@[i][id] EXCEPT !.tag = TagOf(r, i, id)]]]]
      /\ UNCHANGED <<grid, turn, announced, outbox, pending, chan, send_map, send_halos_map>>
  BY DEF NumberTags, config
<1>2. pc[r] \notin InTurns /\ "tags" \notin Agreed
  BY <1>1, Places, Unnumbered
<1>3. TagInv'
  BY NumberTagsKeeps DEF PairInv
<1>4. \A x \in Ranks \ {r} : recv_map'[x] = recv_map[x] /\ send_halos_map'[x] = send_halos_map[x]
  BY <1>1
<1>5. PICK R : R = Received[grid][r] /\ recv_map[r] = R /\ DOMAIN recv_map = Ranks
  BY <1>1 DEF PairInv, TagInv, Tagged, TagTypes
<1>6. recv_map'[r] = [i \in DOMAIN R |-> [id \in DOMAIN R[i] |-> [R[i][id] EXCEPT !.tag = TagOf(r, i, id)]]]
  BY <1>1, <1>5
<1>7. Received' = Received /\ grid' = grid
  BY <1>1 DEF Received
<1>8. Found(r)'
  <2>1. DOMAIN recv_map'[r] = DOMAIN R
    BY <1>6
  <2>2. ASSUME NEW i \in DOMAIN R
        PROVE  /\ DOMAIN recv_map'[r][i] = DOMAIN R[i]
               /\ \A id \in DOMAIN R[i] : /\ recv_map'[r][i][id].rank = R[i][id].rank
                                          /\ recv_map'[r][i][id].spaces = R[i][id].spaces
    <3>1. recv_map'[r][i] = [id \in DOMAIN R[i] |-> [R[i][id] EXCEPT !.tag = TagOf(r, i, id)]]
      BY <1>6
    <3>2. ASSUME NEW id \in DOMAIN R[i]
          PROVE  /\ recv_map'[r][i][id].rank = R[i][id].rank
                 /\ recv_map'[r][i][id].spaces = R[i][id].spaces
      <4>1. \E rank, spaces : R[i][id] = [rank |-> rank, tag |-> 0, spaces |-> spaces]
        <5>1. grid \in Grids /\ r \in RanksOf(grid)
          BY DEF PairInv, TagInv, TagTypes, Ranks
        <5>2. i \in DOMAIN Received[grid][r] /\ id \in DOMAIN Received[grid][r][i]
          BY <1>5
        <5>3. \E rank, spaces : Received[grid][r][i][id] = [rank |-> rank, tag |-> 0, spaces |-> spaces]
          BY <5>1, <5>2, FoundKeyed
        <5> QED
          BY <5>3, <1>5
      <4>2. recv_map'[r][i][id] = [R[i][id] EXCEPT !.tag = TagOf(r, i, id)]
        BY <3>1
      <4> QED
        BY <4>1, <4>2
    <3> QED
      BY <3>1, <3>2
  <2> QED
    BY <2>1, <2>2, <1>5, <1>7 DEF Found
<1>9. MapInv'
  BY <1>1, <1>2, <1>4, <1>8, MapKeeps DEF PairInv, MapInv
<1>10. TurnInv' /\ ChanInv' /\ SendInv'
  BY <1>1, <1>2, EarlyTurns, EarlySends
<1> QED
  BY <1>3, <1>9, <1>10 DEF PairInv

LEMMA GatherTagsPairs ==
  ASSUME PairInv, NEW r \in Ranks, GatherTags(r) PROVE PairInv'
<1>1. /\ pc[r] = "tags" /\ pc' = [pc EXCEPT ![r] = "own"]
      /\ send_halos_map' = [send_halos_map EXCEPT ![r] = [q \in Peers(r) |-> SendHalos(r, q)]]
      /\ UNCHANGED <<grid, recv_map, turn, announced, outbox, pending, chan, send_map>>
  BY DEF GatherTags, config
<1>2. pc[r] \notin InTurns /\ "tags" \in Numbered
  BY <1>1, Places, Unnumbered
<1>3. TagInv'
  BY GatherTagsKeeps DEF PairInv
<1>4. /\ DOMAIN send_halos_map' = Ranks
      /\ send_halos_map'[r] = [q \in Peers(r) |-> SendHalos(r, q)]
      /\ \A x \in Ranks \ {r} : recv_map'[x] = recv_map[x] /\ send_halos_map'[x] = send_halos_map[x]
  BY <1>1 DEF PairInv, MapInv
<1>5. Found(r)'
  BY <1>1, <1>2, FoundSame DEF PairInv, MapInv
<1>6. MapInv'
  BY <1>1, <1>4, <1>5, MapKeeps
<1>7. TurnInv' /\ ChanInv' /\ SendInv'
  BY <1>1, <1>2, <1>4, EarlyTurns, EarlySends
<1> QED
  BY <1>3, <1>6, <1>7 DEF PairInv

\* A rank that keeps its own halos has them and none of the others.
LEMMA KeepOwnPairs ==
  ASSUME PairInv, NEW r \in Ranks, KeepOwn(r) PROVE PairInv'
<1>1. /\ pc[r] = "own" /\ pc' = [pc EXCEPT ![r] = "turn"]
      /\ UNCHANGED <<grid, recv_map, turn, announced, outbox, pending, chan, send_halos_map, max_tag, entered>>
  BY DEF KeepOwn, config
<1>2. pc[r] \notin InTurns /\ "turn" \in InTurns /\ pc[r] \in Agreed /\ pc[r] \in Numbered /\ "turn" \in Agreed
  BY <1>1, Places, Unnumbered
<1>3. TagInv'
  BY <1>1, <1>2, LaterKeeps DEF PairInv
<1>4. Ranks' = Ranks /\ domains' = domains /\ TagInv /\ MapInv /\ TurnInv /\ SendInv
  BY <1>1 DEF Ranks, domains, PairInv
<1>5. MapInv'
  BY <1>1, <1>2, <1>4, MapKeeps, FoundSame DEF MapInv
<1>6. /\ TurnInv' /\ ChanInv'
      /\ \A x \in Ranks, q \in Ranks : Heard(x, q)' = Heard(x, q)
  BY <1>1, <1>2, EarlyTurns
<1>7. \A q \in Ranks : pc'[q] = IF q = r THEN "turn" ELSE pc[q]
  BY <1>1, <1>4 DEF TagInv, TagTypes
<1>8. DOMAIN send_map = Ranks /\ DOMAIN send_map[r] = DOMAIN domains[r]
      /\ \A m \in DOMAIN domains[r] : send_map[r][m] = << >>
  BY <1>2, <1>4 DEF SendInv, HoldsFor
<1>9. PICK own : own = IF r \in DOMAIN send_halos_map[r] THEN send_halos_map[r][r] ELSE << >>
  OBVIOUS
<1>10. /\ DOMAIN send_map' = Ranks /\ \A q \in Ranks \ {r} : send_map'[q] = send_map[q]
       /\ DOMAIN send_map'[r] = DOMAIN domains[r]
       /\ \A m \in DOMAIN domains[r] :
            send_map'[r][m] = IF domains[r][m].id \in DOMAIN own THEN own[domains[r][m].id] ELSE << >>
  <2>1. CASE r \in DOMAIN send_halos_map[r]
    <3>1. send_map' = [send_map EXCEPT ![r] =
            [i \in DOMAIN @ |-> IF domains[r][i].id \in DOMAIN own THEN own[domains[r][i].id] ELSE @[i]]]
      BY <2>1, <1>9 DEF KeepOwn
    <3>2. send_map'[r] =
            [i \in DOMAIN domains[r] |->
               IF domains[r][i].id \in DOMAIN own THEN own[domains[r][i].id] ELSE send_map[r][i]]
      BY <3>1, <1>8
    <3> QED
      BY <3>1, <3>2, <1>8
  <2>2. CASE r \notin DOMAIN send_halos_map[r]
    <3>1. send_map' = send_map
      BY <2>2 DEF KeepOwn
    <3>2. own = << >> /\ DOMAIN own = {}
      BY <2>2, <1>9
    <3> QED
      BY <3>1, <3>2, <1>8
  <2> QED
    BY <2>1, <2>2
<1>11. ASSUME NEW m \in DOMAIN domains[r] PROVE HoldsFor(r, m)'
  <2>1. PICK id : id = domains[r][m].id
    OBVIOUS
  <2>2. \A x \in Ranks \ {r} : Held(x, r)' = {}
    <3>1. ASSUME NEW x \in Ranks \ {r} PROVE Held(x, r)' = {}
      <4>1. Heard(x, r)' = 0
        BY <1>2, <1>4, <1>6, HeardNothing
      <4>2. \A n : n \notin 2 .. 0
        OBVIOUS
      <4> QED
        BY <4>1, <4>2 DEF Held
    <3> QED
      BY <3>1
  <2>3. Held(r, r)' = DOMAIN own
    <3>1. DOMAIN << >> = {}
      OBVIOUS
    <3> QED
      BY <3>1, <1>1, <1>9 DEF Held
  <2>4. PICK from : from = {x \in Ranks : id \in Held(x, r)'}
    OBVIOUS
  <2>5. CASE id \in DOMAIN own
    <3>1. from = {r} /\ SendFor(r, r, id)' = own[id] /\ send_map'[r][m] = own[id]
      <4>1. r \in DOMAIN send_halos_map[r]
        BY <2>5, <1>9
      <4> QED
        BY <2>1, <2>2, <2>3, <2>4, <2>5, <4>1, <1>1, <1>9, <1>10 DEF SendFor
    <3>2. UNION {DOMAIN SendFor(x, r, id)' : x \in from} = DOMAIN own[id]
      BY <3>1
    <3> QED
      BY <2>1, <2>4, <3>1, <3>2, <1>2, <1>4, <1>7 DEF HoldsFor
  <2>6. CASE id \notin DOMAIN own
    <3>1. from = {} /\ send_map'[r][m] = << >> /\ DOMAIN << >> = {}
      BY <2>1, <2>2, <2>3, <2>4, <2>6, <1>10
    <3>2. UNION {DOMAIN SendFor(x, r, id)' : x \in from} = {}
      BY <3>1
    <3> QED
      BY <2>1, <2>4, <3>1, <3>2, <1>2, <1>4, <1>7 DEF HoldsFor
  <2> QED
    BY <2>5, <2>6
<1>12. ASSUME NEW q \in Ranks \ {r}, NEW m \in DOMAIN domains[q] PROVE HoldsFor(q, m)'
  BY <1>1, <1>4, <1>6, <1>7, <1>10, HoldsSame DEF SendInv
<1>13. SendInv'
  BY <1>4, <1>8, <1>10, <1>11, <1>12 DEF SendInv
<1> QED
  BY <1>3, <1>5, <1>6, <1>13 DEF PairInv

----------------------------------------------------------------------------
(***************************************************************************)
(* The steps in the turns.                                                 *)
(***************************************************************************)

\* A step in the turns that is no receive leaves what the ranks hold.
LEMMA QuietKeeps ==
  ASSUME PairInv, NEW r \in Ranks, pc[r] \in InTurns, NEW at \in InTurns, pc' = [pc EXCEPT ![r] = at],
         UNCHANGED <<grid, recv_map, max_tag, entered, send_map, send_halos_map>>
  PROVE  /\ TagInv' /\ MapInv'
         /\ (\A x \in Ranks, q \in Ranks : Heard(x, q)' = Heard(x, q)) => SendInv'
<1>1. Ranks' = Ranks /\ domains' = domains /\ TagInv /\ MapInv /\ SendInv
  BY DEF Ranks, domains, PairInv
<1>2. pc[r] \in Agreed /\ at \in Agreed
  BY Places
<1>3. TagInv'
  BY <1>1, <1>2, LaterKeeps
<1>4. MapInv'
  BY <1>1, <1>2, MapKeeps, FoundSame, Unnumbered DEF MapInv
<1>5. ASSUME \A x \in Ranks, q \in Ranks : Heard(x, q)' = Heard(x, q) PROVE SendInv'
  <2>1. \A q \in Ranks : pc'[q] \in InTurns <=> pc[q] \in InTurns
    BY <1>1 DEF TagInv, TagTypes
  <2>2. ASSUME NEW q \in Ranks, NEW m \in DOMAIN domains[q] PROVE HoldsFor(q, m)'
    BY <1>1, <1>5, <2>1, HoldsSame DEF SendInv
  <2> QED
    BY <1>1, <2>2 DEF SendInv
<1> QED
  BY <1>3, <1>4, <1>5

\* A root is in its turn and so has agreed; who it has announced is another rank.
LEMMA RootFacts ==
  ASSUME PairInv, NEW r \in Ranks, announced[r] # NotYet
  PROVE  pc[r] \in InTurns /\ pc[r] \in Agreed /\ announced[r] = DOMAIN send_halos_map[r] \ {r}
<1>1. InTurn(r) /\ r \in Nat
  BY DomainNames DEF PairInv, TurnInv, TagInv, TagTypes
<1>2. turn[r] > r \/ pc[r] = "send"
  BY <1>1 DEF InTurn
<1>3. pc[r] \in InTurns
  <2>1. turn[r] = 0 => ~(turn[r] > r)
    BY <1>1
  <2> QED
    BY <1>1, <1>2, <2>1, Places DEF InTurn
<1> QED
  BY <1>1, <1>3, Places DEF InTurn

\* A root announces before anyone has heard of it.
LEMMA AnnouncePairs ==
  ASSUME PairInv, NEW r \in Ranks, Announce(r) PROVE PairInv'
<1>1. /\ pc[r] = "turn" /\ turn[r] = r /\ pc' = [pc EXCEPT ![r] = "send"]
      /\ announced' = [announced EXCEPT ![r] = DOMAIN send_halos_map[r] \ {r}]
      /\ outbox' = [outbox EXCEPT ![r] = Outbox(r)]
      /\ UNCHANGED <<grid, recv_map, max_tag, entered, turn, pending, chan, send_map, send_halos_map>>
  BY DEF Announce, config
<1>2. pc[r] \in InTurns /\ "send" \in InTurns /\ pc[r] \in Agreed
  BY <1>1, Places
<1>3. Ranks' = Ranks /\ TagInv /\ MapInv /\ TurnInv /\ ChanInv
  BY <1>1 DEF Ranks, PairInv
<1>4. Ranks = 0 .. Cardinality(Ranks) - 1 /\ Cardinality(Ranks) \in Nat
  BY <1>3, DomainNames DEF TagInv, TagTypes
<1>5. announced[r] = NotYet
  <2>1. InTurn(r)
    BY <1>3 DEF TurnInv
  <2>2. ~(turn[r] > r)
    BY <1>1, <1>4
  <2> QED
    BY <2>1, <2>2, <1>1 DEF InTurn
<1>6. \A q \in Ranks \ {r} : ~(turn[q] > r) /\ ~(turn[q] = r /\ pending[q] # Unknown)
  BY <1>3, <1>5 DEF TurnInv, InTurn
<1>7. ~(turn[r] > r) /\ pending[r] = Unknown
  BY <1>1, <1>3, <1>4 DEF TurnInv, InTurn
<1>8. DOMAIN send_halos_map[r] \ {r} # NotYet
  <2>1. DOMAIN send_halos_map[r] \subseteq Ranks /\ -1 \notin Ranks
    BY <1>2, <1>3, <1>4, GivenHalos
  <2> QED
    BY <2>1 DEF NotYet
<1>9. /\ DOMAIN announced = Ranks /\ DOMAIN outbox = Ranks
      /\ \A q \in Ranks : /\ pc'[q] = IF q = r THEN "send" ELSE pc[q]
                          /\ announced'[q] = IF q = r THEN DOMAIN send_halos_map[r] \ {r} ELSE announced[q]
                          /\ outbox'[q] = IF q = r THEN Outbox(r) ELSE outbox[q]
  BY <1>1, <1>3 DEF TagInv, TagTypes, TurnInv
<1>10. ASSUME NEW x \in Ranks, NEW q \in Ranks PROVE Heard(x, q)' = Heard(x, q) /\ (x = r => Heard(x, q) = 0)
  <2>1. Total(x, q)' = Total(x, q)
    BY <1>1, OutboxSame
  <2>2. CASE x = r
    BY <2>2, <1>1, <1>5, <1>6, <1>7 DEF Heard
  <2>3. CASE x # r
    BY <2>1, <2>3, <1>1, <1>9 DEF Heard
  <2> QED
    BY <2>2, <2>3
<1>11. ASSUME NEW x \in Ranks PROVE InTurn(x)'
  <2>1. InTurn(x)
    BY <1>3 DEF TurnInv
  <2>2. \A s \in Ranks : announced[s] # NotYet => announced'[s] # NotYet
    BY <1>5, <1>9
  <2>3. CASE x = r
    <3>1. pc'[x] = "send" /\ pending'[x] = Unknown /\ turn'[x] = x /\ announced'[x] = DOMAIN send_halos_map'[x] \ {x}
          /\ announced'[x] # NotYet
      BY <2>3, <1>1, <1>7, <1>8, <1>9
    <3>2. turn'[x] \in 0 .. Cardinality(Ranks) /\ \A s \in Ranks \ {x} : turn'[x] > s => announced'[s] # NotYet
      BY <2>1, <2>2, <1>1 DEF InTurn
    <3> QED
      BY <3>1, <3>2, <1>2, <1>3 DEF InTurn
  <2>4. CASE x # r
    <3>1. pc'[x] = pc[x] /\ announced'[x] = announced[x]
      BY <2>4, <1>9
    <3>2. pc[x] = "recv" => turn[x] # r
      BY <2>1, <2>4, <1>5, <1>6 DEF InTurn
    <3>3. pc[x] = "recv" => turn[x] \in Ranks \ {x} /\ x \in announced'[turn[x]]
      BY <2>1, <3>2, <1>9 DEF InTurn
    <3> QED
      BY <2>1, <2>2, <3>1, <3>3, <1>1, <1>3 DEF InTurn
  <2> QED
    BY <2>3, <2>4
<1>12. TurnInv'
  BY <1>1, <1>3, <1>9, <1>11 DEF TurnInv
<1>13. SentBy(r)'
  <2>1. Outbox(r)' = Outbox(r) /\ Entries(r)' = Entries(r) /\ \A q : For(r, q)' = For(r, q)
    BY <1>1, OutboxSame
  <2>2. /\ Len(Outbox(r)) \in Nat /\ DOMAIN Outbox(r) = 1 .. Len(Outbox(r))
        /\ Outbox(r) \in Seq(Entries(r))
    BY <1>2, <1>3, OutboxFacts
  <2>3. outbox'[r] = Outbox(r) /\ Gone(r)' = 0
    BY <2>1, <2>2, <1>9 DEF Gone
  <2>4. ASSUME NEW q \in Ranks PROVE Carried(r, q)'
    <3>1. Heard(r, q)' = 0 /\ chan'[<<r, q>>] = << >>
      BY <1>1, <1>3, <1>5, <1>10 DEF ChanInv, SentBy
    <3>2. Upto(For(r, q)', Gone(r)') = 0
      BY <2>3, UptoStep
    <3>3. << >> \in Seq(Bodies(r, q)') /\ Len(<< >>) = 0
      OBVIOUS
    <3>4. \A j \in For(r, q)' : ~(j <= 0)
      BY <2>1, <2>2 DEF For
    <3>5. ~(turn'[q] = r /\ pending'[q] # Unknown)
      BY <1>1, <1>6, <1>7
    <3> QED
      BY <2>3, <3>1, <3>2, <3>3, <3>4, <3>5 DEF Carried
  <2>5. Gone(r)' \in 0 .. Len(Outbox(r)') /\ \A n \in 1 .. Len(outbox'[r]) : outbox'[r][n] = Outbox(r)'[Gone(r)' + n]
    BY <2>1, <2>2, <2>3
  <2>6. announced'[r] # NotYet /\ outbox'[r] \in Seq(Entries(r)')
    BY <2>1, <2>2, <2>3, <1>8, <1>9
  <2> QED
    BY <2>4, <2>5, <2>6, <1>3 DEF SentBy
<1>14. ASSUME NEW x \in Ranks \ {r} PROVE SentBy(x)'
  BY <1>1, <1>3, <1>9, <1>10, SentSame DEF ChanInv
<1>15. TagInv' /\ MapInv' /\ SendInv'
  BY <1>1, <1>2, <1>10, QuietKeeps
<1> QED
  BY <1>3, <1>12, <1>13, <1>14, <1>15 DEF PairInv, ChanInv

\* A message goes from the rest that a root has into the channel.
LEMMA SendPairs ==
  ASSUME PairInv, NEW r \in Ranks, Send(r) PROVE PairInv'
<1>1. PICK q : /\ q = Head(outbox[r]).dest /\ pc[r] = "send" /\ outbox[r] # << >>
               /\ chan' = [chan EXCEPT ![<<r, q>>] = Append(@, Head(outbox[r]).body)]
               /\ outbox' = [outbox EXCEPT ![r] = Tail(@)]
               /\ UNCHANGED <<grid, pc, recv_map, max_tag, entered, turn, pending, announced, send_map, send_halos_map>>
  BY DEF Send, config
<1>2. pc[r] \in InTurns /\ pc[r] \in Agreed
  BY <1>1, Places
<1>3. Ranks' = Ranks /\ TagInv /\ MapInv /\ TurnInv /\ ChanInv
  BY <1>1 DEF Ranks, PairInv
<1>4. announced[r] # NotYet
  BY <1>1, <1>3 DEF TurnInv, InTurn
<1>5. pc' = [pc EXCEPT ![r] = pc[r]]
  BY <1>1, <1>3 DEF TagInv, TagTypes
<1>6. PICK out, rest, L : out = Outbox(r) /\ rest = outbox[r] /\ L = Len(out)
  OBVIOUS
<1>7. /\ L \in Nat /\ DOMAIN out = 1 .. L
      /\ \A p : For(r, p) \subseteq 1 .. L /\ For(r, p) \in SUBSET Nat
      /\ \A j \in 1 .. L : out[j].dest \in Ranks
  BY <1>2, <1>3, <1>6, ForFacts
<1>8. /\ Gone(r) \in 0 .. L /\ rest \in Seq(Entries(r)) /\ Gone(r) = L - Len(rest)
      /\ \A n \in 1 .. Len(rest) : rest[n] = out[Gone(r) + n]
      /\ \A p \in Ranks : Carried(r, p)
  BY <1>3, <1>4, <1>6 DEF ChanInv, SentBy, Gone
<1>9. PICK tail : tail = Tail(rest)
  OBVIOUS
<1>10. /\ tail \in Seq(Entries(r)) /\ Len(rest) \in Nat /\ Len(rest) = Len(tail) + 1
       /\ Len(tail) \in Nat /\ \A j \in 1 .. Len(tail) : tail[j] = rest[j + 1]
  BY <1>1, <1>6, <1>8, <1>9, TailFacts
<1>11. PICK g : g = Gone(r)
  OBVIOUS
<1>12. /\ g \in Nat /\ g + 1 \in 1 .. L /\ Head(rest) = out[g + 1] /\ q = out[g + 1].dest /\ q \in Ranks
  <2>1. g + 1 \in 1 .. L /\ g \in Nat
    BY <1>7, <1>8, <1>10, <1>11
  <2>2. Head(rest) = rest[1] /\ 1 \in 1 .. Len(rest)
    BY <1>8, <1>10
  <2> QED
    BY <2>1, <2>2, <1>1, <1>6, <1>7, <1>8, <1>11
<1>13. \A p \in Ranks : (g + 1 \in For(r, p) <=> p = q)
  BY <1>6, <1>7, <1>12 DEF For
<1>14. DOMAIN chan = Ranks \X Ranks /\ DOMAIN outbox = Ranks
  BY <1>3 DEF TurnInv
<1>15. /\ outbox'[r] = tail /\ \A x \in Ranks \ {r} : outbox'[x] = outbox[x]
       /\ chan'[<<r, q>>] = Append(chan[<<r, q>>], out[g + 1].body)
       /\ \A x \in Ranks, p \in Ranks : <<x, p>> # <<r, q>> => chan'[<<x, p>>] = chan[<<x, p>>]
  BY <1>1, <1>6, <1>9, <1>12, <1>14
<1>16. /\ Outbox(r)' = out /\ Entries(r)' = Entries(r) /\ Gone(r)' = g + 1
       /\ \A p : For(r, p)' = For(r, p) /\ Total(r, p)' = Total(r, p) /\ Bodies(r, p)' = Bodies(r, p)
  <2>1. /\ Outbox(r)' = out /\ Entries(r)' = Entries(r)
        /\ \A p : For(r, p)' = For(r, p) /\ Total(r, p)' = Total(r, p) /\ Bodies(r, p)' = Bodies(r, p)
    BY <1>1, <1>6, OutboxSame
  <2>2. Gone(r)' = L - Len(tail)
    BY <2>1, <1>6, <1>15 DEF Gone
  <2>3. L - Len(tail) = g + 1
    <3>1. PICK k, m : k = Len(tail) /\ m = Len(rest)
      OBVIOUS
    <3>2. L \in Nat /\ k \in Nat /\ m = k + 1 /\ g = L - m
      BY <1>7, <1>8, <1>10, <1>11, <3>1
    <3>3. L - k = g + 1
      BY ONLY <3>2
    <3> QED
      BY <3>1, <3>3
  <2>4. Gone(r)' = g + 1
    BY <2>2, <2>3
  <2> QED
    BY <2>1, <2>4
<1>17. \A x, p : Heard(x, p)' = Heard(x, p)
  <2>1. ASSUME NEW x, NEW p PROVE Heard(x, p)' = Heard(x, p)
    <3>1. Total(x, p)' = Total(x, p)
      BY <1>1, OutboxSame
    <3> QED
      BY <3>1, <1>1 DEF Heard
  <2> QED
    BY <2>1
<1>18. ASSUME NEW p \in Ranks PROVE Carried(r, p)'
  <2>1. PICK f, h, c : f = For(r, p) /\ h = Heard(r, p) /\ c = chan[<<r, p>>]
    OBVIOUS
  <2>2. PICK B : B = Bodies(r, p)
    OBVIOUS
  <2>3. /\ h \in Nat /\ c \in Seq(B) /\ Upto(f, g) = h + Len(c)
        /\ \A j \in f : j <= g /\ Upto(f, j) > h => c[Upto(f, j) - h] = out[j].body
        /\ turn[p] = r /\ pending[p] # Unknown => pending[p] \in 1 .. Total(r, p) - 1
    BY <2>1, <2>2, <1>6, <1>8, <1>11 DEF Carried
  <2>4. f \in SUBSET Nat /\ Len(c) \in Nat /\ Upto(f, g) \in Nat
    BY <2>1, <2>3, <1>7, <1>12, UptoStep
  <2>5. PICK d : d = chan'[<<r, p>>]
    OBVIOUS
  <2>6. SUFFICES /\ d \in Seq(B) /\ Upto(f, g + 1) = h + Len(d)
                 /\ \A j \in f : j <= g + 1 /\ Upto(f, j) > h => d[Upto(f, j) - h] = out[j].body
    BY <2>1, <2>2, <2>3, <2>5, <1>1, <1>16, <1>17 DEF Carried
  <2>7. CASE p # q
    <3>1. g + 1 \notin f /\ d = c
      BY <2>1, <2>5, <2>7, <1>13, <1>15
    <3>2. Upto(f, g + 1) = Upto(f, g)
      BY <3>1, <1>12, UptoStep
    <3>3. \A j \in f : j <= g + 1 => j <= g
      BY <3>1, <2>4, <1>12
    <3> QED
      BY <2>3, <3>1, <3>2, <3>3
  <2>8. CASE p = q
    <3>0. g + 1 \in f /\ out[g + 1].body \in B
      BY <2>1, <2>2, <2>8, <1>6, <1>13, <1>12 DEF Bodies
    <3>1. g + 1 \in f /\ d = Append(c, out[g + 1].body) /\ out[g + 1].body \in B
      BY <3>0, <2>1, <2>5, <2>8, <1>15
    <3>2. d \in Seq(B) /\ Len(d) = Len(c) + 1 /\ d[Len(c) + 1] = out[g + 1].body
          /\ \A j \in 1 .. Len(c) : d[j] = c[j]
      BY <3>1, <2>3, AppendFacts
    <3>3. Upto(f, g + 1) = Upto(f, g) + 1
      BY <3>1, <1>12, UptoStep
    <3>4. ASSUME NEW j \in f, j <= g + 1, Upto(f, j) > h PROVE d[Upto(f, j) - h] = out[j].body
      <4>1. CASE j = g + 1
        <5>1. Upto(f, j) - h = Len(c) + 1
          BY <4>1, <3>3, <2>3, <2>4
        <5> QED
          BY <4>1, <5>1, <3>2
      <4>2. CASE j # g + 1
        <5>1. j \in Nat /\ j <= g /\ j \in 0 .. g
          BY <4>2, <3>4, <2>4, <1>12
        <5>2. Upto(f, j) \in Nat /\ Upto(f, j) <= Upto(f, g)
          BY <5>1, <1>12, UptoMonotone
        <5>3. Upto(f, j) - h \in 1 .. Len(c)
          BY <5>2, <3>4, <2>3, <2>4
        <5> QED
          BY <5>1, <5>3, <3>2, <3>4, <2>3
      <4> QED
        BY <4>1, <4>2
    <3> QED
      BY <2>3, <2>4, <3>2, <3>3, <3>4
  <2> QED
    BY <2>7, <2>8
<1>19. SentBy(r)'
  <2>1. Gone(r)' \in 0 .. Len(Outbox(r)')
    BY <1>6, <1>7, <1>12, <1>16
  <2>2. outbox'[r] \in Seq(Entries(r)') /\ outbox'[r] = tail
    BY <1>10, <1>15, <1>16
  <2>3. ASSUME NEW n \in 1 .. Len(tail) PROVE tail[n] = out[(g + 1) + n]
    <3>1. n + 1 \in 1 .. Len(rest) /\ g + (n + 1) = (g + 1) + n
      BY <1>10, <1>12
    <3> QED
      BY <3>1, <1>8, <1>10, <1>11
  <2>4. \A n \in 1 .. Len(outbox'[r]) : outbox'[r][n] = Outbox(r)'[Gone(r)' + n]
    BY <2>2, <2>3, <1>16
  <2>5. announced'[r] # NotYet /\ \A p \in Ranks' : Carried(r, p)'
    BY <1>1, <1>3, <1>4, <1>18
  <2> QED
    BY <2>1, <2>2, <2>4, <2>5 DEF SentBy
<1>20. ASSUME NEW x \in Ranks \ {r} PROVE SentBy(x)'
  BY <1>1, <1>3, <1>15, <1>17, SentSame DEF ChanInv
<1>21. ASSUME NEW x \in Ranks PROVE InTurn(x)'
  BY <1>1, <1>3 DEF TurnInv, InTurn
<1>22. TurnInv'
  BY <1>1, <1>3, <1>14, <1>21 DEF TurnInv
<1>23. TagInv' /\ MapInv' /\ SendInv'
  BY <1>1, <1>2, <1>5, <1>17, QuietKeeps
<1> QED
  BY <1>3, <1>19, <1>20, <1>22, <1>23 DEF PairInv, ChanInv

\* A step in a turn that leaves it as it is and hands nothing on.
LEMMA StayPairs ==
  ASSUME PairInv, NEW r \in Ranks, pc[r] = "turn", NEW at \in InTurns, pc' = [pc EXCEPT ![r] = at],
         UNCHANGED <<config, turn, entered, recv_map, send_map, send_halos_map, max_tag, announced, outbox,
                     pending, chan>>,
         InTurn(r)'
  PROVE  PairInv'
<1>1. UNCHANGED <<grid, recv_map, max_tag, entered, turn, pending, chan, announced, outbox, send_map, send_halos_map>>
  BY DEF config
<1>2. Ranks' = Ranks /\ TagInv /\ TurnInv /\ ChanInv
  BY <1>1 DEF Ranks, PairInv
<1>3. \A q \in Ranks : pc'[q] = IF q = r THEN at ELSE pc[q]
  BY <1>2 DEF TagInv, TagTypes
<1>4. \A x, q : Heard(x, q)' = Heard(x, q)
  <2>1. ASSUME NEW x, NEW q PROVE Heard(x, q)' = Heard(x, q)
    <3>1. Total(x, q)' = Total(x, q)
      BY <1>1, OutboxSame
    <3> QED
      BY <3>1, <1>1 DEF Heard
  <2> QED
    BY <2>1
<1>5. TagInv' /\ MapInv' /\ SendInv'
  <2>1. pc[r] \in InTurns
    BY Places
  <2> QED
    BY <2>1, <1>1, <1>4, QuietKeeps
<1>6. ChanInv'
  <2>1. ASSUME NEW x \in Ranks PROVE SentBy(x)'
    BY <1>1, <1>2, <1>4, SentSame DEF ChanInv
  <2> QED
    BY <2>1, <1>2 DEF ChanInv
<1>7. TurnInv'
  <2>1. ASSUME NEW x \in Ranks \ {r} PROVE InTurn(x)'
    <3>1. pc'[x] = pc[x] /\ InTurn(x)
      BY <1>2, <1>3 DEF TurnInv
    <3> QED
      BY <3>1, <1>1, <1>2 DEF InTurn
  <2> QED
    BY <2>1, <1>1, <1>2 DEF TurnInv
<1> QED
  BY <1>5, <1>6, <1>7 DEF PairInv

\* A turn that has nothing for a rank passes: the root's own, and one of a root that
\* has not announced it.
LEMMA PassPairs ==
  ASSUME PairInv, NEW r \in Ranks, pc[r] \in {"turn", "send"}, turn[r] \in Ranks, announced[turn[r]] # NotYet,
         r \notin announced[turn[r]], turn' = [turn EXCEPT ![r] = @ + 1], pc' = [pc EXCEPT ![r] = "turn"],
         UNCHANGED <<config, entered, recv_map, send_map, send_halos_map, max_tag, announced, outbox,
                     pending, chan>>
  PROVE  PairInv'
<1>1. UNCHANGED <<grid, recv_map, max_tag, entered, pending, chan, announced, outbox, send_map, send_halos_map>>
  BY DEF config
<1>2. Ranks' = Ranks /\ TagInv /\ MapInv /\ TurnInv /\ ChanInv
  BY <1>1 DEF Ranks, PairInv
<1>3. PICK y \in Ranks : y = turn[r]
  OBVIOUS
<1>4. /\ \A q \in Ranks : /\ pc'[q] = IF q = r THEN "turn" ELSE pc[q]
                          /\ turn'[q] = IF q = r THEN y + 1 ELSE turn[q]
      /\ DOMAIN turn' = Ranks
  BY <1>2, <1>3 DEF TagInv, TagTypes, TurnInv
<1>5. /\ Ranks = 0 .. Cardinality(Ranks) - 1 /\ Cardinality(Ranks) \in Nat
      /\ \A x \in Ranks : x \in Nat
  BY <1>2, DomainNames DEF TagInv, TagTypes
<1>6. pending[r] = Unknown /\ pc[r] # "recv" /\ pc[r] \in InTurns /\ InTurn(r)
  BY <1>2, Places DEF TurnInv, InTurn
<1>7. Total(y, r) = 0 /\ \A x, q : Total(x, q)' = Total(x, q)
  <2>1. pc[y] \in Agreed /\ r \notin DOMAIN send_halos_map[y] \ {y}
    BY <1>3, RootFacts
  <2>2. Total(y, r) = 0
    BY <2>1, <1>2, ForFacts
  <2>3. ASSUME NEW x, NEW q PROVE Total(x, q)' = Total(x, q)
    BY <1>1, OutboxSame
  <2> QED
    BY <2>2, <2>3
<1>8. ASSUME NEW x \in Ranks, NEW q \in Ranks PROVE Heard(x, q)' = Heard(x, q)
  <2>1. CASE q # r
    BY <2>1, <1>1, <1>4, <1>7 DEF Heard
  <2>2. CASE q = r /\ x = y
    <3>1. Heard(x, q) = 0
      BY <2>2, <1>3, <1>6, <1>7 DEF Heard
    <3>2. Heard(x, q)' = 0
      BY <2>2, <1>1, <1>4, <1>6, <1>7 DEF Heard
    <3> QED
      BY <3>1, <3>2
  <2>3. CASE q = r /\ x # y
    <3>1. (y + 1 > x <=> y > x) /\ turn'[q] = y + 1 /\ turn[q] = y /\ pending'[q] = Unknown /\ pending[q] = Unknown
      BY <2>3, <1>1, <1>3, <1>4, <1>5, <1>6
    <3> QED
      BY <3>1, <1>1, <1>7 DEF Heard
  <2> QED
    BY <2>1, <2>2, <2>3
<1>9. ASSUME NEW x \in Ranks PROVE InTurn(x)'
  <2>1. CASE x # r
    <3>1. pc'[x] = pc[x] /\ turn'[x] = turn[x] /\ InTurn(x)
      BY <2>1, <1>2, <1>4 DEF TurnInv
    <3> QED
      BY <3>1, <1>1, <1>2 DEF InTurn
  <2>2. CASE x = r
    <3>1. pc'[r] = "turn" /\ turn'[r] = y + 1 /\ pending'[r] = Unknown /\ y + 1 \in 0 .. Cardinality(Ranks)
      BY <1>1, <1>4, <1>5, <1>6
    <3>2. announced[r] # NotYet <=> y + 1 > r
      <4>1. CASE y = r
        BY <4>1, <1>3, <1>5
      <4>2. CASE y # r
        <5>1. announced[r] # NotYet <=> y > r
          BY <4>2, <1>3, <1>6 DEF InTurn
        <5> QED
          BY <5>1, <4>2, <1>5
      <4> QED
        BY <4>1, <4>2
    <3>3. announced[r] # NotYet => announced[r] = DOMAIN send_halos_map[r] \ {r}
      BY <1>6 DEF InTurn
    <3>4. ASSUME NEW s \in Ranks \ {r}, y + 1 > s PROVE announced[s] # NotYet
      <4>1. s = y \/ y > s
        BY <3>4, <1>5
      <4> QED
        BY <4>1, <1>3, <1>6 DEF InTurn
    <3> QED
      BY <2>2, <3>1, <3>2, <3>3, <3>4, <1>1, <1>2, Places DEF InTurn
  <2> QED
    BY <2>1, <2>2
<1>10. TurnInv'
  BY <1>1, <1>2, <1>4, <1>9 DEF TurnInv
<1>11. ASSUME NEW x \in Ranks PROVE SentBy(x)'
  <2>1. \A q \in Ranks : turn'[q] = x /\ pending'[q] # Unknown => turn[q] = x /\ pending'[q] = pending[q]
    BY <1>1, <1>4, <1>6
  <2> QED
    BY <2>1, <1>1, <1>2, <1>8, SentSame DEF ChanInv
<1>12. TagInv' /\ MapInv' /\ SendInv'
  BY <1>1, <1>6, <1>8, Places, QuietKeeps
<1> QED
  BY <1>2, <1>10, <1>11, <1>12 DEF PairInv, ChanInv

\* The root's own turn has no messages for itself.
LEMMA EndTurnPairs ==
  ASSUME PairInv, NEW r \in Ranks, EndTurn(r) PROVE PairInv'
<1>1. pc[r] = "send" /\ InTurn(r)
  BY DEF EndTurn, PairInv, TurnInv
<1>2. turn[r] = r /\ announced[r] # NotYet
  BY <1>1 DEF InTurn
<1>3. r \notin announced[r]
  BY <1>2, RootFacts
<1> QED
  BY <1>1, <1>2, <1>3, PassPairs DEF EndTurn

\* A rank that is announced waits for its messages, another one passes on.
LEMMA HearPairs ==
  ASSUME PairInv, NEW r \in Ranks, Hear(r) PROVE PairInv'
<1>1. pc[r] = "turn" /\ turn[r] \in Ranks \ {r} /\ announced[turn[r]] # NotYet
  BY DEF Hear
<1>2. DOMAIN pc = Ranks /\ pc = [pc EXCEPT ![r] = pc[r]] /\ InTurn(r)
  BY DEF PairInv, TagInv, TagTypes, TurnInv
<1>3. CASE r \notin announced[turn[r]]
  <2>1. turn' = [turn EXCEPT ![r] = @ + 1] /\ pc' = pc
    BY <1>3 DEF Hear
  <2>2. pc' = [pc EXCEPT ![r] = "turn"]
    BY <2>1, <1>1, <1>2
  <2> QED
    BY <2>1, <2>2, <1>1, <1>3, PassPairs DEF Hear
<1>4. CASE r \in announced[turn[r]]
  <2>1. /\ pc' = [pc EXCEPT ![r] = "recv"] /\ turn' = turn
        /\ UNCHANGED <<config, entered, recv_map, send_map, send_halos_map, max_tag, announced, outbox, pending, chan>>
    BY <1>4 DEF Hear
  <2>2. pc'[r] = "recv" /\ Ranks' = Ranks
    BY <2>1, <1>2 DEF config, Ranks
  <2>3. InTurn(r)'
    BY <2>1, <2>2, <1>1, <1>2, <1>4, Places DEF InTurn
  <2> QED
    BY <2>1, <2>3, <1>1, Places, StayPairs
<1> QED
  BY <1>3, <1>4

\* After the last turn, the patterns are made.
LEMMA FinishPairs ==
  ASSUME PairInv, NEW r \in Ranks, Finish(r) PROVE PairInv'
<1>1. /\ pc[r] = "turn" /\ turn[r] = Cardinality(Ranks) /\ pc' = [pc EXCEPT ![r] = "made"]
      /\ UNCHANGED <<config, turn, entered, recv_map, send_map, send_halos_map, max_tag, announced, outbox,
                     pending, chan>>
  BY DEF Finish
<1>2. DOMAIN pc = Ranks /\ InTurn(r)
  BY DEF PairInv, TagInv, TagTypes, TurnInv
<1>3. pc'[r] = "made" /\ Ranks' = Ranks
  BY <1>1, <1>2 DEF config, Ranks
<1>4. InTurn(r)'
  BY <1>1, <1>2, <1>3, Places DEF InTurn
<1> QED
  BY <1>1, <1>4, Places, StayPairs

----------------------------------------------------------------------------
(***************************************************************************)
(* A receive.                                                              *)
(***************************************************************************)

\* What a rank holds from a root, the root has for it.
LEMMA HeldFacts ==
  ASSUME PairInv, NEW y \in Ranks, NEW q \in Ranks, pc[q] \in InTurns, NEW id \in Held(y, q)
  PROVE  pc[y] \in Agreed /\ q \in DOMAIN send_halos_map[y] /\ id \in DOMAIN send_halos_map[y][q]
<1>1. TagInv /\ MapInv
  BY DEF PairInv
<1>2. CASE y = q
  <2>1. q \in DOMAIN send_halos_map[q] /\ id \in DOMAIN send_halos_map[q][q]
    BY <1>2 DEF Held
  <2> QED
    BY <2>1, <1>2, Places
<1>3. CASE y # q
  <2>1. PICK n \in For(y, q) : Upto(For(y, q), n) \in 2 .. Heard(y, q) /\ id = Outbox(y)[n].body.id
    BY <1>3 DEF Held
  <2>2. announced[y] # NotYet
    BY <2>1 DEF Heard
  <2>3. pc[y] \in Agreed
    BY <2>2, RootFacts
  <2>4. q \in DOMAIN send_halos_map[y] \ {y}
    BY <2>1, <2>3, <1>1, ForFacts
  <2>5. PICK c \in For(y, q) : Leads(y, q, c)
    BY <2>3, <2>4, <1>1, ForPeer
  <2>6. n # c
    BY <2>1, <2>5 DEF Leads
  <2>7. PICK a \in DOMAIN send_halos_map[y][q] : Outbox(y)[n].body = Body(y, q, a)
    BY <2>1, <2>5, <2>6 DEF Leads
  <2>8. Body(y, q, a).id = a
    BY DEF Body
  <2> QED
    BY <2>1, <2>3, <2>4, <2>7, <2>8
<1> QED
  BY <1>2, <1>3

\* The keys of what a root has for a rank name domains of the root.
LEMMA KeysName ==
  ASSUME TagInv, MapInv, NEW y \in Ranks, pc[y] \in Agreed, NEW q \in DOMAIN send_halos_map[y],
         NEW id \in DOMAIN send_halos_map[y][q], NEW key \in DOMAIN SendFor(y, q, id)
  PROVE  \E i \in DOMAIN domains[y] : key[1] = domains[y][i].id
<1>0. DOMAIN SendFor(y, q, id) =
        {<<domains[y][w[1]].id, recv_map[y][w[1]][w[2]].tag>> : w \in {v \in ReceivedFrom(y, q) : v[2] = id}}
  BY GivenKeys
<1>1. PICK w \in {v \in ReceivedFrom(y, q) : v[2] = id} :
        key = <<domains[y][w[1]].id, recv_map[y][w[1]][w[2]].tag>>
  BY <1>0
<1>2. w[1] \in DOMAIN domains[y]
  BY <1>1, Unnumbered, Wanted
<1> QED
  BY <1>1, <1>2

\* A domain that nothing has come for keeps what it has.
LEMMA HoldsKept ==
  ASSUME Ranks' = Ranks, domains' = domains, send_halos_map' = send_halos_map, NEW q \in Ranks, NEW m, HoldsFor(q, m),
         send_map'[q][m] = send_map[q][m], pc'[q] \in InTurns, pc[q] \in InTurns,
         \A y \in Ranks : domains[q][m].id \in Held(y, q)' <=> domains[q][m].id \in Held(y, q)
  PROVE  HoldsFor(q, m)'
<1>1. PICK id : id = domains[q][m].id
  OBVIOUS
<1>2. PICK from : from = {y \in Ranks : id \in Held(y, q)}
  OBVIOUS
<1>3. from = {y \in Ranks' : id \in Held(y, q)'}
  BY <1>1, <1>2
<1>4. \A y : SendFor(y, q, id)' = SendFor(y, q, id)
  BY DEF SendFor
<1>5. /\ DOMAIN send_map[q][m] = UNION {DOMAIN SendFor(y, q, id) : y \in from}
      /\ \A y \in from : \A key \in DOMAIN SendFor(y, q, id) : send_map[q][m][key] = SendFor(y, q, id)[key]
  BY <1>1, <1>2 DEF HoldsFor
<1>6. UNION {DOMAIN SendFor(y, q, id) : y \in from} = UNION {DOMAIN SendFor(y, q, id)' : y \in from}
  BY <1>4
<1>7. /\ DOMAIN send_map'[q][m] = UNION {DOMAIN SendFor(y, q, id)' : y \in from}
      /\ \A y \in from : \A key \in DOMAIN SendFor(y, q, id)' : send_map'[q][m][key] = SendFor(y, q, id)'[key]
  BY <1>4, <1>5, <1>6
<1> QED
  BY <1>1, <1>3, <1>7 DEF HoldsFor

\* The message at the front of the channel to a rank that receives is its next one
\* from the root: the number of domains first, and then the halos of one.
Fronts(x, r, j, k) ==
  /\ j \in For(x, r) /\ j <= Gone(x) /\ Upto(For(x, r), j) = k + 1
  /\ Head(chan[<<x, r>>]) = Outbox(x)[j].body
LEMMA NextMessage ==
  ASSUME PairInv, NEW r \in Ranks, NEW x \in Ranks, x = turn[r], pc[r] = "recv", chan[<<x, r>>] # << >>
  PROVE  /\ x # r /\ announced[x] # NotYet /\ pc[x] \in Agreed /\ r \in DOMAIN send_halos_map[x] \ {x}
         /\ Heard(x, r) \in Nat /\ Total(x, r) - 1 \in Nat \ {0}
         /\ pending[r] = Unknown => Heard(x, r) = 0
         /\ pending[r] # Unknown => pending[r] \in 1 .. Total(x, r) - 1 /\ Heard(x, r) = Total(x, r) - pending[r]
         /\ \E j : Fronts(x, r, j, Heard(x, r))
<1>1. TagInv /\ MapInv /\ InTurn(r) /\ SentBy(x)
  BY DEF PairInv, TurnInv, ChanInv
<1>2. x # r /\ r \in announced[x] /\ announced[x] # NotYet
  BY <1>1 DEF InTurn
<1>3. pc[x] \in Agreed /\ r \in DOMAIN send_halos_map[x] \ {x}
  BY <1>2, RootFacts
<1>4. Carried(x, r) /\ Gone(x) \in 0 .. Len(Outbox(x))
  BY <1>1, <1>2 DEF SentBy
<1>5. x \in Nat /\ ~(x > x)
  BY <1>1, DomainNames DEF TagInv, TagTypes
<1>6. Total(x, r) - 1 \in Nat \ {0} /\ Total(x, r) \in Nat
  BY <1>1, <1>3, ForPeer, ForFacts
<1>7. /\ pending[r] = Unknown => Heard(x, r) = 0
      /\ pending[r] # Unknown => pending[r] \in 1 .. Total(x, r) - 1 /\ Heard(x, r) = Total(x, r) - pending[r]
  BY <1>2, <1>4, <1>5 DEF Heard, Carried
<1>8. PICK f, k, ch, G : f = For(x, r) /\ k = Heard(x, r) /\ ch = chan[<<x, r>>] /\ G = Gone(x)
  OBVIOUS
<1>9. PICK B : B = Bodies(x, r)
  OBVIOUS
<1>10. /\ k \in Nat /\ ch \in Seq(B) /\ Upto(f, G) = k + Len(ch)
       /\ \A j \in f : j <= G /\ Upto(f, j) > k => ch[Upto(f, j) - k] = Outbox(x)[j].body
  BY <1>4, <1>8, <1>9 DEF Carried
<1>11. Len(ch) \in Nat /\ Len(ch) >= 1 /\ Head(ch) = ch[1]
  BY <1>8, <1>10
<1>12. Len(Outbox(x)) \in Nat
  BY <1>1, <1>3, ForFacts
<1>13. G \in Nat /\ k + 1 \in 1 .. Upto(f, G)
  BY <1>4, <1>8, <1>10, <1>11, <1>12
<1>14. PICK j \in 1 .. G : j \in f /\ Upto(f, j) = k + 1
  BY <1>13, UptoOnto
<1>15. j <= G /\ Upto(f, j) > k /\ Upto(f, j) - k = 1
  BY <1>10, <1>13, <1>14
<1>16. Head(ch) = Outbox(x)[j].body
  BY <1>10, <1>11, <1>14, <1>15
<1>17. Fronts(x, r, j, k)
  BY <1>8, <1>14, <1>15, <1>16 DEF Fronts
<1> QED
  BY <1>2, <1>3, <1>6, <1>7, <1>8, <1>10, <1>17

\* A domain that a root has halos for is one of the receiver's.
LEMMA GivenNamed ==
  ASSUME TagInv, MapInv, NEW y \in Ranks, pc[y] \in Agreed, NEW q \in DOMAIN send_halos_map[y],
         NEW id \in DOMAIN send_halos_map[y][q]
  PROVE  \E m \in DOMAIN domains[q] : domains[q][m].id = id
<1>1. DOMAIN send_halos_map[y][q] = {w[2] : w \in ReceivedFrom(y, q)}
  BY GivenHalos
<1>2. PICK w \in ReceivedFrom(y, q) : w[2] = id
  BY <1>1
<1> QED
  BY <1>2, Unnumbered, Wanted

\* What a receiver that has heard the first message may still wait for.
Awaited(x, r) == 1 .. Total(x, r) - 1

\* What a receive does to the count and to the place in the turns.
LEMMA RecvCounts ==
  ASSUME PairInv, NEW r \in Ranks, Recv(r), NEW x \in Ranks, x = turn[r], NEW j, Fronts(x, r, j, Heard(x, r)),
         NEW c \in For(x, r), Leads(x, r, c)
  PROVE  /\ pending[r] = Unknown => j = c /\ send_map' = send_map
         /\ pending[r] # Unknown => j # c /\ Heard(x, r) # 0
         /\ \/ pc'[r] = "turn" /\ turn'[r] = x + 1 /\ pending'[r] = Unknown
            \/ pc'[r] = "recv" /\ turn'[r] = x /\ pending'[r] \in Awaited(x, r)
         /\ Heard(x, r)' = Heard(x, r) + 1
<1>1. /\ pc[r] = "recv" /\ chan[<<x, r>>] # << >>
      /\ UNCHANGED <<grid, announced, send_halos_map>>
      /\ pending[r] = Unknown => send_map' = send_map
  BY DEF Recv, config
<1>2. PICK T, k, f : T = Total(x, r) /\ k = Heard(x, r) /\ f = For(x, r)
  OBVIOUS
<1>3. /\ announced[x] # NotYet /\ pc[x] \in Agreed /\ r \in DOMAIN send_halos_map[x] \ {x}
      /\ k \in Nat /\ T - 1 \in Nat \ {0}
      /\ pending[r] = Unknown => k = 0
      /\ pending[r] # Unknown => pending[r] \in 1 .. T - 1 /\ k = T - pending[r]
  BY <1>1, <1>2, NextMessage
<1>4. T \in Nat /\ f \in SUBSET Nat /\ TagInv /\ MapInv /\ TurnInv
  BY <1>2, <1>3, ForFacts DEF PairInv
<1>5. PICK rest : rest = IF pending[r] = Unknown THEN Head(chan[<<x, r>>]) ELSE pending[r] - 1
  OBVIOUS
<1>6. /\ pending'[r] = IF rest = 0 THEN Unknown ELSE rest
      /\ turn'[r] = IF rest = 0 THEN x + 1 ELSE x
      /\ pc'[r] = IF rest = 0 THEN "turn" ELSE "recv"
  <2>1. DOMAIN pending = Ranks /\ DOMAIN turn = Ranks /\ DOMAIN pc = Ranks
    BY <1>4 DEF TurnInv, TagInv, TagTypes
  <2> QED
    BY <2>1, <1>1, <1>5 DEF Recv
<1>7. Upto(f, j) = k + 1 /\ j \in f /\ Upto(f, c) = 1 /\ Head(chan[<<x, r>>]) = Outbox(x)[j].body
      /\ Outbox(x)[c].body = T - 1
  BY <1>2 DEF Fronts, Leads
<1>8. Total(x, r)' = T /\ announced'[x] # NotYet /\ x \in Nat
  <2>1. Total(x, r)' = T
    BY <1>1, <1>2, OutboxSame
  <2>2. x \in Nat
    BY <1>4, DomainNames DEF TagInv, TagTypes
  <2> QED
    BY <2>1, <2>2, <1>1, <1>3
<1>9. CASE pending[r] = Unknown
  <2>1. k = 0 /\ j = c
    BY <1>9, <1>2, <1>3, <1>4, <1>7, UptoInjective
  <2>2. rest = T - 1 /\ rest # 0 /\ rest \in 1 .. T - 1 /\ rest # Unknown
    BY <2>1, <1>3, <1>4, <1>5, <1>7, <1>9 DEF Unknown
  <2>3. pc'[r] = "recv" /\ turn'[r] = x /\ pending'[r] = rest
    BY <2>2, <1>6
  <2>4. Heard(x, r)' = T - rest
    BY <2>2, <2>3, <1>8 DEF Heard
  <2>5. Heard(x, r)' = k + 1
    BY <2>1, <2>2, <2>4, <1>4
  <2> QED
    BY <2>1, <2>2, <2>3, <2>5, <1>1, <1>2, <1>9 DEF Awaited
<1>10. CASE pending[r] # Unknown
  <2>1. /\ rest = pending[r] - 1 /\ pending[r] \in 1 .. T - 1 /\ k = T - pending[r] /\ k # 0
        /\ k + 1 = T - rest /\ rest \in Nat
    BY <1>10, <1>3, <1>4, <1>5
  <2>2. j # c
    BY <2>1, <1>3, <1>7
  <2>3. CASE rest = 0
    <3>1. pc'[r] = "turn" /\ turn'[r] = x + 1 /\ pending'[r] = Unknown
      BY <2>3, <1>6
    <3>2. Heard(x, r)' = T
      BY <3>1, <1>8 DEF Heard
    <3> QED
      BY <3>1, <3>2, <2>1, <2>2, <2>3, <1>2, <1>4, <1>10
  <2>4. CASE rest # 0
    <3>1. pc'[r] = "recv" /\ turn'[r] = x /\ pending'[r] = rest /\ rest \in 1 .. T - 1 /\ rest # Unknown
      BY <2>1, <2>4, <1>4, <1>6 DEF Unknown
    <3>2. Heard(x, r)' = T - rest
      BY <3>1, <1>8 DEF Heard
    <3> QED
      BY <3>1, <3>2, <2>1, <2>2, <1>2, <1>10 DEF Awaited
  <2> QED
    BY <2>3, <2>4
<1> QED
  BY <1>9, <1>10

\* A receive takes the next message: the number of domains tells nothing to any of
\* them, the halos of one go to that one, under keys that it has not had before.
LEMMA RecvPairs ==
  ASSUME PairInv, NEW r \in Ranks, Recv(r) PROVE PairInv'
<1>1. PICK x : x = turn[r]
  OBVIOUS
<1>2. /\ pc[r] = "recv" /\ chan[<<x, r>>] # << >> /\ chan' = [chan EXCEPT ![<<x, r>>] = Tail(@)]
      /\ UNCHANGED <<grid, recv_map, max_tag, entered, announced, outbox, send_halos_map>>
  BY <1>1 DEF Recv, config
<1>3. /\ TagInv /\ MapInv /\ TurnInv /\ ChanInv /\ SendInv /\ Ranks' = Ranks /\ domains' = domains
      /\ InTurn(r) /\ pc[r] \in InTurns /\ pc[r] \in Agreed
  BY <1>2, Places DEF PairInv, TurnInv, Ranks, domains
<1>4. x \in Ranks
  BY <1>1, <1>2, <1>3 DEF InTurn
<1>5. PICK T, k, f : T = Total(x, r) /\ k = Heard(x, r) /\ f = For(x, r)
  OBVIOUS
<1>6. /\ x # r /\ announced[x] # NotYet /\ pc[x] \in Agreed /\ r \in DOMAIN send_halos_map[x] \ {x}
      /\ k \in Nat /\ T - 1 \in Nat \ {0}
      /\ \E j : Fronts(x, r, j, k)
  BY <1>1, <1>2, <1>4, <1>5, NextMessage
<1>7. PICK j : Fronts(x, r, j, k)
  BY <1>6
<1>8. PICK c \in For(x, r) : Leads(x, r, c)
  BY <1>3, <1>4, <1>6, ForPeer
<1>9. /\ pending[r] = Unknown => j = c /\ send_map' = send_map
      /\ pending[r] # Unknown => j # c /\ k # 0
      /\ \/ pc'[r] = "turn" /\ turn'[r] = x + 1 /\ pending'[r] = Unknown
         \/ pc'[r] = "recv" /\ turn'[r] = x /\ pending'[r] \in 1 .. T - 1
      /\ Heard(x, r)' = k + 1
  <2>1. Fronts(x, r, j, Heard(x, r))
    BY <1>5, <1>7
  <2>2. /\ pending[r] = Unknown => j = c /\ send_map' = send_map
        /\ pending[r] # Unknown => j # c /\ Heard(x, r) # 0
        /\ \/ pc'[r] = "turn" /\ turn'[r] = x + 1 /\ pending'[r] = Unknown
           \/ pc'[r] = "recv" /\ turn'[r] = x /\ pending'[r] \in Awaited(x, r)
        /\ Heard(x, r)' = Heard(x, r) + 1
    BY <2>1, <1>1, <1>4, <1>8, RecvCounts
  <2> QED
    BY <2>2, <1>5 DEF Awaited
<1>10. PICK at \in {"turn", "recv"} : pc' = [pc EXCEPT ![r] = at]
  <2>1. pc' = [pc EXCEPT ![r] = pc'[r]]
    BY <1>3 DEF Recv, TagInv, TagTypes
  <2> QED
    BY <2>1, <1>9
<1>11. at \in InTurns /\ at \in Agreed
  BY <1>10, Places
<1>12. /\ DOMAIN pc' = Ranks /\ DOMAIN turn' = Ranks /\ DOMAIN pending' = Ranks /\ DOMAIN chan' = Ranks \X Ranks
       /\ \A q \in Ranks \ {r} : pc'[q] = pc[q] /\ turn'[q] = turn[q] /\ pending'[q] = pending[q]
       /\ chan'[<<x, r>>] = Tail(chan[<<x, r>>])
       /\ \A y \in Ranks, q \in Ranks : <<y, q>> # <<x, r>> => chan'[<<y, q>>] = chan[<<y, q>>]
       /\ pc'[r] \in InTurns
  <2>1. DOMAIN pending = Ranks /\ DOMAIN turn = Ranks /\ DOMAIN pc = Ranks /\ DOMAIN chan = Ranks \X Ranks
    BY <1>3 DEF TurnInv, TagInv, TagTypes
  <2>2. DOMAIN pc' = Ranks /\ \A q \in Ranks \ {r} : pc'[q] = pc[q]
    BY <2>1, <1>10
  <2>3. pc'[r] \in InTurns
    BY <2>1, <1>10, <1>11
  <2>4. /\ DOMAIN turn' = Ranks /\ DOMAIN pending' = Ranks
        /\ \A q \in Ranks \ {r} : turn'[q] = turn[q] /\ pending'[q] = pending[q]
    BY <2>1 DEF Recv
  <2>5. <<x, r>> \in DOMAIN chan
    BY <2>1, <1>4
  <2> QED
    BY <2>1, <2>2, <2>3, <2>4, <2>5, <1>2
<1>13. /\ Ranks = 0 .. Cardinality(Ranks) - 1 /\ Cardinality(Ranks) \in Nat
       /\ \A y \in Ranks : y \in Nat
  BY <1>3, DomainNames DEF TagInv, TagTypes
<1>14. ASSUME NEW y \in Ranks, NEW q \in Ranks, <<y, q>> # <<x, r>> PROVE Heard(y, q)' = Heard(y, q)
  <2>1. Total(y, q)' = Total(y, q)
    BY <1>2, OutboxSame
  <2>2. CASE q # r
    BY <2>1, <2>2, <1>2, <1>12 DEF Heard
  <2>3. CASE q = r
    <3>1. y # x /\ (x + 1 > y <=> x > y)
      BY <2>3, <1>4, <1>13, <1>14
    <3>2. turn'[q] > y <=> turn[q] > y
      BY <2>3, <3>1, <1>1, <1>9
    <3>3. ~(turn[q] = y) /\ (turn'[q] = y => pending'[q] = Unknown)
      BY <2>3, <3>1, <1>1, <1>9
    <3> QED
      BY <2>1, <3>2, <3>3, <1>2 DEF Heard
  <2> QED
    BY <2>2, <2>3
<1>15. TagInv'
  BY <1>2, <1>3, <1>10, <1>11, LaterKeeps
<1>16. MapInv'
  BY <1>2, <1>3, <1>10, <1>11, MapKeeps, FoundSame, Unnumbered DEF MapInv
<1>17. ASSUME NEW q \in Ranks PROVE InTurn(q)'
  <2>1. InTurn(q)
    BY <1>3 DEF TurnInv
  <2>2. CASE q # r
    BY <2>1, <2>2, <1>2, <1>3, <1>12 DEF InTurn
  <2>3. CASE q = r /\ turn'[r] = x
    <3>1. pc'[r] = "recv" /\ pc[r] = "recv"
      <4>1. x + 1 # x
        BY <1>4, <1>13
      <4> QED
        BY <4>1, <2>3, <1>2, <1>9
    <3>2. turn'[r] = turn[r]
      BY <2>3, <1>1
    <3> QED
      BY <2>1, <2>3, <3>1, <3>2, <1>2, <1>3, Places DEF InTurn
  <2>4. CASE q = r /\ turn'[r] # x
    <3>1. pc'[r] = "turn" /\ turn'[r] = x + 1 /\ pending'[r] = Unknown /\ x + 1 \in 0 .. Cardinality(Ranks)
      BY <2>4, <1>4, <1>9, <1>13
    <3>2. announced[r] # NotYet <=> x + 1 > r
      <4>1. announced[r] # NotYet <=> x > r
        BY <1>1, <1>2, <1>3 DEF InTurn
      <4> QED
        BY <4>1, <1>4, <1>6, <1>13
    <3>3. announced[r] # NotYet => announced[r] = DOMAIN send_halos_map[r] \ {r}
      BY <1>3 DEF InTurn
    <3>4. ASSUME NEW s \in Ranks \ {r}, x + 1 > s PROVE announced[s] # NotYet
      <4>1. s = x \/ x > s
        BY <3>4, <1>4, <1>13
      <4> QED
        BY <4>1, <1>1, <1>3, <1>6 DEF InTurn
    <3> QED
      BY <2>4, <3>1, <3>2, <3>3, <3>4, <1>2, <1>3, Places DEF InTurn
  <2> QED
    BY <2>2, <2>3, <2>4
<1>18. TurnInv'
  BY <1>2, <1>3, <1>12, <1>17 DEF TurnInv
<1>19. Carried(x, r)'
  <2>1. PICK ch, G, B : ch = chan[<<x, r>>] /\ G = Gone(x) /\ B = Bodies(x, r)
    OBVIOUS
  <2>2. Carried(x, r) /\ G \in 0 .. Len(Outbox(x)) /\ Len(Outbox(x)) \in Nat /\ f \in SUBSET Nat
    <3>1. Carried(x, r) /\ G \in 0 .. Len(Outbox(x))
      BY <2>1, <1>3, <1>4, <1>6 DEF ChanInv, SentBy
    <3>2. Len(Outbox(x)) \in Nat /\ f \in SUBSET Nat
      BY <1>3, <1>4, <1>5, <1>6, ForFacts
    <3> QED
      BY <3>1, <3>2
  <2>3. /\ ch \in Seq(B) /\ Upto(f, G) = k + Len(ch)
        /\ \A i \in f : i <= G /\ Upto(f, i) > k => ch[Upto(f, i) - k] = Outbox(x)[i].body
    BY <2>1, <2>2, <1>5 DEF Carried
  <2>4. PICK d : d = Tail(ch)
    OBVIOUS
  <2>5. ch # << >>
    BY <2>1, <1>2
  <2>6. /\ d \in Seq(B) /\ Len(ch) = Len(d) + 1 /\ Len(d) \in Nat
        /\ \A i \in 1 .. Len(d) : d[i] = ch[i + 1]
    BY <2>3, <2>4, <2>5, TailFacts
  <2>7. Upto(f, G) = (k + 1) + Len(d)
    BY <2>3, <2>6, <1>6
  <2>8. ASSUME NEW i \in f, i <= G, Upto(f, i) > k + 1 PROVE d[Upto(f, i) - (k + 1)] = Outbox(x)[i].body
    <3>1. i \in 0 .. G /\ G \in Nat
      BY <2>2, <2>8
    <3>2. Upto(f, i) \in Nat /\ Upto(f, i) <= Upto(f, G)
      BY <3>1, UptoMonotone
    <3>3. Upto(f, i) - (k + 1) \in 1 .. Len(d) /\ (Upto(f, i) - (k + 1)) + 1 = Upto(f, i) - k /\ Upto(f, i) > k
      BY <3>2, <2>6, <2>7, <2>8, <1>6
    <3> QED
      BY <3>3, <2>3, <2>6, <2>8
  <2>9. /\ Outbox(x)' = Outbox(x) /\ For(x, r)' = f /\ Total(x, r)' = T /\ Gone(x)' = G
        /\ Bodies(x, r)' = B
    BY <2>1, <1>2, <1>5, OutboxSame DEF Gone
  <2>10. chan'[<<x, r>>] = d
    BY <2>1, <2>4, <1>12
  <2>11. turn'[r] = x /\ pending'[r] # Unknown => pending'[r] \in 1 .. T - 1
    BY <1>9
  <2>12. k + 1 \in Nat
    BY <1>6
  <2> QED
    BY <2>6, <2>7, <2>8, <2>9, <2>10, <2>11, <2>12, <1>9 DEF Carried
<1>20. SentBy(x)'
  <2>1. ASSUME NEW q \in Ranks PROVE Carried(x, q)'
    <3>1. CASE q = r
      BY <3>1, <1>19
    <3>2. CASE q # r
      <4>1. Carried(x, q)
        BY <1>3, <1>4, <1>6 DEF ChanInv, SentBy
      <4>2. Heard(x, q)' = Heard(x, q) /\ chan'[<<x, q>>] = chan[<<x, q>>]
        BY <3>2, <1>4, <1>12, <1>14
      <4>3. turn'[q] = turn[q] /\ pending'[q] = pending[q]
        BY <3>2, <1>12
      <4> QED
        BY <4>1, <4>2, <4>3, <1>2, CarriedSame
    <3> QED
      BY <3>1, <3>2
  <2>2. Outbox(x)' = Outbox(x) /\ Entries(x)' = Entries(x) /\ Gone(x)' = Gone(x)
    BY <1>2, OutboxSame DEF Gone
  <2> QED
    BY <2>1, <2>2, <1>2, <1>3, <1>4, <1>6 DEF ChanInv, SentBy
<1>21. ASSUME NEW y \in Ranks \ {x} PROVE SentBy(y)'
  <2>1. ASSUME NEW q \in Ranks
        PROVE  /\ Heard(y, q)' = Heard(y, q) /\ chan'[<<y, q>>] = chan[<<y, q>>]
               /\ turn'[q] = y /\ pending'[q] # Unknown => turn[q] = y /\ pending'[q] = pending[q]
    <3>1. Heard(y, q)' = Heard(y, q) /\ chan'[<<y, q>>] = chan[<<y, q>>]
      BY <1>12, <1>14
    <3>2. turn'[q] = y /\ pending'[q] # Unknown => q # r
      BY <1>9
    <3> QED
      BY <3>1, <3>2, <1>12
  <2> QED
    BY <2>1, <1>2, <1>3, SentSame DEF ChanInv
<1>22. SendInv'
  <2>1. \A q \in Ranks \ {r} : send_map'[q] = send_map[q]
    BY <1>3 DEF Recv, SendInv
  <2>2. DOMAIN send_map' = Ranks /\ DOMAIN send_map = Ranks
    BY <1>3 DEF Recv, SendInv
  <2>3. ASSUME NEW q \in Ranks \ {r}, NEW m \in DOMAIN domains[q] PROVE HoldsFor(q, m)'
    BY <2>1, <1>2, <1>3, <1>12, <1>14, HoldsSame DEF SendInv
  <2>4. \A y \in Ranks \ {x} : Held(y, r)' = Held(y, r)
    <3>1. ASSUME NEW y \in Ranks \ {x} PROVE Held(y, r)' = Held(y, r)
      BY <1>2, <1>14, HeldSame
    <3> QED
      BY <3>1
  <2>5. /\ Held(x, r) = {Outbox(x)[i].body.id : i \in {n \in f : Upto(f, n) \in 2 .. k}}
        /\ Held(x, r)' = {Outbox(x)[i].body.id : i \in {n \in f : Upto(f, n) \in 2 .. k + 1}}
    <3>1. Outbox(x)' = Outbox(x) /\ For(x, r)' = f
      BY <1>2, <1>5, OutboxSame
    <3> QED
      BY <3>1, <1>5, <1>6, <1>9 DEF Held
  <2>6. /\ j \in f /\ Upto(f, j) = k + 1 /\ Upto(f, c) = 1 /\ c \in f /\ f \in SUBSET Nat
        /\ \A n \in f : Upto(f, n) \in Nat
        /\ Head(chan[<<x, r>>]) = Outbox(x)[j].body
    <3>1. f \in SUBSET Nat
      BY <1>3, <1>4, <1>5, <1>6, ForFacts
    <3> QED
      BY <3>1, <1>5, <1>7, <1>8, UptoStep DEF Fronts, Leads
  <2>7. CASE pending[r] = Unknown
    <3>1. send_map' = send_map /\ j = c
      BY <2>7, <1>9
    <3>2. k = 0
      BY <2>6, <3>1, <1>6
    <3>3. Held(x, r)' = {} /\ Held(x, r) = {}
      <4>1. \A n : n \notin 2 .. 0 + 1 /\ n \notin 2 .. 0
        OBVIOUS
      <4> QED
        BY <4>1, <3>2, <2>5
    <3>4. \A y \in Ranks : Held(y, r)' = Held(y, r)
      BY <2>4, <3>3
    <3>5. ASSUME NEW m \in DOMAIN domains[r] PROVE HoldsFor(r, m)'
      BY <3>1, <3>4, <1>2, <1>3, <1>12, HoldsKept DEF SendInv
    <3>6. \A q \in Ranks : DOMAIN send_map'[q] = DOMAIN domains[q]
      BY <3>1, <1>3 DEF SendInv
    <3> QED
      BY <2>2, <2>3, <3>5, <3>6, <1>3 DEF SendInv
  <2>8. CASE pending[r] # Unknown
    <3>1. j # c /\ k # 0
      BY <2>8, <1>9
    <3>2. PICK id \in DOMAIN send_halos_map[x][r] : Outbox(x)[j].body = Body(x, r, id)
      BY <2>6, <3>1, <1>5, <1>8 DEF Leads
    <3>3. /\ \A a : Body(x, r, a).id = a /\ Body(x, r, a).halos = SendFor(x, r, a)
      BY DEF Body, SendFor
    <3>4. Held(x, r)' = Held(x, r) \cup {id}
      <4>1. \A n \in f : Upto(f, n) \in 2 .. k + 1 <=> Upto(f, n) \in 2 .. k \/ n = j
        <5>1. ASSUME NEW n \in f PROVE Upto(f, n) \in 2 .. k + 1 <=> Upto(f, n) \in 2 .. k \/ n = j
          <6>1. Upto(f, n) = k + 1 <=> n = j
            BY <2>6, UptoInjective
          <6>2. Upto(f, n) \in 2 .. k + 1 <=> Upto(f, n) \in 2 .. k \/ Upto(f, n) = k + 1
            BY <2>6, <3>1, <1>6
          <6> QED
            BY <6>1, <6>2
        <5> QED
          BY <5>1
      <4>2. {n \in f : Upto(f, n) \in 2 .. k + 1} = {n \in f : Upto(f, n) \in 2 .. k} \cup {j}
        BY <4>1, <2>6
      <4>3. PICK S : S = {n \in f : Upto(f, n) \in 2 .. k}
        OBVIOUS
      <4>4. {Outbox(x)[i].body.id : i \in S \cup {j}} = {Outbox(x)[i].body.id : i \in S} \cup {Outbox(x)[j].body.id}
        OBVIOUS
      <4> QED
        BY <4>2, <4>3, <4>4, <2>5, <3>2, <3>3
    <3>5. id \notin Held(x, r)
      <4>1. SUFFICES ASSUME id \in Held(x, r) PROVE FALSE
        OBVIOUS
      <4>2. PICK n \in f : Upto(f, n) \in 2 .. k /\ Outbox(x)[n].body.id = id
        BY <4>1, <2>5
      <4>3. n # c
        BY <4>2, <2>6
      <4>4. PICK a \in DOMAIN send_halos_map[x][r] : Outbox(x)[n].body = Body(x, r, a)
        BY <4>2, <4>3, <1>5, <1>8 DEF Leads
      <4>5. a = id
        BY <4>2, <4>4, <3>3
      <4>6. n = j
        BY <4>3, <4>4, <4>5, <3>1, <3>2, <2>6, <1>5, <1>8 DEF Leads
      <4> QED
        BY <4>2, <4>6, <2>6, <1>6
    <3>6. PICK m \in DOMAIN domains[r] : domains[r][m].id = id
      <4>1. r \in DOMAIN send_halos_map[x]
        BY <1>6
      <4>2. pc[x] \in Agreed
        BY <1>6
      <4> QED
        BY <4>1, <4>2, <3>2, <1>3, <1>4, GivenNamed
    <3>7. Named(r, id) = m /\ \A n \in DOMAIN domains[r] : domains[r][n].id = id => n = m
      BY <3>6, <1>3, DomainNames DEF TagInv, TagTypes
    <3>8. PICK H : H = SendFor(x, r, id)
      OBVIOUS
    <3>9. send_map'[r] = Insert(send_map[r], r, id, H)
      <4>1. Head(chan[<<x, r>>]).id = id /\ Head(chan[<<x, r>>]).halos = H
        BY <2>6, <3>2, <3>3, <3>8
      <4> QED
        BY <4>1, <2>2, <2>8, <1>1 DEF Recv
    <3>10. PICK old : old = send_map[r][m]
      OBVIOUS
    <3>11. /\ DOMAIN send_map'[r] = DOMAIN domains[r]
           /\ \A n \in DOMAIN domains[r] \ {m} : send_map'[r][n] = send_map[r][n]
           /\ send_map'[r][m] = [key \in DOMAIN old \cup DOMAIN H |->
                IF key \notin DOMAIN H THEN old[key] ELSE IF key \in DOMAIN old THEN old[key] \o H[key] ELSE H[key]]
      <4>1. DOMAIN send_map[r] = DOMAIN domains[r]
        BY <1>3 DEF SendInv
      <4> QED
        BY <4>1, <3>7, <3>9, <3>10 DEF Insert
    <3>12. ASSUME NEW n \in DOMAIN domains[r] \ {m} PROVE HoldsFor(r, n)'
      <4>1. domains[r][n].id # id
        BY <3>7
      <4>2. \A y \in Ranks : domains[r][n].id \in Held(y, r)' <=> domains[r][n].id \in Held(y, r)
        BY <4>1, <2>4, <3>4
      <4> QED
        BY <4>2, <3>11, <1>2, <1>3, <1>12, HoldsKept DEF SendInv
    <3>13. PICK from : from = {y \in Ranks : id \in Held(y, r)}
      OBVIOUS
    <3>14. x \notin from /\ from \cup {x} = {y \in Ranks : id \in Held(y, r)'}
      BY <2>4, <3>4, <3>5, <3>13, <1>4
    <3>15. /\ DOMAIN old = UNION {DOMAIN SendFor(y, r, id) : y \in from}
           /\ \A y \in from : \A key \in DOMAIN SendFor(y, r, id) : old[key] = SendFor(y, r, id)[key]
      <4>1. HoldsFor(r, m)
        BY <1>3 DEF SendInv
      <4> QED
        BY <4>1, <3>6, <3>10, <3>13, <1>3 DEF HoldsFor
    <3>16. \A key \in DOMAIN H : key \notin DOMAIN old
      <4>1. SUFFICES ASSUME NEW key \in DOMAIN H, key \in DOMAIN old PROVE FALSE
        OBVIOUS
      <4>2. PICK y \in from : key \in DOMAIN SendFor(y, r, id)
        BY <4>1, <3>15
      <4>3. pc[y] \in Agreed /\ r \in DOMAIN send_halos_map[y] /\ id \in DOMAIN send_halos_map[y][r] /\ y \in Ranks
        BY <4>2, <3>13, <1>3, HeldFacts
      <4>4. PICK i \in DOMAIN domains[y] : key[1] = domains[y][i].id
        BY <4>2, <4>3, <1>3, KeysName
      <4>5. PICK l \in DOMAIN domains[x] : key[1] = domains[x][l].id
        BY <4>1, <3>2, <3>8, <1>3, <1>4, <1>6, KeysName
      <4>6. domains[y][i].id = domains[x][l].id /\ grid \in Grids
        BY <4>4, <4>5, <1>3 DEF TagInv, TagTypes
      <4>7. y = x
        BY <4>3, <4>6, <1>4, DomainNames
      <4> QED
        BY <4>2, <4>7, <3>14
    <3>17. PICK new : new = send_map'[r][m]
      OBVIOUS
    <3>18. /\ DOMAIN new = DOMAIN old \cup DOMAIN H
           /\ \A key \in DOMAIN old : new[key] = old[key]
           /\ \A key \in DOMAIN H : new[key] = H[key]
      BY <3>11, <3>16, <3>17
    <3>19. HoldsFor(r, m)'
      <4>1. \A y : SendFor(y, r, id)' = SendFor(y, r, id)
        BY <1>2 DEF SendFor
      <4>2. PICK from2 : from2 = from \cup {x}
        OBVIOUS
      <4>3. UNION {DOMAIN SendFor(y, r, id) : y \in from2} = DOMAIN old \cup DOMAIN H
        BY <4>2, <3>8, <3>15
      <4>4. \A y \in from2 : \A key \in DOMAIN SendFor(y, r, id) : new[key] = SendFor(y, r, id)[key]
        <5>1. ASSUME NEW y \in from, NEW key \in DOMAIN SendFor(y, r, id) PROVE new[key] = SendFor(y, r, id)[key]
          BY <5>1, <3>15, <3>18
        <5> QED
          BY <5>1, <4>2, <3>8, <3>18
      <4>5. UNION {DOMAIN SendFor(y, r, id)' : y \in from2} = UNION {DOMAIN SendFor(y, r, id) : y \in from2}
        BY <4>1
      <4>6. /\ DOMAIN send_map'[r][m] = UNION {DOMAIN SendFor(y, r, id)' : y \in from2}
            /\ \A y \in from2 : \A key \in DOMAIN SendFor(y, r, id)' : send_map'[r][m][key] = SendFor(y, r, id)'[key]
        BY <4>1, <4>3, <4>4, <4>5, <3>17, <3>18
      <4>7. from2 = {y \in Ranks' : id \in Held(y, r)'} /\ domains'[r][m].id = id
        BY <4>2, <3>6, <3>14, <1>3
      <4> QED
        BY <4>6, <4>7, <1>12 DEF HoldsFor
    <3>20. \A q \in Ranks : DOMAIN send_map'[q] = DOMAIN domains[q]
      BY <2>1, <3>11, <1>3 DEF SendInv
    <3> QED
      BY <2>2, <2>3, <3>12, <3>19, <3>20, <1>3 DEF SendInv
  <2> QED
    BY <2>7, <2>8
<1> QED
  BY <1>3, <1>15, <1>16, <1>18, <1>20, <1>21, <1>22 DEF PairInv, ChanInv

\* Nothing changes when nothing does.
LEMMA PairStuttering ==
  ASSUME PairInv, UNCHANGED pvars PROVE PairInv'
<1>1. /\ UNCHANGED <<grid, pc, recv_map, turn, announced, outbox, pending, chan, send_map, send_halos_map>>
      /\ Ranks' = Ranks /\ domains' = domains
  BY DEF pvars, config, Ranks, domains
<1>2. TagInv' /\ MapInv /\ TurnInv /\ ChanInv /\ SendInv
  BY PatternStuttering DEF PairInv
<1>3. MapInv'
  <2>1. ASSUME NEW x \in Ranks
        PROVE  /\ pc'[x] \in Numbered => Found(x)'
               /\ pc'[x] \in Agreed => send_halos_map'[x] = [q \in Peers(x)' |-> SendHalos(x, q)']
    BY <1>1, <1>2, FoundSame DEF MapInv
  <2> QED
    BY <2>1, <1>1, <1>2 DEF MapInv
<1>4. TurnInv'
  <2>1. ASSUME NEW x \in Ranks PROVE InTurn(x)'
    BY <1>1, <1>2 DEF TurnInv, InTurn
  <2> QED
    BY <2>1, <1>1, <1>2 DEF TurnInv
<1>5. \A x, q : Heard(x, q)' = Heard(x, q)
  <2>1. ASSUME NEW x, NEW q PROVE Heard(x, q)' = Heard(x, q)
    <3>1. Total(x, q)' = Total(x, q)
      BY <1>1, OutboxSame
    <3> QED
      BY <3>1, <1>1 DEF Heard
  <2> QED
    BY <2>1
<1>6. ChanInv'
  <2>1. ASSUME NEW x \in Ranks PROVE SentBy(x)'
    BY <1>1, <1>2, <1>5, SentSame DEF ChanInv
  <2> QED
    BY <2>1, <1>1 DEF ChanInv
<1>7. SendInv'
  <2>1. ASSUME NEW q \in Ranks, NEW m \in DOMAIN domains[q] PROVE HoldsFor(q, m)'
    BY <1>1, <1>2, <1>5, HoldsSame DEF SendInv
  <2> QED
    BY <2>1, <1>1, <1>2 DEF SendInv
<1> QED
  BY <1>2, <1>3, <1>4, <1>6, <1>7 DEF PairInv

----------------------------------------------------------------------------
(***************************************************************************)
(* What each rank has to send, on every step of the construction: what the *)
(* roots whose turn is over have for it, and from a root that still sends  *)
(* what of its messages has been received, the rest being in the channel   *)
(* or with the root, in the order of gatherv_sends and of the turns.       *)
(***************************************************************************)
THEOREM PairInvariant == PatternSpec => []PairInv
<1>1. PatternInit => PairInv
  BY PairInitial
<1>2. PairInv /\ [PatternNext]_pvars => PairInv'
  <2>1. SUFFICES ASSUME PairInv, [PatternNext]_pvars PROVE PairInv'
    OBVIOUS
  <2>2. ASSUME NEW r \in Ranks, GatherDomains(r) PROVE PairInv'
    BY <2>1, <2>2, GatherDomainsPairs
  <2>3. ASSUME NEW r \in Ranks, FindHalos(r) PROVE PairInv'
    BY <2>1, <2>3, FindHalosPairs
  <2>4. ASSUME NEW r \in Ranks, NumberTags(r) PROVE PairInv'
    BY <2>1, <2>4, NumberTagsPairs
  <2>5. ASSUME NEW r \in Ranks, GatherTags(r) PROVE PairInv'
    BY <2>1, <2>5, GatherTagsPairs
  <2>6. ASSUME NEW r \in Ranks, KeepOwn(r) PROVE PairInv'
    BY <2>1, <2>6, KeepOwnPairs
  <2>7. ASSUME NEW r \in Ranks, Announce(r) PROVE PairInv'
    BY <2>1, <2>7, AnnouncePairs
  <2>8. ASSUME NEW r \in Ranks, Send(r) PROVE PairInv'
    BY <2>1, <2>8, SendPairs
  <2>9. ASSUME NEW r \in Ranks, EndTurn(r) PROVE PairInv'
    BY <2>1, <2>9, EndTurnPairs
  <2>10. ASSUME NEW r \in Ranks, Hear(r) PROVE PairInv'
    BY <2>1, <2>10, HearPairs
  <2>11. ASSUME NEW r \in Ranks, Recv(r) PROVE PairInv'
    BY <2>1, <2>11, RecvPairs
  <2>12. ASSUME NEW r \in Ranks, Finish(r) PROVE PairInv'
    BY <2>1, <2>12, FinishPairs
  <2>13. CASE UNCHANGED pvars
    BY <2>1, <2>13, PairStuttering
  <2> QED
    BY <2>1, <2>2, <2>3, <2>4, <2>5, <2>6, <2>7, <2>8, <2>9, <2>10, <2>11, <2>12, <2>13
       DEF PatternNext, PatternStep
<1> QED
  BY <1>1, <1>2, PTL DEF PatternSpec

\* When all is made, a rank holds all that any root has for it.
LEMMA MadeHeld ==
  ASSUME PairInv, Made, NEW r \in Ranks, NEW q \in Ranks
  PROVE  Held(r, q) = IF q \in DOMAIN send_halos_map[r] THEN DOMAIN send_halos_map[r][q] ELSE {}
<1>1. TagInv /\ MapInv /\ InTurn(q) /\ InTurn(r) /\ pc[q] = "made" /\ pc[r] = "made" /\ pc[r] \in Agreed
  BY Places DEF PairInv, TurnInv, Made
<1>2. turn[q] > r /\ turn[r] > r
  <2>1. turn[q] = Cardinality(Ranks) /\ turn[r] = Cardinality(Ranks)
    BY <1>1 DEF InTurn
  <2>2. Cardinality(Ranks) \in Nat /\ Ranks = 0 .. Cardinality(Ranks) - 1
    BY <1>1, DomainNames DEF TagInv, TagTypes
  <2> QED
    BY <2>1, <2>2
<1>3. Heard(r, q) = Total(r, q)
  <2>1. announced[r] # NotYet
    BY <1>1, <1>2 DEF InTurn
  <2> QED
    BY <2>1, <1>2 DEF Heard
<1>4. CASE r = q
  BY <1>4 DEF Held
<1>5. CASE r # q /\ q \notin DOMAIN send_halos_map[r]
  <2>1. For(r, q) = {}
    BY <1>1, <1>5, ForFacts
  <2> QED
    BY <2>1, <1>5 DEF Held
<1>6. CASE r # q /\ q \in DOMAIN send_halos_map[r]
  <2>1. PICK c \in For(r, q) : Leads(r, q, c)
    BY <1>1, <1>6, ForPeer
  <2>2. PICK f, T, D : f = For(r, q) /\ T = Total(r, q) /\ D = DOMAIN send_halos_map[r][q]
    OBVIOUS
  <2>3. Held(r, q) = {Outbox(r)[j].body.id : j \in {n \in f : Upto(f, n) \in 2 .. T}}
    BY <2>2, <1>3, <1>6 DEF Held
  <2>4. Upto(f, c) = 1 /\ \A j \in f \ {c} : Upto(f, j) \in 2 .. T
    BY <2>1, <2>2 DEF Leads
  <2>5. {n \in f : Upto(f, n) \in 2 .. T} = f \ {c}
    BY <2>4
  <2>6. \A id : Body(r, q, id).id = id
    BY DEF Body
  <2>7. \A j \in f \ {c} : Outbox(r)[j].body.id \in D
    BY <2>1, <2>2, <2>6 DEF Leads
  <2>8. \A id \in D : \E j \in f \ {c} : Outbox(r)[j].body.id = id
    BY <2>1, <2>2, <2>6 DEF Leads
  <2>9. {Outbox(r)[j].body.id : j \in f \ {c}} = D
    BY <2>7, <2>8
  <2> QED
    BY <2>2, <2>3, <2>5, <2>9, <1>6
<1> QED
  BY <1>4, <1>5, <1>6

\* A receive halo is named by one domain, which has the send halo for it.
Key(r, i, id) == <<domains[r][i].id, recv_map[r][i][id].tag>>
LEMMA MadePaired ==
  ASSUME PairInv, Made, NEW r \in Ranks, NEW i \in DOMAIN domains[r], NEW q \in Ranks, NEW m \in DOMAIN domains[q],
         NEW id, id = domains[q][m].id, id \in DOMAIN recv_map[r][i]
  PROVE  /\ recv_map[r][i][id].rank = q
         /\ Key(r, i, id) \in DOMAIN send_map[q][m]
         /\ send_map[q][m][Key(r, i, id)] = Translate(domains[q][m], recv_map[r][i][id].spaces)
<1>1. /\ TagInv /\ MapInv /\ SendInv /\ grid \in Grids /\ pc[q] = "made" /\ pc[r] = "made"
      /\ pc[r] \in Agreed /\ pc[r] \in Numbered /\ pc[q] \in InTurns
  BY Places DEF PairInv, TagInv, TagTypes, Made
<1>2. Found(r)
  BY <1>1 DEF MapInv
<1>3. DOMAIN Received[grid][r] = DOMAIN domains[r]
  BY <1>1 DEF Received, Ranks, domains
<1>4. i \in DOMAIN Received[grid][r] /\ i \in DOMAIN recv_map[r] /\ id \in DOMAIN Received[grid][r][i]
      /\ recv_map[r][i][id].rank = Received[grid][r][i][id].rank
  BY <1>2, <1>3 DEF Found
<1>5. recv_map[r][i][id].rank = q
  <2>1. PICK p : p = Received[grid][r][i][id].rank
    OBVIOUS
  <2>2. /\ Received[grid][r][i][id].rank \in Ranks
        /\ \E n \in DOMAIN domains[Received[grid][r][i][id].rank] :
             domains[Received[grid][r][i][id].rank][n].id = id
    BY <1>1, <1>4, FoundNames
  <2>3. PICK n \in DOMAIN domains[p] : domains[p][n].id = id
    BY <2>1, <2>2
  <2>4. domains[p][n].id = domains[q][m].id /\ p \in Ranks
    BY <2>1, <2>2, <2>3
  <2>5. p = q
    BY <2>4, <1>1, DomainNames
  <2> QED
    BY <2>1, <2>5, <1>4
<1>6. PICK u : u = <<i, id>>
  OBVIOUS
<1>7. u \in ReceivedFrom(r, q)
  BY <1>4, <1>5, <1>6 DEF ReceivedFrom
<1>8. DOMAIN send_halos_map[r] = Peers(r)
  BY <1>1 DEF MapInv
<1>9. q \in DOMAIN send_halos_map[r]
  BY <1>7, <1>8 DEF Peers
<1>10. DOMAIN send_halos_map[r][q] = {w[2] : w \in ReceivedFrom(r, q)}
  BY <1>1, <1>9, GivenHalos
<1>11. id \in DOMAIN send_halos_map[r][q]
  BY <1>6, <1>7, <1>10
<1>12. DOMAIN SendFor(r, q, id) =
         {<<domains[r][w[1]].id, recv_map[r][w[1]][w[2]].tag>> : w \in {v \in ReceivedFrom(r, q) : v[2] = id}}
  BY <1>1, <1>9, <1>11, GivenKeys
<1>13. PICK key : key = Key(r, i, id)
  OBVIOUS
<1>14. key \in DOMAIN SendFor(r, q, id)
  <2>1. key = <<domains[r][u[1]].id, recv_map[r][u[1]][u[2]].tag>> /\ u[2] = id
    BY <1>6, <1>13 DEF Key
  <2> QED
    BY <2>1, <1>7, <1>12
<1>15. SendFor(r, q, id)[key] = Translate(domains[q][Named(q, id)], recv_map[r][Named(r, key[1])][id].spaces)
  BY <1>1, <1>9, <1>11, <1>14, GivenKeys
<1>16. Named(q, id) = m /\ Named(r, key[1]) = i
  <2>1. key[1] = domains[r][i].id
    BY <1>13 DEF Key
  <2> QED
    BY <2>1, <1>1, DomainNames
<1>17. id \in Held(r, q)
  BY <1>9, <1>11, MadeHeld
<1>18. PICK from : from = {y \in Ranks : id \in Held(y, q)}
  OBVIOUS
<1>19. /\ DOMAIN send_map[q][m] = UNION {DOMAIN SendFor(y, q, id) : y \in from}
       /\ \A y \in from : \A k \in DOMAIN SendFor(y, q, id) : send_map[q][m][k] = SendFor(y, q, id)[k]
  BY <1>1, <1>18 DEF SendInv, HoldsFor
<1>20. r \in from
  BY <1>17, <1>18
<1>21. key \in DOMAIN send_map[q][m] /\ send_map[q][m][key] = SendFor(r, q, id)[key]
  BY <1>14, <1>19, <1>20
<1> QED
  BY <1>5, <1>13, <1>15, <1>16, <1>21

\* A send halo is for a receive halo.
LEMMA MadeWanted ==
  ASSUME PairInv, Made, NEW q \in Ranks, NEW m \in DOMAIN domains[q], NEW id, id = domains[q][m].id,
         NEW key \in DOMAIN send_map[q][m]
  PROVE  \E r \in Ranks : \E i \in DOMAIN domains[r] : id \in DOMAIN recv_map[r][i] /\ key = Key(r, i, id)
<1>1. /\ TagInv /\ MapInv /\ SendInv /\ pc[q] = "made" /\ pc[q] \in InTurns
  BY Places DEF PairInv, Made
<1>2. PICK from : from = {y \in Ranks : id \in Held(y, q)}
  OBVIOUS
<1>3. DOMAIN send_map[q][m] = UNION {DOMAIN SendFor(y, q, id) : y \in from}
  BY <1>1, <1>2 DEF SendInv, HoldsFor
<1>4. PICK r \in from : key \in DOMAIN SendFor(r, q, id)
  BY <1>3
<1>5. r \in Ranks /\ pc[r] \in Agreed /\ q \in DOMAIN send_halos_map[r] /\ id \in DOMAIN send_halos_map[r][q]
  BY <1>1, <1>2, HeldFacts
<1>6. DOMAIN SendFor(r, q, id) =
         {<<domains[r][w[1]].id, recv_map[r][w[1]][w[2]].tag>> : w \in {v \in ReceivedFrom(r, q) : v[2] = id}}
  BY <1>1, <1>5, GivenKeys
<1>7. PICK w \in {v \in ReceivedFrom(r, q) : v[2] = id} :
        key = <<domains[r][w[1]].id, recv_map[r][w[1]][w[2]].tag>>
  BY <1>4, <1>6
<1>8. w[1] \in DOMAIN domains[r] /\ w[2] \in DOMAIN recv_map[r][w[1]] /\ w[2] = id
  BY <1>1, <1>5, <1>7, Unnumbered, Wanted
<1>9. key = Key(r, w[1], id)
  BY <1>7, <1>8 DEF Key
<1> QED
  BY <1>5, <1>8, <1>9

(***************************************************************************)
(* However the ranks interleave and however far the roots run ahead of who *)
(* receives from them, every domain ends with the send halos that answer   *)
(* the receive halos which name it, no more and no fewer: the same cells,  *)
(* under the id and the tag that the receiver expects them by              *)
(* (structured/pattern.hpp:370-499).                                       *)
(***************************************************************************)
THEOREM HalosStayPaired == PatternSpec => []HalosPaired
<1>1. PairInv => HalosPaired
  <2>1. SUFFICES ASSUME PairInv, Made, NEW d \in AllDomains(grid)
        PROVE  LET dom == DomainAt(grid, d)
                   halo(e) == recv_map[e[1]][e[2]][dom.id]
                   key(e) == <<DomainAt(grid, e).id, halo(e).tag>>
                   from == {e \in AllDomains(grid) : dom.id \in DOMAIN recv_map[e[1]][e[2]]}
                   send == send_map[d[1]][d[2]]
               IN  /\ DOMAIN send = {key(e) : e \in from}
                   /\ \A e \in from : halo(e).rank = d[1] /\ send[key(e)] = Translate(dom, halo(e).spaces)
    BY DEF HalosPaired
  <2>2. PICK q \in Ranks : \E n \in DOMAIN domains[q] : d = <<q, n>>
    BY DEF AllDomains, Ranks, domains
  <2>3. PICK m \in DOMAIN domains[q] : d = <<q, m>>
    BY <2>2
  <2>4. PICK id : id = domains[q][m].id
    OBVIOUS
  <2>5. d[1] = q /\ d[2] = m /\ DomainAt(grid, d) = domains[q][m] /\ DomainAt(grid, d).id = id
    BY <2>3, <2>4 DEF DomainAt, domains
  <2>6. PICK from : from = {e \in AllDomains(grid) : id \in DOMAIN recv_map[e[1]][e[2]]}
    OBVIOUS
  <2>7. ASSUME NEW e \in from
        PROVE  /\ e[1] \in Ranks /\ e[2] \in DOMAIN domains[e[1]] /\ e = <<e[1], e[2]>>
               /\ id \in DOMAIN recv_map[e[1]][e[2]]
               /\ <<DomainAt(grid, e).id, recv_map[e[1]][e[2]][id].tag>> = Key(e[1], e[2], id)
    <3>1. PICK r \in Ranks : \E i \in DOMAIN domains[r] : e = <<r, i>>
      BY <2>6 DEF AllDomains, Ranks, domains
    <3>2. PICK i \in DOMAIN domains[r] : e = <<r, i>>
      BY <3>1
    <3> QED
      BY <3>2, <2>6 DEF Key, DomainAt, domains
  <2>8. ASSUME NEW e \in from
        PROVE  /\ recv_map[e[1]][e[2]][id].rank = q
               /\ Key(e[1], e[2], id) \in DOMAIN send_map[q][m]
               /\ send_map[q][m][Key(e[1], e[2], id)] = Translate(domains[q][m], recv_map[e[1]][e[2]][id].spaces)
    BY <2>1, <2>4, <2>7, MadePaired
  <2>9. ASSUME NEW key \in DOMAIN send_map[q][m] PROVE \E e \in from : key = Key(e[1], e[2], id)
    <3>1. PICK r \in Ranks : \E i \in DOMAIN domains[r] : id \in DOMAIN recv_map[r][i] /\ key = Key(r, i, id)
      BY <2>1, <2>4, MadeWanted
    <3>2. PICK i \in DOMAIN domains[r] : id \in DOMAIN recv_map[r][i] /\ key = Key(r, i, id)
      BY <3>1
    <3>3. <<r, i>> \in AllDomains(grid)
      BY DEF AllDomains, Ranks, domains
    <3> QED
      BY <3>2, <3>3, <2>6
  <2>10. PICK send : send = send_map[q][m]
    OBVIOUS
  <2>11. DOMAIN send = {<<DomainAt(grid, e).id, recv_map[e[1]][e[2]][id].tag>> : e \in from}
    <3>1. ASSUME NEW e \in from PROVE <<DomainAt(grid, e).id, recv_map[e[1]][e[2]][id].tag>> \in DOMAIN send
      BY <2>7, <2>8, <2>10
    <3>2. ASSUME NEW key \in DOMAIN send
          PROVE  \E e \in from : key = <<DomainAt(grid, e).id, recv_map[e[1]][e[2]][id].tag>>
      BY <2>7, <2>9, <2>10
    <3> QED
      BY <3>1, <3>2
  <2>12. ASSUME NEW e \in from
         PROVE  /\ recv_map[e[1]][e[2]][id].rank = q
                /\ send[<<DomainAt(grid, e).id, recv_map[e[1]][e[2]][id].tag>>] =
                     Translate(domains[q][m], recv_map[e[1]][e[2]][id].spaces)
    BY <2>7, <2>8, <2>10
  <2> QED
    BY <2>5, <2>6, <2>10, <2>11, <2>12
<1> QED
  BY <1>1, PairInvariant, PTL

\* What the receive halo of domain d from domain id writes to cell x, as the
\* patterns are made and as the generator means it.
Fills(r, i, x, id) ==
  Taken(grid, domains[r][i], id, recv_map[r][i][id].spaces,
        send_map[recv_map[r][i][id].rank][Named(recv_map[r][i][id].rank, id)]
                [<<domains[r][i].id, recv_map[r][i][id].tag>>], x)
Meant(g, d, x, id) ==
  Taken(g, DomainAt(g, d), id, Received[g][d[1]][d[2]][id].spaces,
        Translate(DomainAt(g, CHOOSE o \in AllDomains(g) : DomainAt(g, o).id = id),
                  Received[g][d[1]][d[2]][id].spaces), x)
\* The two, in the words of HalosCover and of Sources.
LEMMA CoverMeant ==
  ASSUME NEW g, HalosCover(g), NEW d \in AllDomains(g), NEW x \in CellsAround(g, DomainAt(g, d))
  PROVE  UNION {Meant(g, d, x, id) : id \in DOMAIN Received[g][d[1]][d[2]]} = Owner(g, d, x)
BY Zenon DEF HalosCover, Meant

LEMMA SourcesFill ==
  ASSUME NEW r, NEW i, NEW x
  PROVE  Sources(r, i, x) = UNION {Fills(r, i, x, id) : id \in DOMAIN recv_map[r][i]}
BY Zenon DEF Sources, Fills

(***************************************************************************)
(* If the halo generator covers the halos of every grid, so do the         *)
(* patterns when they are made: every cell of the halo of every domain is  *)
(* then filled once, with the cell that the grid has there, by the rank    *)
(* that owns it (structured/pattern.hpp:246-499).                          *)
(***************************************************************************)
THEOREM HalosReach ==
  ASSUME \A g \in Grids : HalosCover(g)
  PROVE  PatternSpec => []HalosReachOwners
<1>1. PairInv => HalosReachOwners
  <2>1. SUFFICES ASSUME PairInv, Made, NEW d \in AllDomains(grid), NEW x \in CellsAround(grid, DomainAt(grid, d))
        PROVE  Sources(d[1], d[2], x) = Owner(grid, d, x)
    BY DEF HalosReachOwners
  <2>2. PICK r \in Ranks : \E n \in DOMAIN domains[r] : d = <<r, n>>
    BY DEF AllDomains, Ranks, domains
  <2>3. PICK i \in DOMAIN domains[r] : d = <<r, i>>
    BY <2>2
  <2>4. d[1] = r /\ d[2] = i /\ DomainAt(grid, d) = domains[r][i]
    BY <2>3 DEF DomainAt, domains
  <2>5. /\ TagInv /\ MapInv /\ grid \in Grids /\ pc[r] = "made" /\ pc[r] \in Numbered
    BY <2>1, Places DEF PairInv, TagInv, TagTypes, Made
  <2>6. PICK R : R = Received[grid][r][i]
    OBVIOUS
  <2>7. DOMAIN Received[grid][r] = DOMAIN domains[r]
    BY <2>5 DEF Received, Ranks, domains
  <2>8. /\ DOMAIN recv_map[r][i] = DOMAIN R
        /\ \A id \in DOMAIN R : recv_map[r][i][id].rank = R[id].rank /\ recv_map[r][i][id].spaces = R[id].spaces
    BY <2>5, <2>6, <2>7 DEF MapInv, Found
  <2>9. ASSUME NEW id \in DOMAIN R
        PROVE  Fills(r, i, x, id) = Meant(grid, d, x, id)
    <3>1. PICK q : q = R[id].rank
      OBVIOUS
    <3>2. q \in Ranks /\ \E m \in DOMAIN domains[q] : domains[q][m].id = id
      BY <3>1, <2>5, <2>6, <2>7, FoundNames
    <3>3. PICK m \in DOMAIN domains[q] : domains[q][m].id = id
      BY <3>2
    <3>4. Named(q, id) = m
      BY <3>2, <3>3, <2>5, DomainNames
    <3>5. (CHOOSE o \in AllDomains(grid) : DomainAt(grid, o).id = id) = <<q, m>>
      <4>1. <<q, m>> \in AllDomains(grid) /\ DomainAt(grid, <<q, m>>).id = id
        BY <3>2, <3>3 DEF AllDomains, DomainAt, Ranks, domains
      <4>2. \A o \in AllDomains(grid) : DomainAt(grid, o).id = id => o = <<q, m>>
        BY <4>1, <2>5, GridsType
      <4> QED
        BY <4>1, <4>2
    <3>6. DomainAt(grid, <<q, m>>) = domains[q][m]
      BY DEF DomainAt, domains
    <3>7. send_map[q][m][Key(r, i, id)] = Translate(domains[q][m], recv_map[r][i][id].spaces)
      BY <3>2, <3>3, <2>1, <2>8, MadePaired
    <3>8. PICK S : S = R[id].spaces
      OBVIOUS
    <3>9. recv_map[r][i][id].rank = q /\ recv_map[r][i][id].spaces = S
      BY <3>1, <3>8, <2>8
    <3>10. Fills(r, i, x, id) = Taken(grid, domains[r][i], id, S, Translate(domains[q][m], S), x)
      <4>1. send_map[q][m][<<domains[r][i].id, recv_map[r][i][id].tag>>] = Translate(domains[q][m], S)
        BY <3>7, <3>9 DEF Key
      <4> QED
        BY <4>1, <3>4, <3>9 DEF Fills
    <3>11. Meant(grid, d, x, id) = Taken(grid, domains[r][i], id, S, Translate(domains[q][m], S), x)
      <4>1. Received[grid][d[1]][d[2]][id].spaces = S
        BY <3>8, <2>4, <2>6
      <4> QED
        BY <4>1, <3>5, <3>6, <2>4 DEF Meant
    <3> QED
      BY <3>10, <3>11
  <2>10. UNION {Fills(r, i, x, id) : id \in DOMAIN R} = UNION {Meant(grid, d, x, id) : id \in DOMAIN R}
    BY <2>9
  <2>11. HalosCover(grid)
    BY <2>5
  <2>12. UNION {Meant(grid, d, x, id) : id \in DOMAIN R} = Owner(grid, d, x)
    BY <2>1, <2>4, <2>6, <2>11, CoverMeant
  <2> QED
    BY <2>4, <2>8, <2>10, <2>12, SourcesFill
<1> QED
  BY <1>1, PairInvariant, PTL

----------------------------------------------------------------------------
(***************************************************************************)
(* Staged patterns: the names of domains, and what a domain is given.      *)
(***************************************************************************)

IdAt(g, d) == DomainAt(g, d).id
NamesOf(g, A) == {IdAt(g, e) : e \in A}
NamedIn(g, id) == CHOOSE e \in AllDomains(g) : IdAt(g, e) = id

LEMMA StagedNames ==
  ASSUME NEW g \in StagedGrids, NEW d \in AllDomains(g)
  PROVE  /\ d = <<d[1], d[2]>> /\ d[1] \in RanksOf(g) /\ d[2] \in DOMAIN g.domains[d[1]] /\ d[2] \in Int
         /\ IdAt(g, d) \in Int /\ IdAt(g, d) = g.domains[d[1]][d[2]].id /\ NamedIn(g, IdAt(g, d)) = d
<1>1. d = <<d[1], d[2]>> /\ d[1] \in RanksOf(g) /\ d[2] \in DOMAIN g.domains[d[1]]
  BY DEF AllDomains
<1>2. NamedIn(g, IdAt(g, d)) = d
  <2>1. PICK id : id = IdAt(g, d)
    OBVIOUS
  <2>2. (CHOOSE e \in AllDomains(g) : IdAt(g, e) = id) = d
    BY <2>1, StagedGridsType DEF IdAt
  <2> QED
    BY <2>1, <2>2 DEF NamedIn
<1> QED
  BY <1>1, <1>2, StagedGridsType DEF IdAt, DomainAt

LEMMA StagedPlace ==
  ASSUME NEW g \in StagedGrids, NEW r \in RanksOf(g), NEW n \in DOMAIN g.domains[r]
  PROVE  <<r, n>> \in AllDomains(g) /\ DomainAt(g, <<r, n>>) = g.domains[r][n]
BY DEF AllDomains, DomainAt

\* The domains that slices are shared with.
Withs(slices) == {slices[n].with : n \in DOMAIN slices}

LEMMA TwoSlices ==
  ASSUME NEW a, NEW b
  PROVE  /\ Withs(<< >> \o << >>) = {} /\ Withs(<<a>> \o << >>) = {a.with}
         /\ Withs(<< >> \o <<b>>) = {b.with} /\ Withs(<<a>> \o <<b>>) = {a.with, b.with}
<1>1. PICK S : S = {a, b}
  OBVIOUS
<1>2. << >> \in Seq(S) /\ <<a>> \in Seq(S) /\ <<b>> \in Seq(S)
  BY <1>1
<1>3. Len(<< >>) = 0 /\ Len(<<a>>) = 1 /\ Len(<<b>>) = 1 /\ <<a>>[1] = a /\ <<b>>[1] = b
  OBVIOUS
<1>4. ASSUME NEW s \in Seq(S), NEW t \in Seq(S), Len(s) \in 0 .. 1, Len(t) \in 0 .. 1
      PROVE  \A x : x \in Withs(s \o t) <=> (Len(s) = 1 /\ x = s[1].with) \/ (Len(t) = 1 /\ x = t[1].with)
  <2>1. PICK c : c = s \o t
    OBVIOUS
  <2>2. /\ c \in Seq(S) /\ Len(c) = Len(s) + Len(t)
        /\ \A j \in 1 .. Len(s) : c[j] = s[j]
        /\ \A j \in 1 .. Len(t) : c[Len(s) + j] = t[j]
    BY <2>1, <1>4, ConcatFacts
  <2>3. DOMAIN c = 1 .. Len(s) + Len(t)
    BY <2>2
  <2>4. \A n \in DOMAIN c : (Len(s) = 1 /\ n = 1 /\ c[n] = s[1]) \/ (Len(t) = 1 /\ n = Len(s) + 1 /\ c[n] = t[1])
    BY ONLY <2>2, <2>3, <1>4
  <2>5. Len(s) = 1 => 1 \in DOMAIN c /\ c[1] = s[1]
    BY ONLY <2>2, <2>3, <1>4
  <2>6. Len(t) = 1 => Len(s) + 1 \in DOMAIN c /\ c[Len(s) + 1] = t[1]
    BY ONLY <2>2, <2>3, <1>4
  <2> QED
    BY <2>1, <2>4, <2>5, <2>6 DEF Withs
<1>6. PICK e, u, v : e = << >> /\ u = <<a>> /\ v = <<b>>
  OBVIOUS
<1>7. /\ e \in Seq(S) /\ u \in Seq(S) /\ v \in Seq(S) /\ Len(e) = 0 /\ Len(u) = 1 /\ Len(v) = 1
      /\ u[1] = a /\ v[1] = b
  BY <1>2, <1>3, <1>6
<1>8. /\ Withs(e \o e) = {} /\ Withs(u \o e) = {a.with}
      /\ Withs(e \o v) = {b.with} /\ Withs(u \o v) = {a.with, b.with}
  <2>1. ASSUME NEW s \in Seq(S), NEW t \in Seq(S), Len(s) = 0, Len(t) = 0 PROVE Withs(s \o t) = {}
    <3>1. \A x : x \in Withs(s \o t) <=> (Len(s) = 1 /\ x = s[1].with) \/ (Len(t) = 1 /\ x = t[1].with)
      <4>1. Len(s) \in 0 .. 1 /\ Len(t) \in 0 .. 1
        BY ONLY <2>1
      <4> QED
        BY ONLY <1>4, <4>1, Zenon
    <3>2. \A x : x \in Withs(s \o t) <=> FALSE
      BY ONLY <3>1, <2>1
    <3> QED
      BY ONLY <3>2
  <2>2. ASSUME NEW s \in Seq(S), NEW t \in Seq(S), Len(s) = 1, Len(t) = 0 PROVE Withs(s \o t) = {s[1].with}
    <3>1. \A x : x \in Withs(s \o t) <=> (Len(s) = 1 /\ x = s[1].with) \/ (Len(t) = 1 /\ x = t[1].with)
      <4>1. Len(s) \in 0 .. 1 /\ Len(t) \in 0 .. 1
        BY ONLY <2>2
      <4> QED
        BY ONLY <1>4, <4>1, Zenon
    <3>2. \A x : x \in Withs(s \o t) <=> x = s[1].with
      BY ONLY <3>1, <2>2
    <3> QED
      BY ONLY <3>2
  <2>3. ASSUME NEW s \in Seq(S), NEW t \in Seq(S), Len(s) = 0, Len(t) = 1 PROVE Withs(s \o t) = {t[1].with}
    <3>1. \A x : x \in Withs(s \o t) <=> (Len(s) = 1 /\ x = s[1].with) \/ (Len(t) = 1 /\ x = t[1].with)
      <4>1. Len(s) \in 0 .. 1 /\ Len(t) \in 0 .. 1
        BY ONLY <2>3
      <4> QED
        BY ONLY <1>4, <4>1, Zenon
    <3>2. \A x : x \in Withs(s \o t) <=> x = t[1].with
      BY ONLY <3>1, <2>3
    <3> QED
      BY ONLY <3>2
  <2>4. ASSUME NEW s \in Seq(S), NEW t \in Seq(S), Len(s) = 1, Len(t) = 1 PROVE Withs(s \o t) = {s[1].with, t[1].with}
    <3>1. \A x : x \in Withs(s \o t) <=> (Len(s) = 1 /\ x = s[1].with) \/ (Len(t) = 1 /\ x = t[1].with)
      <4>1. Len(s) \in 0 .. 1 /\ Len(t) \in 0 .. 1
        BY ONLY <2>4
      <4> QED
        BY ONLY <1>4, <4>1, Zenon
    <3>2. \A x : x \in Withs(s \o t) <=> x = s[1].with \/ x = t[1].with
      BY ONLY <3>1, <2>4
    <3> QED
      BY ONLY <3>2
  <2> QED
    BY ONLY <2>1, <2>2, <2>3, <2>4, <1>7
<1> QED
  BY ONLY <1>6, <1>8, Zenon

LEMMA SliceFacts ==
  ASSUME NEW g \in StagedGrids, NEW d \in AllDomains(g), NEW i
  PROVE  /\ Withs(RecvSlices(g, DomainAt(g, d), i)) = Adjacent(g, d, i)
         /\ Withs(SendSlices(g, DomainAt(g, d), i)) = Adjacent(g, d, i)
<1>1. PICK dom, left, right : /\ dom = DomainAt(g, d) /\ left = Neighbor(g, dom, i, -1)
                              /\ right = Neighbor(g, dom, i, 1)
  OBVIOUS
<1>2. PICK l, m : /\ l = [with |-> left, space |-> Slice(Grown(g, dom, i), i, -g.hgen.below[i], -1)]
                  /\ m = [with |-> right, space |-> Slice(Grown(g, dom, i), i, Grown(g, dom, i).last[i] + 1,
                                                          Grown(g, dom, i).last[i] + g.hgen.above[i])]
  OBVIOUS
<1>3. PICK k, o : /\ k = [with |-> right, space |-> Slice(Grown(g, dom, i), i, Grown(g, dom, i).last[i] + 1 - g.hgen.below[i],
                                                          Grown(g, dom, i).last[i])]
                  /\ o = [with |-> left, space |-> Slice(Grown(g, dom, i), i, 0, g.hgen.above[i] - 1)]
  OBVIOUS
<1>4. /\ RecvSlices(g, dom, i) = (IF HasLeft(g, dom, i) THEN <<l>> ELSE << >>) \o (IF HasRight(g, dom, i) THEN <<m>> ELSE << >>)
      /\ SendSlices(g, dom, i) = (IF HasRight(g, dom, i) THEN <<k>> ELSE << >>) \o (IF HasLeft(g, dom, i) THEN <<o>> ELSE << >>)
  BY <1>1, <1>2, <1>3, Zenon DEF RecvSlices, SendSlices
<1>5. l.with = left /\ m.with = right /\ k.with = right /\ o.with = left
  BY <1>2, <1>3
<1>6. PICK signs : signs = {s \in {-1, 1} : IF s < 0 THEN HasLeft(g, dom, i) ELSE HasRight(g, dom, i)}
  OBVIOUS
<1>7. (-1 \in signs <=> HasLeft(g, dom, i)) /\ (1 \in signs <=> HasRight(g, dom, i)) /\ signs \subseteq {-1, 1}
  BY <1>6
<1>8. Adjacent(g, d, i) = {Neighbor(g, dom, i, sign) : sign \in signs}
  BY <1>1, <1>6, Zenon DEF Adjacent
<1>9. \A x : x \in Adjacent(g, d, i) <=> (HasLeft(g, dom, i) /\ x = left) \/ (HasRight(g, dom, i) /\ x = right)
  BY <1>1, <1>7, <1>8
<1>10. \A x : x \in Withs(RecvSlices(g, dom, i)) <=> (HasLeft(g, dom, i) /\ x = left) \/ (HasRight(g, dom, i) /\ x = right)
  <2>1. PICK R : R = RecvSlices(g, dom, i)
    OBVIOUS
  <2>2. CASE HasLeft(g, dom, i) /\ HasRight(g, dom, i)
    <3>1. R = <<l>> \o <<m>>
      BY <2>1, <2>2, <1>4, Zenon
    <3>2. Withs(R) = {l.with, m.with}
      BY ONLY <3>1, <1>5, TwoSlices, Zenon
    <3> QED
      BY <2>1, <2>2, <3>2, <1>5
  <2>3. CASE HasLeft(g, dom, i) /\ ~HasRight(g, dom, i)
    <3>1. R = <<l>> \o << >>
      BY <2>1, <2>3, <1>4, Zenon
    <3>2. Withs(R) = {l.with}
      BY ONLY <3>1, <1>5, TwoSlices, Zenon
    <3> QED
      BY <2>1, <2>3, <3>2, <1>5
  <2>4. CASE ~HasLeft(g, dom, i) /\ HasRight(g, dom, i)
    <3>1. R = << >> \o <<m>>
      BY <2>1, <2>4, <1>4, Zenon
    <3>2. Withs(R) = {m.with}
      BY ONLY <3>1, <1>5, TwoSlices, Zenon
    <3> QED
      BY <2>1, <2>4, <3>2, <1>5
  <2>5. CASE ~HasLeft(g, dom, i) /\ ~HasRight(g, dom, i)
    <3>1. R = << >> \o << >>
      BY <2>1, <2>5, <1>4, Zenon
    <3>2. Withs(R) = {}
      BY ONLY <3>1, <1>5, TwoSlices, Zenon
    <3> QED
      BY <2>1, <2>5, <3>2, <1>5
  <2> QED
    BY <2>2, <2>3, <2>4, <2>5
<1>11. \A x : x \in Withs(SendSlices(g, dom, i)) <=> (HasLeft(g, dom, i) /\ x = left) \/ (HasRight(g, dom, i) /\ x = right)
  <2>1. PICK R : R = SendSlices(g, dom, i)
    OBVIOUS
  <2>2. CASE HasRight(g, dom, i) /\ HasLeft(g, dom, i)
    <3>1. R = <<k>> \o <<o>>
      BY <2>1, <2>2, <1>4, Zenon
    <3>2. Withs(R) = {k.with, o.with}
      BY ONLY <3>1, <1>5, TwoSlices, Zenon
    <3> QED
      BY <2>1, <2>2, <3>2, <1>5
  <2>3. CASE HasRight(g, dom, i) /\ ~HasLeft(g, dom, i)
    <3>1. R = <<k>> \o << >>
      BY <2>1, <2>3, <1>4, Zenon
    <3>2. Withs(R) = {k.with}
      BY ONLY <3>1, <1>5, TwoSlices, Zenon
    <3> QED
      BY <2>1, <2>3, <3>2, <1>5
  <2>4. CASE ~HasRight(g, dom, i) /\ HasLeft(g, dom, i)
    <3>1. R = << >> \o <<o>>
      BY <2>1, <2>4, <1>4, Zenon
    <3>2. Withs(R) = {o.with}
      BY ONLY <3>1, <1>5, TwoSlices, Zenon
    <3> QED
      BY <2>1, <2>4, <3>2, <1>5
  <2>5. CASE ~HasRight(g, dom, i) /\ ~HasLeft(g, dom, i)
    <3>1. R = << >> \o << >>
      BY <2>1, <2>5, <1>4, Zenon
    <3>2. Withs(R) = {}
      BY ONLY <3>1, <1>5, TwoSlices, Zenon
    <3> QED
      BY <2>1, <2>5, <3>2, <1>5
  <2> QED
    BY <2>2, <2>3, <2>4, <2>5
<1> QED
  BY <1>1, <1>9, <1>10, <1>11

LEMMA HaloMapFacts ==
  ASSUME NEW g \in StagedGrids, NEW slices, Withs(slices) \subseteq AllDomains(g)
  PROVE  /\ DOMAIN HaloMap(g, slices) = NamesOf(g, Withs(slices))
         /\ \A e \in Withs(slices) :
              HaloMap(g, slices)[IdAt(g, e)] =
                [rank |-> e[1], tag |-> 0, spaces |-> SpacesWith(g, slices, IdAt(g, e))]
<1>1. HaloMap(g, slices) =
        [id \in {IdAt(g, e) : e \in Withs(slices)} |->
           [rank |-> (CHOOSE e \in Withs(slices) : IdAt(g, e) = id)[1], tag |-> 0,
            spaces |-> SpacesWith(g, slices, id)]]
  BY Zenon DEF HaloMap, Withs, IdAt
<1>2. ASSUME NEW e \in Withs(slices)
      PROVE  HaloMap(g, slices)[IdAt(g, e)] = [rank |-> e[1], tag |-> 0, spaces |-> SpacesWith(g, slices, IdAt(g, e))]
  <2>1. PICK id : id = IdAt(g, e)
    OBVIOUS
  <2>2. (CHOOSE f \in Withs(slices) : IdAt(g, f) = id) = e
    BY <2>1, StagedGridsType DEF IdAt
  <2> QED
    BY <1>1, <2>1, <2>2
<1>3. DOMAIN HaloMap(g, slices) = NamesOf(g, Withs(slices))
  BY <1>1 DEF NamesOf
<1> QED
  BY <1>2, <1>3

Axes(g) == DOMAIN g.hgen.first
Given(g, d, i) == Built[g][d[1]][d[2]][i]

LEMMA GivenFacts ==
  ASSUME NEW g \in StagedGrids, NEW d \in AllDomains(g), NEW i \in Axes(g), NEW side \in {"recv", "send"}
  PROVE  /\ DOMAIN Given(g, d, i)[side] = NamesOf(g, Adjacent(g, d, i))
         /\ \A e \in Adjacent(g, d, i) :
              Given(g, d, i)[side][IdAt(g, e)] =
                [rank |-> e[1], tag |-> 0, spaces |-> Given(g, d, i)[side][IdAt(g, e)].spaces]
<1>1. d[1] \in RanksOf(g) /\ d[2] \in DOMAIN g.domains[d[1]]
  BY StagedNames
<1>2. Given(g, d, i) = [recv |-> HaloMap(g, RecvSlices(g, DomainAt(g, d), i)),
                        send |-> HaloMap(g, SendSlices(g, DomainAt(g, d), i))]
  BY <1>1 DEF Given, Built, DomainAt, Axes
<1>3. PICK slices : /\ slices = IF side = "recv" THEN RecvSlices(g, DomainAt(g, d), i) ELSE SendSlices(g, DomainAt(g, d), i)
                    /\ Given(g, d, i)[side] = HaloMap(g, slices)
  BY <1>2
<1>4. Withs(slices) = Adjacent(g, d, i)
  BY <1>3, SliceFacts
<1>5. Withs(slices) \subseteq AllDomains(g)
  BY <1>4, StagedGridsType DEF Axes
<1>6. PICK H : H = Given(g, d, i)[side]
  OBVIOUS
<1>7. /\ DOMAIN H = NamesOf(g, Withs(slices))
      /\ \A e \in Withs(slices) : H[IdAt(g, e)] = [rank |-> e[1], tag |-> 0, spaces |-> SpacesWith(g, slices, IdAt(g, e))]
  BY <1>3, <1>5, <1>6, HaloMapFacts
<1>8. \A e \in Adjacent(g, d, i) : H[IdAt(g, e)] = [rank |-> e[1], tag |-> 0, spaces |-> H[IdAt(g, e)].spaces]
  <2>1. PICK A : A = Adjacent(g, d, i) /\ A = Withs(slices)
    BY <1>4
  <2>2. \A e \in A : H[IdAt(g, e)] = [rank |-> e[1], tag |-> 0, spaces |-> SpacesWith(g, slices, IdAt(g, e))]
    BY <1>7, <2>1
  <2>3. ASSUME NEW e \in A PROVE H[IdAt(g, e)] = [rank |-> e[1], tag |-> 0, spaces |-> H[IdAt(g, e)].spaces]
    <3>1. PICK h : h = H[IdAt(g, e)]
      OBVIOUS
    <3>2. h = [rank |-> e[1], tag |-> 0, spaces |-> SpacesWith(g, slices, IdAt(g, e))]
      BY <2>2, <3>1
    <3>3. h = [rank |-> e[1], tag |-> 0, spaces |-> h.spaces]
      BY <3>2
    <3> QED
      BY <3>1, <3>3
  <2> QED
    BY <2>1, <2>3
<1> QED
  BY <1>4, <1>6, <1>7, <1>8

----------------------------------------------------------------------------
(***************************************************************************)
(* What one rank receives from another in a stage, and its tags.           *)
(***************************************************************************)

\* What r receives from q in stage i, by the index of the domain and the id of
\* the sender; the tag of what d receives from e.
Links(g, r, q, i) ==
  UNION {{<<n, IdAt(g, e)>> : e \in {f \in Adjacent(g, <<r, n>>, i) : f[1] = q}} : n \in DOMAIN g.domains[r]}
Entry(g, d, e) == <<d[2], IdAt(g, e)>>
LinkTag(g, d, e, i) == Cardinality(Pred(Links(g, d[1], e[1], i), Entry(g, d, e)))

LEMMA LinkFacts ==
  ASSUME NEW g \in StagedGrids, NEW i \in Axes(g), NEW r \in RanksOf(g), NEW q
  PROVE  /\ \A d, e \in AllDomains(g) : e \in Adjacent(g, d, i) /\ d[1] = r /\ e[1] = q => Entry(g, d, e) \in Links(g, r, q, i)
         /\ \A b \in Links(g, r, q, i) :
              \E d, e \in AllDomains(g) : e \in Adjacent(g, d, i) /\ d[1] = r /\ e[1] = q /\ b = Entry(g, d, e)
<1>1. ASSUME NEW d \in AllDomains(g), NEW e \in AllDomains(g), e \in Adjacent(g, d, i), d[1] = r, e[1] = q
      PROVE  Entry(g, d, e) \in Links(g, r, q, i)
  <2>1. d = <<r, d[2]>> /\ d[2] \in DOMAIN g.domains[r]
    BY <1>1, StagedNames
  <2> QED
    BY <1>1, <2>1 DEF Links, Entry
<1>2. ASSUME NEW b \in Links(g, r, q, i)
      PROVE  \E d, e \in AllDomains(g) : e \in Adjacent(g, d, i) /\ d[1] = r /\ e[1] = q /\ b = Entry(g, d, e)
  <2>1. PICK n \in DOMAIN g.domains[r] : b \in {<<n, IdAt(g, e)>> : e \in {f \in Adjacent(g, <<r, n>>, i) : f[1] = q}}
    BY DEF Links
  <2>2. PICK d : d = <<r, n>>
    OBVIOUS
  <2>3. d \in AllDomains(g) /\ d[1] = r /\ d[2] = n
    BY <2>2, StagedPlace
  <2>4. PICK e \in Adjacent(g, d, i) : e[1] = q /\ b = <<n, IdAt(g, e)>>
    BY <2>1, <2>2
  <2>5. e \in AllDomains(g)
    BY <2>3, StagedGridsType DEF Axes
  <2> QED
    BY <2>3, <2>4, <2>5 DEF Entry
<1> QED
  BY <1>1, <1>2

\* Entries name their domains.
LEMMA EntryNames ==
  ASSUME NEW g \in StagedGrids, NEW d \in AllDomains(g), NEW e \in AllDomains(g),
         NEW c \in AllDomains(g), NEW f \in AllDomains(g), d[1] = c[1], Entry(g, d, e) = Entry(g, c, f)
  PROVE  d = c /\ e = f
<1>1. d[2] = c[2] /\ IdAt(g, e) = IdAt(g, f)
  BY DEF Entry
<1> QED
  BY <1>1, StagedNames, StagedGridsType DEF IdAt

LEMMA LinksFinite ==
  ASSUME NEW g \in StagedGrids, NEW i \in Axes(g), NEW r \in RanksOf(g), NEW q
  PROVE  Links(g, r, q, i) \in SUBSET (Int \X Int) /\ IsFiniteSet(Links(g, r, q, i))
<1> DEFINE D == AllDomains(g)
           h == [p \in D \X D |-> Entry(g, p[1], p[2])]
<1>1. IsFiniteSet(D \X D)
  BY StagedGridsType, FS_Product
<1>2. PICK T : T = {h[p] : p \in D \X D}
  OBVIOUS
<1>3. h \in Surjection(D \X D, T)
  BY <1>2 DEF Surjection
<1>4. IsFiniteSet(T)
  <2> HIDE DEF h, D
  <2> QED
    BY <1>1, <1>3, FS_Surjection
<1>5. Links(g, r, q, i) \subseteq T
  <2>1. ASSUME NEW b \in Links(g, r, q, i) PROVE b \in T
    <3>1. PICK d \in D, e \in D : b = Entry(g, d, e)
      BY LinkFacts
    <3>2. <<d, e>> \in D \X D /\ h[<<d, e>>] = b
      BY <3>1
    <3> QED
      BY <1>2, <3>2
  <2> QED
    BY <2>1
<1>6. \A b \in Links(g, r, q, i) : b \in Int \X Int
  BY LinkFacts, StagedNames DEF Entry
<1> QED
  BY <1>4, <1>5, <1>6, FS_Subset

LEMMA LinkTags ==
  ASSUME NEW g \in StagedGrids, NEW i \in Axes(g), NEW d \in AllDomains(g), NEW e \in AllDomains(g), e \in Adjacent(g, d, i)
  PROVE  /\ LinkTag(g, d, e, i) \in Nat
         /\ \A c, f \in AllDomains(g) :
              f \in Adjacent(g, c, i) /\ c[1] = d[1] /\ f[1] = e[1] /\ LinkTag(g, c, f, i) = LinkTag(g, d, e, i)
                => c = d /\ f = e
<1>1. PICK L : L = Links(g, d[1], e[1], i)
  OBVIOUS
<1>2. d[1] \in RanksOf(g)
  BY StagedNames
<1>3. L \in SUBSET (Int \X Int) /\ IsFiniteSet(L) /\ Entry(g, d, e) \in L
  BY <1>1, <1>2, LinksFinite, LinkFacts
<1>4. /\ Cardinality(Pred(L, Entry(g, d, e))) \in 0 .. Cardinality(L) - 1
      /\ \A b \in L : Cardinality(Pred(L, Entry(g, d, e))) = Cardinality(Pred(L, b)) => Entry(g, d, e) = b
  BY <1>3, Positions
<1>5. Cardinality(L) \in Nat
  BY <1>3, FS_CardinalityType
<1>6. LinkTag(g, d, e, i) = Cardinality(Pred(L, Entry(g, d, e)))
  BY <1>1 DEF LinkTag
<1>7. ASSUME NEW c \in AllDomains(g), NEW f \in AllDomains(g), f \in Adjacent(g, c, i), c[1] = d[1], f[1] = e[1],
             LinkTag(g, c, f, i) = LinkTag(g, d, e, i)
      PROVE  c = d /\ f = e
  <2>1. Entry(g, c, f) \in L
    BY <1>1, <1>2, <1>7, LinkFacts
  <2>2. LinkTag(g, c, f, i) = Cardinality(Pred(L, Entry(g, c, f)))
    BY <1>1, <1>7 DEF LinkTag
  <2>3. Entry(g, c, f) = Entry(g, d, e)
    BY <2>1, <2>2, <1>4, <1>6, <1>7
  <2> QED
    BY <2>3, <1>7, EntryNames
<1> QED
  BY <1>4, <1>5, <1>6, <1>7

\* Who has something for r in stage i has something from it.
Peered(g, r, q, i) == Links(g, r, q, i) # {}
LEMMA PeeredBoth ==
  ASSUME NEW g \in StagedGrids, NEW i \in Axes(g), NEW r \in RanksOf(g), NEW q \in RanksOf(g), Peered(g, r, q, i)
  PROVE  Peered(g, q, r, i)
<1>1. PICK b : b \in Links(g, r, q, i)
  BY DEF Peered
<1>2. PICK d \in AllDomains(g), e \in AllDomains(g) : e \in Adjacent(g, d, i) /\ d[1] = r /\ e[1] = q
  BY <1>1, LinkFacts
<1>3. d \in Adjacent(g, e, i)
  BY <1>2, StagedGridsType DEF Axes
<1> QED
  BY <1>2, <1>3, LinkFacts DEF Peered

----------------------------------------------------------------------------
(***************************************************************************)
(* The inductive invariant of the construction of staged patterns.         *)
(***************************************************************************)

\* What a rank has built: the halos it was given, with tags as they are known.
Halo(r, n, i, side, e) == staged[r][n][i][side][IdAt(grid, e)]
LikeGiven(r, n, i, side) ==
  /\ DOMAIN staged[r][n][i][side] = DOMAIN Given(grid, <<r, n>>, i)[side]
  /\ \A e \in Adjacent(grid, <<r, n>>, i) :
       Halo(r, n, i, side, e) =
         [rank |-> e[1], tag |-> Halo(r, n, i, side, e).tag,
          spaces |-> Given(grid, <<r, n>>, i)[side][IdAt(grid, e)].spaces]
Shaped(r) ==
  /\ DOMAIN staged[r] = DOMAIN domains[r]
  /\ \A n \in DOMAIN domains[r] :
       /\ DOMAIN staged[r][n] = Stages
       /\ \A i \in Stages : /\ staged[r][n][i] = [recv |-> staged[r][n][i].recv, send |-> staged[r][n][i].send]
                            /\ \A side \in {"recv", "send"} : LikeGiven(r, n, i, side)
Counted(r, i) == i < stage[r] \/ (i = stage[r] /\ pc[r] = "send")
Counts(r) ==
  \A n \in DOMAIN domains[r] : \A i \in Stages : \A e \in Adjacent(grid, <<r, n>>, i) :
    /\ Counted(r, i) => Halo(r, n, i, "recv", e).tag = LinkTag(grid, <<r, n>>, e, i)
    /\ i < stage[r]  => Halo(r, n, i, "send", e).tag = LinkTag(grid, e, <<r, n>>, i)
BuiltInv ==
  /\ DOMAIN staged = Ranks
  /\ \A r \in Ranks : pc[r] # "halos" => Shaped(r) /\ Counts(r)

\* Where a rank is in its stages.
StagePlaces == {"halos", "tags", "send", "staged"}
InStage(r) ==
  /\ pc[r] = "halos" => stage[r] = 1
  /\ pc[r] # "staged" => stage[r] \in Stages
  /\ pc[r] = "staged" => stage[r] = Len(grid.hgen.first) + 1
  /\ pc[r] # "send" => todo[r] = << >> /\ awaited[r] = {}
  /\ \A n \in 1 .. Len(todo[r]) : Peered(grid, r, todo[r][n], stage[r])
  /\ \A n, m \in 1 .. Len(todo[r]) : todo[r][n] = todo[r][m] => n = m
  /\ \A q \in awaited[r] : Peered(grid, r, q, stage[r])
StageInv ==
  /\ grid \in StagedGrids
  /\ pc \in [Ranks -> StagePlaces] /\ stage \in [Ranks -> Nat]
  /\ todo \in [Ranks -> Seq(Ranks)] /\ awaited \in [Ranks -> SUBSET Ranks]
  /\ \A r \in Ranks : InStage(r)

\* What q tells r in stage i, and whether it has sent it and r has received it.
Told(g, q, r, i) ==
  {[source_id |-> b[2], dest_id |-> IdAt(g, <<q, b[1]>>), tag |-> Cardinality(Pred(Links(g, q, r, i), b))] :
     b \in Links(g, q, r, i)}
Unsent(q, r) == \E n \in 1 .. Len(todo[q]) : todo[q][n] = r
HasSent(q, r, i) == i < stage[q] \/ (i = stage[q] /\ pc[q] = "send" /\ ~Unsent(q, r))
HasGot(r, q, i) == i < stage[r] \/ (i = stage[r] /\ pc[r] = "send" /\ q \notin awaited[r])
UnderWay(q, r) == {i \in Stages : Peered(grid, q, r, i) /\ HasSent(q, r, i) /\ ~HasGot(r, q, i)}

\* A channel holds what is under way, in the order of the stages.
Carries(c, f, q, r) ==
  /\ f \in Seq(Stages) /\ c \in Seq({Told(grid, q, r, i) : i \in Stages}) /\ Len(c) = Len(f)
  /\ \A n \in 1 .. Len(f) : c[n] = Told(grid, q, r, f[n]) /\ f[n] \in UnderWay(q, r)
  /\ \A n, m \in 1 .. Len(f) : n < m => f[n] < f[m]
  /\ \A i \in UnderWay(q, r) : \E n \in 1 .. Len(f) : f[n] = i
Ordered(q, r) == \A i \in Stages : Peered(grid, q, r, i) /\ HasGot(r, q, i) => HasSent(q, r, i)
Heeded(q, r) ==
  pc[r] = "send" /\ Peered(grid, q, r, stage[r]) /\ q \notin awaited[r] =>
    received[r][q] = Told(grid, q, r, stage[r])
Way(q, r) == (\E f : Carries(chan[<<q, r>>], f, q, r)) /\ Ordered(q, r) /\ Heeded(q, r)
WayInv ==
  /\ DOMAIN chan = Ranks \X Ranks /\ DOMAIN received = Ranks
  /\ \A r \in Ranks : DOMAIN received[r] = Ranks
  /\ \A q, r \in Ranks : Way(q, r)
StagedInv == StageInv /\ BuiltInv /\ WayInv

LEMMA StageFacts ==
  ASSUME StageInv
  PROVE  /\ Ranks = RanksOf(grid) /\ domains = grid.domains /\ Stages = Axes(grid)
         /\ Len(grid.hgen.first) \in Nat \ {0} /\ Stages = 1 .. Len(grid.hgen.first)
<1>1. grid.hgen.first \in Seq(Int) /\ grid.hgen.first # << >>
  BY StagedGridsType DEF StageInv
<1> QED
  BY <1>1 DEF Ranks, domains, Stages, Axes

LEMMA HaloRank ==
  ASSUME NEW r \in Ranks, Shaped(r), NEW d, d = <<r, d[2]>>, d[2] \in DOMAIN domains[r], NEW i \in Stages,
         NEW side \in {"recv", "send"}, NEW e \in Adjacent(grid, d, i)
  PROVE  staged[r][d[2]][i][side][IdAt(grid, e)].rank = e[1]
<1>1. LikeGiven(r, d[2], i, side)
  BY DEF Shaped
<1>2. PICK h : h = Halo(r, d[2], i, side, e)
  OBVIOUS
<1>3. \E tag, spaces : h = [rank |-> e[1], tag |-> tag, spaces |-> spaces]
  BY <1>1, <1>2 DEF LikeGiven
<1>4. h.rank = e[1]
  BY <1>3
<1> QED
  BY <1>2, <1>4 DEF Halo

\* What the halos of a rank say of whom it exchanges with.
LEMMA WithLinks ==
  ASSUME StageInv, NEW r \in Ranks, Shaped(r), NEW i \in Stages, NEW side \in {"recv", "send"}, NEW q
  PROVE  With(r, q, i, side) = Links(grid, r, q, i)
<1>1. /\ DOMAIN staged[r] = DOMAIN grid.domains[r] /\ r \in RanksOf(grid) /\ grid \in StagedGrids /\ i \in Axes(grid)
  BY StageFacts DEF Shaped, StageInv
<1>2. ASSUME NEW d \in AllDomains(grid), d[1] = r
      PROVE  LET H == staged[r][d[2]][i][side]
             IN  /\ d[2] \in DOMAIN staged[r] /\ DOMAIN H = NamesOf(grid, Adjacent(grid, d, i))
                 /\ \A e \in Adjacent(grid, d, i) : H[IdAt(grid, e)].rank = e[1]
  <2>1. d = <<r, d[2]>> /\ d[2] \in DOMAIN domains[r]
    BY <1>1, <1>2, StageFacts, StagedNames
  <2>2. LikeGiven(r, d[2], i, side)
    BY <2>1 DEF Shaped
  <2>3. DOMAIN staged[r][d[2]][i][side] = DOMAIN Given(grid, d, i)[side]
    BY <2>1, <2>2 DEF LikeGiven
  <2>4. DOMAIN Given(grid, d, i)[side] = NamesOf(grid, Adjacent(grid, d, i))
    BY <1>1, GivenFacts
  <2>5. \A e \in Adjacent(grid, d, i) : staged[r][d[2]][i][side][IdAt(grid, e)].rank = e[1]
    BY <2>1, HaloRank
  <2> QED
    BY <2>1, <2>3, <2>4, <2>5, <1>1, StageFacts
<1>3. ASSUME NEW b \in With(r, q, i, side) PROVE b \in Links(grid, r, q, i)
  <2>1. PICK n \in DOMAIN staged[r] : \E id \in DOMAIN staged[r][n][i][side] :
          staged[r][n][i][side][id].rank = q /\ b = <<n, id>>
    BY <1>3 DEF With
  <2>2. PICK id \in DOMAIN staged[r][n][i][side] : staged[r][n][i][side][id].rank = q /\ b = <<n, id>>
    BY <2>1
  <2>0. PICK d : d = <<r, n>>
    OBVIOUS
  <2>3. d = <<r, n>> /\ d[1] = r /\ d[2] = n
    BY <2>0
  <2>4. d \in AllDomains(grid)
    BY <2>3, <1>1, StagedPlace
  <2>5. PICK e \in Adjacent(grid, d, i) : id = IdAt(grid, e) /\ e[1] = q
    BY <1>2, <2>2, <2>3, <2>4 DEF NamesOf
  <2>6. e \in AllDomains(grid) /\ b = Entry(grid, d, e)
    BY <1>1, <2>2, <2>3, <2>4, <2>5, StagedGridsType DEF Entry, Axes
  <2> QED
    BY <1>1, <2>3, <2>4, <2>5, <2>6, LinkFacts
<1>4. ASSUME NEW b \in Links(grid, r, q, i) PROVE b \in With(r, q, i, side)
  <2>1. PICK d \in AllDomains(grid), e \in AllDomains(grid) :
          e \in Adjacent(grid, d, i) /\ d[1] = r /\ e[1] = q /\ b = Entry(grid, d, e)
    BY <1>1, LinkFacts
  <2>2. PICK n, id : n = d[2] /\ id = IdAt(grid, e)
    OBVIOUS
  <2>3. n \in DOMAIN staged[r] /\ id \in DOMAIN staged[r][n][i][side] /\ staged[r][n][i][side][id].rank = q
    BY <1>2, <2>1, <2>2 DEF NamesOf
  <2>4. b = <<n, id>>
    BY <2>1, <2>2 DEF Entry
  <2> QED
    BY <2>3, <2>4 DEF With
<1> QED
  BY <1>3, <1>4

LEMMA PeersFacts ==
  ASSUME StageInv, NEW r \in Ranks, Shaped(r), NEW i \in Stages, NEW side \in {"recv", "send"}
  PROVE  PeersOf(r, i, side) = {q \in Ranks : Peered(grid, r, q, i)}
BY WithLinks DEF PeersOf, Peered

\* The number that a receive halo is counted by, and what its rank tells of it.
LEMMA TagFacts ==
  ASSUME StageInv, NEW r \in Ranks, Shaped(r), NEW i \in Stages
  PROVE  /\ \A n \in DOMAIN domains[r] : \A e \in Adjacent(grid, <<r, n>>, i) :
              StagedTag(r, n, IdAt(grid, e), i) = LinkTag(grid, <<r, n>>, e, i)
         /\ \A q : TagItems(r, q, i) = Told(grid, r, q, i)
<1>0. r \in RanksOf(grid) /\ domains = grid.domains /\ grid \in StagedGrids /\ i \in Axes(grid)
  BY StageFacts DEF StageInv
<1>1. ASSUME NEW d \in AllDomains(grid), NEW e \in Adjacent(grid, d, i), d[1] = r
      PROVE  StagedTag(r, d[2], IdAt(grid, e), i) = LinkTag(grid, d, e, i)
  <2>1. d = <<r, d[2]>> /\ d[2] \in DOMAIN domains[r]
    BY <1>0, <1>1, StagedNames
  <2>2. staged[r][d[2]][i]["recv"][IdAt(grid, e)].rank = e[1]
    BY <2>1, HaloRank
  <2>3. PICK L : L = Links(grid, r, e[1], i) /\ L = With(r, e[1], i, "recv")
    BY WithLinks
  <2>4. LinkTag(grid, d, e, i) = Cardinality({b \in L : b[1] < d[2] \/ (b[1] = d[2] /\ b[2] < IdAt(grid, e))})
    <3>0. PICK x : x = Entry(grid, d, e)
      OBVIOUS
    <3>1. x = Entry(grid, d, e) /\ x[1] = d[2] /\ x[2] = IdAt(grid, e)
      BY <3>0 DEF Entry
    <3>2. Pred(L, x) = {b \in L : b[1] < d[2] \/ (b[1] = d[2] /\ b[2] < IdAt(grid, e))}
      BY <3>1 DEF Pred, Before
    <3> QED
      BY <1>1, <2>3, <3>1, <3>2 DEF LinkTag
  <2>5. StagedTag(r, d[2], IdAt(grid, e), i) = Cardinality({b \in L : b[1] < d[2] \/ (b[1] = d[2] /\ b[2] < IdAt(grid, e))})
    BY <2>2, <2>3 DEF StagedTag
  <2> QED
    BY <2>4, <2>5
<1>2. ASSUME NEW q PROVE TagItems(r, q, i) = Told(grid, r, q, i)
  <2>1. PICK L : L = Links(grid, r, q, i) /\ L = With(r, q, i, "recv")
    BY WithLinks
  <2>2. ASSUME NEW b \in L
        PROVE  /\ IdOf(r, b[1]) = IdAt(grid, <<r, b[1]>>)
               /\ StagedTag(r, b[1], b[2], i) = Cardinality(Pred(L, b))
    <3>1. PICK d \in AllDomains(grid), e \in AllDomains(grid) :
            e \in Adjacent(grid, d, i) /\ d[1] = r /\ e[1] = q /\ b = Entry(grid, d, e)
      <4>1. b \in Links(grid, r, q, i)
        BY <2>1
      <4> QED
        BY <1>0, <4>1, LinkFacts
    <3>2. b[1] = d[2] /\ b[2] = IdAt(grid, e) /\ d = <<r, b[1]>>
      <4>0. d = <<d[1], d[2]>>
        BY <1>0, StagedNames
      <4>1. b = <<d[2], IdAt(grid, e)>>
        BY <3>1 DEF Entry
      <4>2. b[1] = d[2] /\ b[2] = IdAt(grid, e)
        BY <4>1
      <4> QED
        BY <4>0, <4>2, <3>1
    <3>3. StagedTag(r, b[1], b[2], i) = LinkTag(grid, d, e, i)
      BY <1>1, <3>1, <3>2
    <3>4. LinkTag(grid, d, e, i) = Cardinality(Pred(L, b))
      <4>1. LinkTag(grid, d, e, i) = Cardinality(Pred(Links(grid, d[1], e[1], i), Entry(grid, d, e)))
        BY DEF LinkTag
      <4> QED
        <5>1. Links(grid, d[1], e[1], i) = L
          BY <2>1, <3>1
        <5> QED
          BY <4>1, <5>1, <3>1
    <3>5. IdOf(r, b[1]) = IdAt(grid, <<r, b[1]>>)
      BY DEF IdOf, IdAt, DomainAt
    <3> QED
      BY <3>3, <3>4, <3>5
  <2>3. Told(grid, r, q, i) = {[source_id |-> b[2], dest_id |-> IdAt(grid, <<r, b[1]>>), tag |-> Cardinality(Pred(L, b))] : b \in L}
    BY <2>1 DEF Told
  <2>4. TagItems(r, q, i) = {[source_id |-> b[2], dest_id |-> IdOf(r, b[1]), tag |-> StagedTag(r, b[1], b[2], i)] : b \in L}
    BY <2>1 DEF TagItems
  <2> QED
    BY <2>2, <2>3, <2>4
<1>3. ASSUME NEW n \in DOMAIN domains[r], NEW e \in Adjacent(grid, <<r, n>>, i)
      PROVE  StagedTag(r, n, IdAt(grid, e), i) = LinkTag(grid, <<r, n>>, e, i)
  <2>0. PICK d : d = <<r, n>>
    OBVIOUS
  <2>1. d = <<r, n>> /\ d[1] = r /\ d[2] = n
    BY <2>0
  <2>2. d \in AllDomains(grid)
    BY <2>1, <1>0, StagedPlace
  <2> QED
    BY <1>1, <1>3, <2>1, <2>2
<1> QED
  BY <1>2, <1>3

\* What the new tags on one side in a stage do to the halos of r.
RetagsHalos(r, i, side, t) ==
  /\ \A n \in DOMAIN domains[r] : \A e \in Adjacent(grid, <<r, n>>, i) :
       Halo(r, n, i, side, e)'.tag = t[n][IdAt(grid, e)]
  /\ \A n \in DOMAIN domains[r], j \in Stages, s \in {"recv", "send"} : \A e \in Adjacent(grid, <<r, n>>, j) :
       j # i \/ s # side => Halo(r, n, j, s, e)' = Halo(r, n, j, s, e)

LEMMA RetagHalo ==
  ASSUME NEW h, NEW a, NEW t, NEW s, h = [rank |-> a, tag |-> t, spaces |-> s], NEW u
  PROVE  [h EXCEPT !.tag = u] = [rank |-> a, tag |-> u, spaces |-> s]
OBVIOUS

LEMMA Retag ==
  ASSUME StageInv, NEW r \in Ranks, Shaped(r), NEW i \in Stages, NEW side \in {"recv", "send"}, NEW t,
         grid' = grid, staged'[r] = Retagged(staged[r], i, side, t)
  PROVE  /\ Shaped(r)'
         /\ RetagsHalos(r, i, side, t)
<1>1. Ranks' = Ranks /\ domains' = domains /\ Stages' = Stages
  BY DEF Ranks, domains, Stages
<1>2. DOMAIN staged'[r] = DOMAIN domains[r] /\ DOMAIN staged[r] = DOMAIN domains[r]
  BY DEF Retagged, Shaped
<1>3. ASSUME NEW n \in DOMAIN domains[r]
      PROVE  /\ DOMAIN staged'[r][n] = Stages
             /\ \A j \in Stages :
                  /\ staged'[r][n][j] = [recv |-> staged'[r][n][j].recv, send |-> staged'[r][n][j].send]
                  /\ \A s \in {"recv", "send"} : j # i \/ s # side => staged'[r][n][j][s] = staged[r][n][j][s]
             /\ staged'[r][n][i][side] =
                  [id \in DOMAIN staged[r][n][i][side] |-> [staged[r][n][i][side][id] EXCEPT !.tag = t[n][id]]]
  <2>1. PICK b, x : b = staged[r][n][i] /\ x = [id \in DOMAIN b[side] |-> [b[side][id] EXCEPT !.tag = t[n][id]]]
    OBVIOUS
  <2>2. staged'[r][n] = [staged[r][n] EXCEPT ![i] = [b EXCEPT ![side] = x]]
    BY <1>2, <2>1 DEF Retagged
  <2>3. DOMAIN staged[r][n] = Stages /\ \A j \in Stages : staged[r][n][j] = [recv |-> staged[r][n][j].recv, send |-> staged[r][n][j].send]
    BY DEF Shaped
  <2>4. PICK y : y = [b EXCEPT ![side] = x]
    OBVIOUS
  <2>5. /\ y = [recv |-> y.recv, send |-> y.send] /\ y[side] = x
        /\ \A s \in {"recv", "send"} : s # side => y[s] = b[s]
    <3>1. PICK p, q : b = [recv |-> p, send |-> q]
      BY <2>1, <2>3
    <3>2. CASE side = "recv"
      BY <2>4, <3>1, <3>2
    <3>3. CASE side = "send"
      BY <2>4, <3>1, <3>3
    <3> QED
      BY <3>2, <3>3
  <2>6. DOMAIN staged'[r][n] = Stages /\ staged'[r][n][i] = y /\ \A j \in Stages : j # i => staged'[r][n][j] = staged[r][n][j]
    BY <2>2, <2>3, <2>4
  <2> QED
    BY <2>1, <2>3, <2>5, <2>6
<1>4. ASSUME NEW n \in DOMAIN domains[r], NEW e \in Adjacent(grid, <<r, n>>, i)
      PROVE  /\ IdAt(grid, e) \in DOMAIN staged[r][n][i][side]
             /\ staged'[r][n][i][side][IdAt(grid, e)] =
                  [rank |-> e[1], tag |-> t[n][IdAt(grid, e)],
                   spaces |-> Given(grid, <<r, n>>, i)[side][IdAt(grid, e)].spaces]
  <2>1. PICK d : d = <<r, n>>
    OBVIOUS
  <2>2. d \in AllDomains(grid) /\ grid \in StagedGrids /\ i \in Axes(grid)
    BY <2>1, StagedPlace, StageFacts DEF StageInv
  <2>3. DOMAIN Given(grid, d, i)[side] = NamesOf(grid, Adjacent(grid, d, i))
    BY <2>2, GivenFacts
  <2>4. LikeGiven(r, n, i, side)
    BY DEF Shaped
  <2>5. IdAt(grid, e) \in DOMAIN staged[r][n][i][side]
    BY <2>1, <2>3, <2>4 DEF LikeGiven, NamesOf
  <2>6. PICK h, sp : h = Halo(r, n, i, side, e) /\ sp = Given(grid, <<r, n>>, i)[side][IdAt(grid, e)].spaces
    OBVIOUS
  <2>7. h = [rank |-> e[1], tag |-> h.tag, spaces |-> sp]
    BY <2>4, <2>6 DEF LikeGiven
  <2>8. [h EXCEPT !.tag = t[n][IdAt(grid, e)]] = [rank |-> e[1], tag |-> t[n][IdAt(grid, e)], spaces |-> sp]
    BY <2>7, RetagHalo
  <2>9. h = staged[r][n][i][side][IdAt(grid, e)]
    BY <2>6 DEF Halo
  <2>10. staged'[r][n][i][side][IdAt(grid, e)] = [h EXCEPT !.tag = t[n][IdAt(grid, e)]]
    <3>1. PICK H : H = staged[r][n][i][side]
      OBVIOUS
    <3>2. staged'[r][n][i][side] = [id \in DOMAIN H |-> [H[id] EXCEPT !.tag = t[n][id]]]
      BY <1>3, <3>1
    <3>3. IdAt(grid, e) \in DOMAIN H /\ h = H[IdAt(grid, e)]
      BY <2>5, <2>9, <3>1
    <3> QED
      BY ONLY <3>2, <3>3
  <2> QED
    BY <2>5, <2>6, <2>8, <2>10
<1>5. ASSUME NEW n \in DOMAIN domains[r], NEW j \in Stages, NEW s \in {"recv", "send"}
      PROVE  LikeGiven(r, n, j, s)'
  <2>1. LikeGiven(r, n, j, s)
    BY DEF Shaped
  <2>2. CASE j # i \/ s # side
    <3>1. staged'[r][n][j][s] = staged[r][n][j][s]
      BY <2>2, <1>3
    <3> QED
      BY <2>1, <3>1 DEF LikeGiven, Halo
  <2>3. CASE j = i /\ s = side
    <3>1. DOMAIN staged'[r][n][j][s] = DOMAIN Given(grid, <<r, n>>, j)[s]
      BY <1>3, <2>1, <2>3 DEF LikeGiven
    <3>2. ASSUME NEW e \in Adjacent(grid, <<r, n>>, j)
          PROVE  staged'[r][n][j][s][IdAt(grid, e)] =
                   [rank |-> e[1], tag |-> staged'[r][n][j][s][IdAt(grid, e)].tag,
                    spaces |-> Given(grid, <<r, n>>, j)[s][IdAt(grid, e)].spaces]
      <4>1. PICK x, sp : x = staged'[r][n][i][side][IdAt(grid, e)] /\ sp = Given(grid, <<r, n>>, i)[side][IdAt(grid, e)].spaces
        OBVIOUS
      <4>2. x = [rank |-> e[1], tag |-> t[n][IdAt(grid, e)], spaces |-> sp]
        BY <1>4, <2>3, <3>2, <4>1
      <4>3. x = [rank |-> e[1], tag |-> x.tag, spaces |-> sp]
        BY <4>2
      <4> QED
        BY <2>3, <4>1, <4>3
    <3> QED
      BY <3>1, <3>2 DEF LikeGiven, Halo
  <2> QED
    BY <2>2, <2>3
<1>6. Shaped(r)'
  BY <1>1, <1>2, <1>3, <1>5 DEF Shaped
<1>7. ASSUME NEW n \in DOMAIN domains[r], NEW e \in Adjacent(grid, <<r, n>>, i)
      PROVE  Halo(r, n, i, side, e)'.tag = t[n][IdAt(grid, e)]
  <2>1. PICK x : x = staged'[r][n][i][side][IdAt(grid, e)]
    OBVIOUS
  <2>2. x.tag = t[n][IdAt(grid, e)]
    <3>1. \E sp : x = [rank |-> e[1], tag |-> t[n][IdAt(grid, e)], spaces |-> sp]
      BY <1>4, <2>1
    <3> QED
      BY <3>1
  <2>3. Halo(r, n, i, side, e)' = x
    BY <2>1 DEF Halo
  <2> QED
    BY <2>2, <2>3
<1>8. ASSUME NEW n \in DOMAIN domains[r], NEW j \in Stages, NEW e, NEW s \in {"recv", "send"}, j # i \/ s # side
      PROVE  Halo(r, n, j, s, e)' = Halo(r, n, j, s, e)
  BY <1>3, <1>8 DEF Halo
<1> QED
  BY <1>6, <1>7, <1>8 DEF RetagsHalos

----------------------------------------------------------------------------
(***************************************************************************)
(* It holds at first, and building halos keeps it.                         *)
(***************************************************************************)

LEMMA BuiltSame ==
  ASSUME NEW r \in Ranks, Shaped(r), Counts(r), grid' = grid, staged'[r] = staged[r], stage'[r] = stage[r],
         pc'[r] = "send" => pc[r] = "send"
  PROVE  Shaped(r)' /\ Counts(r)'
<1>1. Ranks' = Ranks /\ domains' = domains /\ Stages' = Stages
  BY DEF Ranks, domains, Stages
<1>2. \A n \in DOMAIN domains[r], i \in Stages : \A side, e : Halo(r, n, i, side, e)' = Halo(r, n, i, side, e)
  BY DEF Halo
<1>3. Shaped(r)'
  <2>1. \A n \in DOMAIN domains[r], i \in Stages : \A side \in {"recv", "send"} : LikeGiven(r, n, i, side) => LikeGiven(r, n, i, side)'
    BY <1>2 DEF LikeGiven
  <2> QED
    BY <1>1, <2>1 DEF Shaped
<1>4. \A i : Counted(r, i)' => Counted(r, i)
  BY DEF Counted
<1>5. Counts(r)'
  BY <1>1, <1>2, <1>4 DEF Counts
<1> QED
  BY <1>3, <1>5

\* Steps that change none of what is under way from q to r.
Same(q, r) ==
  \A i \in Stages : Peered(grid, q, r, i) =>
    (HasSent(q, r, i)' <=> HasSent(q, r, i)) /\ (HasGot(r, q, i)' <=> HasGot(r, q, i))

LEMMA CarriesSame ==
  ASSUME NEW q, NEW r, NEW c, NEW f, Carries(c, f, q, r), grid' = grid, UnderWay(q, r)' = UnderWay(q, r)
  PROVE  Carries(c, f, q, r)'
<1>1. Stages' = Stages
  BY DEF Stages
<1> QED
  BY <1>1 DEF Carries

LEMMA WaySame ==
  ASSUME NEW q \in Ranks, NEW r \in Ranks, Way(q, r), grid' = grid, chan'[<<q, r>>] = chan[<<q, r>>], Same(q, r), Heeded(q, r)'
  PROVE  Way(q, r)'
<1>1. Stages' = Stages
  BY DEF Stages
<1>2. UnderWay(q, r)' = UnderWay(q, r)
  <2>1. \A i : i \in UnderWay(q, r)' <=> i \in UnderWay(q, r)
    BY <1>1 DEF UnderWay, Same
  <2> QED
    BY <2>1
<1>3. PICK f : Carries(chan[<<q, r>>], f, q, r)
  BY DEF Way
<1>4. Carries(chan[<<q, r>>], f, q, r)'
  <2>1. PICK c : c = chan[<<q, r>>] /\ c = chan'[<<q, r>>]
    OBVIOUS
  <2>2. Carries(c, f, q, r)'
    BY <1>2, <1>3, <2>1, CarriesSame
  <2> QED
    BY <2>1, <2>2 DEF Carries
<1>5. Ordered(q, r)'
  BY <1>1 DEF Ordered, Way, Same
<1> QED
  BY <1>4, <1>5 DEF Way

\* A rank that stays where it is.
Still(r) == pc'[r] = pc[r] /\ stage'[r] = stage[r] /\ todo'[r] = todo[r] /\ awaited'[r] = awaited[r]
LEMMA StillKeeps ==
  ASSUME NEW q, NEW r, grid' = grid
  PROVE  /\ Still(q) => \A i : HasSent(q, r, i)' <=> HasSent(q, r, i)
         /\ Still(r) => \A i : HasGot(r, q, i)' <=> HasGot(r, q, i)
         /\ Still(r) /\ received'[r] = received[r] /\ Heeded(q, r) => Heeded(q, r)'
         /\ Still(r) /\ InStage(r) => InStage(r)'
<1>1. Still(q) => \A i : HasSent(q, r, i)' <=> HasSent(q, r, i)
  BY DEF Still, HasSent, Unsent
<1>2. Still(r) => \A i : HasGot(r, q, i)' <=> HasGot(r, q, i)
  BY DEF Still, HasGot
<1>3. Still(r) /\ received'[r] = received[r] /\ Heeded(q, r) => Heeded(q, r)'
  BY DEF Still, Heeded
<1>4. Still(r) /\ InStage(r) => InStage(r)'
  BY DEF Still, InStage, Stages
<1> QED
  BY <1>1, <1>2, <1>3, <1>4

LEMMA StagedInitial == StagedInit => StagedInv
<1> SUFFICES ASSUME StagedInit PROVE StagedInv
  OBVIOUS
<1>1. StageInv
  <2>1. grid \in StagedGrids /\ grid.hgen.first \in Seq(Int) /\ grid.hgen.first # << >>
    BY StagedGridsType DEF StagedInit
  <2>2. 1 \in Stages
    BY <2>1 DEF Stages
  <2>3. \A r \in Ranks : pc[r] = "halos" /\ stage[r] = 1 /\ todo[r] = << >> /\ awaited[r] = {}
    BY DEF StagedInit
  <2>4. pc \in [Ranks -> StagePlaces] /\ stage \in [Ranks -> Nat] /\ todo \in [Ranks -> Seq(Ranks)] /\ awaited \in [Ranks -> SUBSET Ranks]
    <3>1. << >> \in Seq(Ranks)
      OBVIOUS
    <3> QED
      BY <3>1 DEF StagedInit, StagePlaces
  <2>5. Len(<< >>) = 0
    OBVIOUS
  <2>6. \A r \in Ranks : InStage(r)
    BY <2>2, <2>3, <2>5 DEF InStage
  <2> QED
    BY <2>1, <2>4, <2>6 DEF StageInv
<1>2. BuiltInv
  BY DEF StagedInit, BuiltInv
<1>3. WayInv
  <2>1. ASSUME NEW q \in Ranks, NEW r \in Ranks PROVE Way(q, r)
    <3>1. \A i \in Stages : ~HasSent(q, r, i) /\ ~HasGot(r, q, i)
      BY StageFacts, <1>1 DEF HasSent, HasGot, StagedInit
    <3>2. UnderWay(q, r) = {}
      BY <3>1 DEF UnderWay
    <3>3. Carries(<< >>, << >>, q, r)
      <4>1. << >> \in Seq(Stages) /\ << >> \in Seq({Told(grid, q, r, i) : i \in Stages}) /\ Len(<< >>) = 0
        OBVIOUS
      <4> QED
        BY <3>2, <4>1 DEF Carries
    <3>4. chan[<<q, r>>] = << >>
      BY DEF StagedInit
    <3>5. Ordered(q, r) /\ Heeded(q, r)
      BY <3>1 DEF Ordered, Heeded, StagedInit
    <3> QED
      BY <3>3, <3>4, <3>5 DEF Way
  <2>2. DOMAIN chan = Ranks \X Ranks /\ DOMAIN received = Ranks /\ \A r \in Ranks : DOMAIN received[r] = Ranks
    BY DEF StagedInit
  <2> QED
    BY <2>1, <2>2 DEF WayInv
<1> QED
  BY <1>1, <1>2, <1>3 DEF StagedInv

LEMMA BuildHalosKeeps ==
  ASSUME StagedInv, NEW r \in Ranks, BuildHalos(r) PROVE StagedInv'
<1>0. StageInv /\ BuiltInv /\ WayInv
  BY DEF StagedInv
<1>1. Ranks' = Ranks /\ domains' = domains /\ Stages' = Stages /\ grid' = grid
  BY DEF BuildHalos, Ranks, domains, Stages
<1>2. /\ \A q \in Ranks : pc'[q] = IF q = r THEN "tags" ELSE pc[q]
      /\ \A q \in Ranks : staged'[q] = IF q = r THEN Built[grid][r] ELSE staged[q]
      /\ pc[r] = "halos" /\ UNCHANGED <<stage, todo, awaited, received, chan>> /\ DOMAIN staged' = Ranks
  BY <1>0 DEF BuildHalos, StageInv, BuiltInv
<1>3. StageInv'
  <2>1. pc' \in [Ranks -> StagePlaces]
    BY <1>0 DEF BuildHalos, StageInv, StagePlaces
  <2>2. ASSUME NEW q \in Ranks PROVE InStage(q)'
    <3>1. InStage(q)
      BY <1>0 DEF StageInv
    <3>2. CASE q = r
      BY <3>1, <3>2, <1>1, <1>2 DEF InStage
    <3>3. CASE q # r
      BY <3>1, <3>3, <1>1, <1>2, StillKeeps DEF Still
    <3> QED
      BY <3>2, <3>3
  <2> QED
    BY <2>1, <2>2, <1>0, <1>1, <1>2 DEF StageInv
<1>4. Shaped(r)'
  <2>1. staged'[r] = Built[grid][r] /\ r \in RanksOf(grid) /\ grid \in StagedGrids /\ domains = grid.domains /\ Stages = Axes(grid)
    BY <1>0, <1>2, StageFacts DEF StageInv
  <2>2. DOMAIN Built[grid][r] = DOMAIN grid.domains[r]
    BY <2>1 DEF Built
  <2>3. ASSUME NEW n \in DOMAIN grid.domains[r]
        PROVE  /\ DOMAIN Built[grid][r][n] = Axes(grid)
               /\ \A i \in Axes(grid) : Built[grid][r][n][i] = [recv |-> Built[grid][r][n][i].recv, send |-> Built[grid][r][n][i].send]
    BY <2>1 DEF Built, Axes
  <2>4. ASSUME NEW n \in DOMAIN grid.domains[r], NEW i \in Axes(grid), NEW side \in {"recv", "send"}
        PROVE  LikeGiven(r, n, i, side)'
    <3>1. PICK d : d = <<r, n>>
      OBVIOUS
    <3>2. d \in AllDomains(grid) /\ Given(grid, d, i) = Built[grid][r][n][i]
      BY <2>1, <3>1, StagedPlace DEF Given
    <3>3. PICK G : G = Given(grid, d, i)[side]
      OBVIOUS
    <3>4. staged'[r][n][i][side] = G
      BY <2>1, <3>2, <3>3
    <3>5. ASSUME NEW e \in Adjacent(grid, d, i)
          PROVE  G[IdAt(grid, e)] = [rank |-> e[1], tag |-> G[IdAt(grid, e)].tag, spaces |-> G[IdAt(grid, e)].spaces]
      <4>1. PICK h : h = G[IdAt(grid, e)]
        OBVIOUS
      <4>2. h = [rank |-> e[1], tag |-> 0, spaces |-> h.spaces]
        BY <2>1, <3>2, <3>3, <3>5, <4>1, GivenFacts
      <4>3. h = [rank |-> e[1], tag |-> h.tag, spaces |-> h.spaces]
        BY <4>2
      <4> QED
        BY <4>1, <4>3
    <3> QED
      BY <1>1, <3>1, <3>3, <3>4, <3>5 DEF LikeGiven, Halo
  <2> QED
    BY <1>1, <2>1, <2>2, <2>3, <2>4 DEF Shaped
<1>5. Counts(r)'
  <2>1. \A i \in Stages : ~(i < stage'[r]) /\ ~Counted(r, i)'
    BY <1>0, <1>2, StageFacts DEF StageInv, InStage, Counted
  <2> QED
    BY <1>1, <2>1 DEF Counts
<1>6. BuiltInv'
  <2>1. ASSUME NEW q \in Ranks, q # r, pc[q] # "halos" PROVE Shaped(q)' /\ Counts(q)'
    BY <2>1, <1>0, <1>1, <1>2, BuiltSame DEF BuiltInv
  <2> QED
    BY <1>1, <1>2, <1>4, <1>5, <2>1 DEF BuiltInv
<1>7. WayInv'
  <2>1. ASSUME NEW q \in Ranks, NEW p \in Ranks PROVE Way(q, p)'
    <3>1. Way(q, p)
      BY <1>0 DEF WayInv
    <3>2. Same(q, p)
      BY <1>2 DEF Same, HasSent, HasGot, Unsent
    <3>3. Heeded(q, p)'
      BY <3>1, <1>1, <1>2 DEF Way, Heeded
    <3> QED
      BY <3>1, <3>2, <3>3, <1>1, <1>2, WaySame
  <2> QED
    BY <2>1, <1>0, <1>1, <1>2 DEF WayInv
<1> QED
  BY <1>3, <1>6, <1>7 DEF StagedInv

----------------------------------------------------------------------------
(***************************************************************************)
(* Numbering, and posting receives.                                        *)
(***************************************************************************)

Enumerates(s, P) ==
  /\ s \in Seq(Ranks) /\ \A n \in 1 .. Len(s) : s[n] \in P
  /\ \A n, m \in 1 .. Len(s) : s[n] = s[m] => n = m
  /\ \A q \in P : \E n \in 1 .. Len(s) : s[n] = q

\* The destinations of a rank, in ascending order, are those it receives from.
LEMMA TodoFacts ==
  ASSUME StageInv, NEW r \in Ranks, NEW i \in Stages, NEW P, P = {q \in Ranks : Peered(grid, r, q, i)}, NEW s, s = Ascending(P)
  PROVE  Enumerates(s, P)
<1>1. IsFiniteSet(Ranks) /\ Ranks = 0 .. Cardinality(Ranks) - 1
  BY StagedGridsType DEF StageInv, Ranks
<1>2. Cardinality(Ranks) \in Nat
  BY <1>1, FS_CardinalityType
<1>3. P \in SUBSET Int /\ IsFiniteSet(P) /\ P \subseteq Ranks
  <2>1. P \subseteq Ranks
    OBVIOUS
  <2>2. \A x \in Ranks : x \in Int
    BY <1>1, <1>2
  <2> QED
    BY <1>1, <2>1, <2>2, FS_Subset
<1>4. PICK N : N = Cardinality(P)
  OBVIOUS
<1>5. N \in Nat /\ DOMAIN s = 1 .. N
  BY <1>3, <1>4, AscendingFacts
<1>6. /\ \A n \in 1 .. N : s[n] \in P
      /\ \A n, m \in 1 .. N : s[n] = s[m] => n = m
      /\ \A x \in P : \E n \in 1 .. N : s[n] = x
  BY <1>3, <1>4, AscendingFacts
<1>7. \E f : s = [n \in 1 .. N |-> f[n]]
  <2>1. s = [n \in 1 .. Cardinality(P) |-> CHOOSE x \in P : Cardinality({y \in P : y < x}) = n - 1]
    BY DEF Ascending
  <2>2. s = [n \in 1 .. N |-> s[n]]
    BY <2>1, <1>4
  <2> QED
    BY <2>2
<1>8. s \in Seq(Ranks) /\ Len(s) = N
  <2>1. s \in [1 .. N -> Ranks]
    BY <1>3, <1>6, <1>7
  <2> QED
    BY <1>5, <2>1
<1> QED
  BY <1>6, <1>8 DEF Enumerates

LEMMA PostReceivesBuilt ==
  ASSUME StagedInv, NEW r \in Ranks, PostReceives(r)
  PROVE  /\ BuiltInv' /\ awaited'[r] = {q \in Ranks : Peered(grid, r, q, stage[r])}
         /\ todo'[r] = Ascending({q \in Ranks : Peered(grid, r, q, stage[r])})
<1>0. StageInv /\ BuiltInv /\ WayInv
  BY DEF StagedInv
<1>1. Ranks' = Ranks /\ domains' = domains /\ Stages' = Stages /\ grid' = grid
  BY DEF PostReceives, Ranks, domains, Stages
<1>2. PICK i : i = stage[r]
  OBVIOUS
<1>3. pc[r] = "tags" /\ i \in Stages /\ Shaped(r) /\ Counts(r)
  BY <1>0, <1>2 DEF PostReceives, StageInv, InStage, BuiltInv
<1>4. PICK t : t = [n \in DOMAIN staged[r] |-> [id \in DOMAIN staged[r][n][i].recv |-> StagedTag(r, n, id, i)]]
  OBVIOUS
<1>5. DOMAIN staged' = Ranks /\ \A q \in Ranks \ {r} : staged'[q] = staged[q]
  BY <1>0 DEF PostReceives, BuiltInv
<1>6. staged'[r] = Retagged(staged[r], i, "recv", t)
  <2>1. staged' = [staged EXCEPT ![r] = Retagged(staged[r], i, "recv", t)]
    BY <1>2, <1>4 DEF PostReceives
  <2>2. DOMAIN staged = Ranks
    BY <1>0 DEF BuiltInv
  <2> QED
    BY <2>1, <2>2
<1>7. Shaped(r)' /\ RetagsHalos(r, i, "recv", t)
  BY <1>0, <1>1, <1>3, <1>6, Retag
<1>8. ASSUME NEW n \in DOMAIN domains[r], NEW e \in Adjacent(grid, <<r, n>>, i)
      PROVE  t[n][IdAt(grid, e)] = LinkTag(grid, <<r, n>>, e, i)
  <2>1. PICK d : d = <<r, n>>
    OBVIOUS
  <2>2. d \in AllDomains(grid) /\ grid \in StagedGrids /\ i \in Axes(grid)
    BY <1>0, <1>3, <2>1, StagedPlace, StageFacts DEF StageInv
  <2>3. IdAt(grid, e) \in DOMAIN Given(grid, d, i)["recv"]
    BY <2>1, <2>2, GivenFacts DEF NamesOf
  <2>4. LikeGiven(r, n, i, "recv") /\ n \in DOMAIN staged[r]
    BY <1>3 DEF Shaped
  <2>5. IdAt(grid, e) \in DOMAIN staged[r][n][i]["recv"]
    BY <2>1, <2>3, <2>4 DEF LikeGiven
  <2>6. t[n][IdAt(grid, e)] = StagedTag(r, n, IdAt(grid, e), i)
    BY <1>4, <2>4, <2>5
  <2> QED
    BY <1>0, <1>3, <2>6, TagFacts
<1>9. Counts(r)'
  <2>1. stage'[r] = i /\ pc'[r] = "send" /\ \A j \in Stages : (Counted(r, j)' => j = i \/ Counted(r, j)) /\ (j < stage'[r] <=> j < stage[r])
    BY <1>0, <1>2, <1>3, StageFacts DEF PostReceives, Counted, StageInv
  <2>2. ASSUME NEW n \in DOMAIN domains[r], NEW j \in Stages, NEW e \in Adjacent(grid, <<r, n>>, j)
        PROVE  /\ Counted(r, j)' => Halo(r, n, j, "recv", e)'.tag = LinkTag(grid, <<r, n>>, e, j)
               /\ j < stage'[r] => Halo(r, n, j, "send", e)'.tag = LinkTag(grid, e, <<r, n>>, j)
    <3>1. CASE j = i
      BY <3>1, <1>2, <1>3, <1>7, <1>8, <2>1, StageFacts, <1>0 DEF Counts, RetagsHalos
    <3>2. CASE j # i
      <4>1. Halo(r, n, j, "recv", e)' = Halo(r, n, j, "recv", e) /\ Halo(r, n, j, "send", e)' = Halo(r, n, j, "send", e)
        BY <3>2, <1>7 DEF RetagsHalos
      <4> QED
        BY <3>2, <4>1, <1>3, <2>1 DEF Counts
    <3> QED
      BY <3>1, <3>2
  <2> QED
    BY <1>1, <2>2 DEF Counts
<1>10. ASSUME NEW q \in Ranks, q # r, pc[q] # "halos" PROVE Shaped(q)' /\ Counts(q)'
  <2>1. staged'[q] = staged[q] /\ stage'[q] = stage[q] /\ pc'[q] = pc[q]
    BY <1>0, <1>5, <1>10 DEF PostReceives, StageInv
  <2> QED
    BY <2>1, <1>0, <1>1, <1>10, BuiltSame DEF BuiltInv
<1>11. \A q \in Ranks \ {r} : pc'[q] = pc[q]
  BY <1>0 DEF PostReceives, StageInv
<1>12. BuiltInv'
  BY <1>1, <1>5, <1>7, <1>9, <1>10, <1>11 DEF BuiltInv
<1>13. /\ PeersOf(r, i, "send") = {q \in Ranks : Peered(grid, r, q, i)}
       /\ PeersOf(r, i, "recv") = {q \in Ranks : Peered(grid, r, q, i)}
  BY <1>0, <1>3, PeersFacts
<1>14. awaited'[r] = PeersOf(r, i, "send") /\ todo'[r] = Ascending(PeersOf(r, i, "recv"))
  BY <1>0, <1>2 DEF PostReceives, StageInv
<1> QED
  BY <1>2, <1>12, <1>13, <1>14

LEMMA PostReceivesKeeps ==
  ASSUME StagedInv, NEW r \in Ranks, PostReceives(r) PROVE StagedInv'
<1>0. StageInv /\ BuiltInv /\ WayInv
  BY DEF StagedInv
<1>1. Ranks' = Ranks /\ domains' = domains /\ Stages' = Stages /\ grid' = grid
  BY DEF PostReceives, Ranks, domains, Stages
<1>2. PICK i, P : i = stage[r] /\ P = {q \in Ranks : Peered(grid, r, q, i)}
  OBVIOUS
<1>3. BuiltInv' /\ awaited'[r] = P /\ todo'[r] = Ascending(P)
  BY <1>2, PostReceivesBuilt
<1>4. pc[r] = "tags" /\ i \in Stages /\ InStage(r)
  BY <1>0, <1>2 DEF PostReceives, StageInv, InStage
<1>5. /\ todo'[r] \in Seq(Ranks) /\ \A n \in 1 .. Len(todo'[r]) : todo'[r][n] \in P
      /\ \A n, m \in 1 .. Len(todo'[r]) : todo'[r][n] = todo'[r][m] => n = m
      /\ \A q \in P : \E n \in 1 .. Len(todo'[r]) : todo'[r][n] = q
  <2>1. PICK s : s = Ascending(P) /\ s = todo'[r]
    BY <1>3
  <2>2. Enumerates(s, P)
    BY <1>0, <1>2, <1>4, <2>1, TodoFacts
  <2> QED
    BY <2>1, <2>2 DEF Enumerates
<1>6. /\ pc'[r] = "send" /\ UNCHANGED <<stage, received, chan>>
      /\ \A q \in Ranks \ {r} : pc'[q] = pc[q] /\ todo'[q] = todo[q] /\ awaited'[q] = awaited[q]
  BY <1>0 DEF PostReceives, StageInv
<1>7. StageInv'
  <2>1. pc' \in [Ranks -> StagePlaces]
    BY <1>0 DEF PostReceives, StageInv, StagePlaces
  <2>2. todo' \in [Ranks -> Seq(Ranks)]
    BY <1>0, <1>5 DEF PostReceives, StageInv
  <2>3. awaited' \in [Ranks -> SUBSET Ranks]
    <3>1. P \in SUBSET Ranks
      BY <1>2
    <3> QED
      BY <1>0, <1>3, <3>1 DEF PostReceives, StageInv
  <2>4. InStage(r)'
    BY <1>1, <1>2, <1>3, <1>4, <1>5, <1>6 DEF InStage
  <2>5. ASSUME NEW q \in Ranks, q # r PROVE InStage(q)'
    BY <2>5, <1>0, <1>1, <1>6, StillKeeps DEF Still, StageInv
  <2> QED
    BY <2>1, <2>2, <2>3, <2>4, <2>5, <1>0, <1>1, <1>6 DEF StageInv
<1>8. ASSUME NEW q \in Ranks, NEW p \in Ranks PROVE Way(q, p)'
  <2>1. Way(q, p) /\ Ordered(q, p) /\ Heeded(q, p)
    BY <1>0 DEF WayInv, Way
  <2>2. q # r => \A j : HasSent(q, p, j)' <=> HasSent(q, p, j)
    BY <1>1, <1>6, StillKeeps DEF Still
  <2>3. p # r => (\A j : HasGot(p, q, j)' <=> HasGot(p, q, j)) /\ Heeded(q, p)'
    BY <1>1, <1>6, <2>1, StillKeeps DEF Still
  <2>4. q = r => \A j \in Stages : Peered(grid, q, p, j) => (HasSent(q, p, j)' <=> HasSent(q, p, j))
    <3>1. ASSUME q = r, NEW j \in Stages, Peered(grid, q, p, j) PROVE HasSent(q, p, j)' <=> HasSent(q, p, j)
      <4>1. j = i => Unsent(q, p)'
        BY <3>1, <1>2, <1>5 DEF Unsent
      <4> QED
        BY <3>1, <4>1, <1>2, <1>4, <1>6 DEF HasSent
    <3> QED
      BY <3>1
  <2>5. p = r => /\ \A j \in Stages : Peered(grid, q, p, j) => (HasGot(p, q, j)' <=> HasGot(p, q, j))
                 /\ Heeded(q, p)'
    <3>1. ASSUME p = r, NEW j \in Stages, Peered(grid, q, p, j) PROVE (j = i => q \in awaited'[r])
      <4>1. Peered(grid, p, q, j)
        BY <3>1, <1>0, StageFacts, PeeredBoth DEF StageInv
      <4> QED
        BY <3>1, <4>1, <1>2, <1>3
    <3>2. ASSUME p = r, NEW j \in Stages, Peered(grid, q, p, j) PROVE HasGot(p, q, j)' <=> HasGot(p, q, j)
      BY <3>1, <3>2, <1>2, <1>4, <1>6 DEF HasGot
    <3>3. ASSUME p = r PROVE Heeded(q, p)'
      BY <3>1, <3>3, <1>1, <1>2, <1>4, <1>6 DEF Heeded
    <3> QED
      BY <3>2, <3>3
  <2>6. Same(q, p) /\ Heeded(q, p)'
    BY <2>2, <2>3, <2>4, <2>5 DEF Same
  <2> QED
    BY <2>1, <2>6, <1>1, <1>6, WaySame
<1>9. WayInv'
  BY <1>0, <1>1, <1>6, <1>8 DEF WayInv
<1> QED
  BY <1>3, <1>7, <1>9 DEF StagedInv

----------------------------------------------------------------------------
(***************************************************************************)
(* Sending.                                                                *)
(***************************************************************************)

\* A message more, of a later stage, and one less.
LEMMA CarriesMore ==
  ASSUME NEW q, NEW r, NEW c, NEW f, Carries(c, f, q, r), grid' = grid, NEW i \in Stages, NEW U, U = UnderWay(q, r),
         UnderWay(q, r)' = U \cup {i}, \A j \in U : j < i
  PROVE  Carries(Append(c, Told(grid, q, r, i)), Append(f, i), q, r)'
<1>0. Stages' = Stages
  BY DEF Stages
<1>1. PICK T : T = {Told(grid, q, r, j) : j \in Stages}
  OBVIOUS
<1>2. c \in Seq(T) /\ f \in Seq(Stages) /\ Len(c) = Len(f)
  BY <1>1 DEF Carries
<1>3. PICK x : x = Told(grid, q, r, i)
  OBVIOUS
<1>4. PICK a, b : a = Append(c, x) /\ b = Append(f, i)
  OBVIOUS
<1>5. x \in T
  BY <1>1, <1>3
<1>6. a \in Seq(T) /\ Len(a) = Len(c) + 1 /\ a[Len(c) + 1] = x /\ \A j \in 1 .. Len(c) : a[j] = c[j]
  BY <1>2, <1>4, <1>5, AppendFacts
<1>7. b \in Seq(Stages) /\ Len(f) \in Nat /\ Len(b) = Len(f) + 1 /\ b[Len(f) + 1] = i /\ \A j \in 1 .. Len(f) : b[j] = f[j]
  BY <1>2, <1>4, AppendFacts
<1>8. /\ \A n \in 1 .. Len(f) : c[n] = Told(grid, q, r, f[n]) /\ f[n] \in U
      /\ \A n, m \in 1 .. Len(f) : n < m => f[n] < f[m]
      /\ \A j \in U : \E n \in 1 .. Len(f) : f[n] = j
  BY DEF Carries
<1>9. \A n \in 1 .. Len(b) : n = Len(f) + 1 \/ n \in 1 .. Len(f)
  BY <1>7
<1>10. ASSUME NEW n \in 1 .. Len(b) PROVE a[n] = Told(grid, q, r, b[n]) /\ b[n] \in U \cup {i}
  <2>1. CASE n = Len(f) + 1
    BY <2>1, <1>2, <1>3, <1>6, <1>7
  <2>2. CASE n \in 1 .. Len(f)
    BY <2>2, <1>2, <1>6, <1>7, <1>8
  <2> QED
    BY <1>9, <2>1, <2>2
<1>11. ASSUME NEW n \in 1 .. Len(b), NEW m \in 1 .. Len(b), n < m PROVE b[n] < b[m]
  <2>1. n \in 1 .. Len(f)
    BY <1>7, <1>11
  <2>2. CASE m = Len(f) + 1
    BY <2>1, <2>2, <1>7, <1>8
  <2>3. CASE m \in 1 .. Len(f)
    BY <2>1, <2>3, <1>7, <1>8, <1>11
  <2> QED
    BY <1>9, <2>2, <2>3
<1>12. ASSUME NEW j \in U \cup {i} PROVE \E n \in 1 .. Len(b) : b[n] = j
  <2>1. CASE j = i
    <3>1. Len(f) + 1 \in 1 .. Len(b)
      BY <1>7
    <3> QED
      BY <2>1, <3>1, <1>7
  <2>2. CASE j \in U
    <3>1. PICK n \in 1 .. Len(f) : f[n] = j
      BY <2>2, <1>8
    <3>2. n \in 1 .. Len(b) /\ b[n] = j
      BY <3>1, <1>7
    <3> QED
      BY <3>2
  <2> QED
    BY <2>1, <2>2
<1>13. Carries(a, b, q, r)'
  BY <1>0, <1>1, <1>2, <1>6, <1>7, <1>10, <1>11, <1>12 DEF Carries
<1>14. Append(c, Told(grid, q, r, i))' = a /\ Append(f, i)' = b
  BY <1>3, <1>4 DEF Told
<1> QED
  BY <1>3, <1>4, <1>13 DEF Carries

LEMMA CarriesLess ==
  ASSUME NEW q, NEW r, NEW c, NEW f, Carries(c, f, q, r), grid' = grid, c # << >>, NEW U, U = UnderWay(q, r),
         UnderWay(q, r)' = U \ {f[1]}
  PROVE  Carries(Tail(c), Tail(f), q, r)' /\ f[1] \in U /\ c[1] = Told(grid, q, r, f[1]) /\ \A j \in U : f[1] <= j
<1>0. Stages' = Stages
  BY DEF Stages
<1>1. PICK T : T = {Told(grid, q, r, j) : j \in Stages}
  OBVIOUS
<1>2. c \in Seq(T) /\ f \in Seq(Stages) /\ Len(c) = Len(f) /\ f # << >>
  BY <1>1 DEF Carries
<1>4. PICK a, b : a = Tail(c) /\ b = Tail(f)
  OBVIOUS
<1>6. a \in Seq(T) /\ Len(a) \in Nat /\ Len(c) = Len(a) + 1 /\ \A j \in 1 .. Len(a) : a[j] = c[j + 1]
  BY <1>2, <1>4, TailFacts
<1>7. b \in Seq(Stages) /\ Len(b) \in Nat /\ Len(f) = Len(b) + 1 /\ \A j \in 1 .. Len(b) : b[j] = f[j + 1]
  BY <1>2, <1>4, TailFacts
<1>3. Len(a) = Len(b)
  <2>1. PICK k, l : k = Len(a) /\ l = Len(b)
    OBVIOUS
  <2>2. k \in Nat /\ l \in Nat
    BY <2>1, <1>6, <1>7
  <2>3. k + 1 = l + 1
    BY ONLY <2>1, <1>2, <1>6, <1>7, Zenon
  <2>4. k = l
    BY ONLY <2>2, <2>3
  <2> QED
    BY <2>1, <2>4
<1>8. /\ \A n \in 1 .. Len(f) : c[n] = Told(grid, q, r, f[n]) /\ f[n] \in U
      /\ \A n, m \in 1 .. Len(f) : n < m => f[n] < f[m]
      /\ \A j \in U : \E n \in 1 .. Len(f) : f[n] = j
  BY DEF Carries
<1>9. 1 \in 1 .. Len(f) /\ \A n \in 1 .. Len(b) : n + 1 \in 1 .. Len(f) /\ 1 < n + 1
  BY <1>7
<1>5. \A n \in 1 .. Len(f) : f[n] \in Int
  BY <1>2 DEF Stages
<1>10. ASSUME NEW n \in 1 .. Len(b) PROVE a[n] = Told(grid, q, r, b[n]) /\ b[n] \in U \ {f[1]}
  <2>1. f[1] < f[n + 1]
    BY <1>8, <1>9
  <2>2. PICK k : k = n + 1
    OBVIOUS
  <2>3. a[n] = c[k] /\ b[n] = f[k] /\ k \in 1 .. Len(f)
    <3>1. n \in 1 .. Len(a)
      BY <1>3
    <3> QED
      BY <3>1, <2>2, <1>6, <1>7
  <2>4. f[1] \in Int /\ f[k] \in Int /\ f[1] < f[k]
    BY <2>1, <2>2, <2>3, <1>5, <1>9
  <2>5. f[1] # f[k]
    BY <2>4
  <2> QED
    BY <2>3, <2>5, <1>8
<1>11. ASSUME NEW n \in 1 .. Len(b), NEW m \in 1 .. Len(b), n < m PROVE b[n] < b[m]
  <2>1. PICK k, l : k = n + 1 /\ l = m + 1
    OBVIOUS
  <2>2. k \in 1 .. Len(f) /\ l \in 1 .. Len(f) /\ k < l /\ b[n] = f[k] /\ b[m] = f[l]
    BY <2>1, <1>7, <1>11
  <2> QED
    BY <2>2, <1>8
<1>12. ASSUME NEW j \in U \ {f[1]} PROVE \E n \in 1 .. Len(b) : b[n] = j
  <2>1. PICK n \in 1 .. Len(f) : f[n] = j
    BY <1>8, <1>12
  <2>2. n # 1
    BY <2>1, <1>12
  <2>3. n - 1 \in 1 .. Len(b) /\ (n - 1) + 1 = n
    BY <2>2, <1>7
  <2> QED
    BY <2>1, <2>3, <1>7
<1>13. Carries(a, b, q, r)'
  <2>1. PICK V : V = U \ {f[1]} /\ V = UnderWay(q, r)'
    OBVIOUS
  <2>2. Len(a) = Len(b)
    BY <1>3
  <2>3. (\A n \in 1 .. Len(b) : a[n] = Told(grid, q, r, b[n]) /\ b[n] \in V) /\ \A j \in V : \E n \in 1 .. Len(b) : b[n] = j
    BY <2>1, <1>10, <1>12
  <2>4. \A n, m \in 1 .. Len(b) : n < m => b[n] < b[m]
    BY <1>11
  <2>5. a \in Seq({Told(grid, q, r, j) : j \in Stages}) /\ b \in Seq(Stages)
    BY <1>1, <1>6, <1>7
  <2>6. Told(grid, q, r, 1)' = Told(grid, q, r, 1) /\ \A j : Told(grid, q, r, j)' = Told(grid, q, r, j)
    BY DEF Told
  <2> QED
    BY <2>1, <2>2, <2>3, <2>4, <2>5, <2>6, <1>0 DEF Carries
<1>14. \A j \in U : f[1] <= j
  <2>1. ASSUME NEW j \in U PROVE f[1] <= j
    <3>1. PICK n \in 1 .. Len(f) : f[n] = j
      BY <1>8
    <3>2. n = 1 \/ 1 < n
      OBVIOUS
    <3> QED
      BY <3>1, <3>2, <1>5, <1>8, <1>9
  <2> QED
    BY <2>1
<1> QED
  BY <1>4, <1>8, <1>9, <1>13, <1>14 DEF Carries

LEMMA SendTagsKeeps ==
  ASSUME StagedInv, NEW r \in Ranks, SendTags(r) PROVE StagedInv'
<1>0. StageInv /\ BuiltInv /\ WayInv
  BY DEF StagedInv
<1>1. Ranks' = Ranks /\ domains' = domains /\ Stages' = Stages /\ grid' = grid
  BY DEF SendTags, Ranks, domains, Stages
<1>2. PICK i, s, h : i = stage[r] /\ s = todo[r] /\ h = Head(s)
  OBVIOUS
<1>3. /\ pc[r] = "send" /\ i \in Stages /\ InStage(r) /\ Shaped(r) /\ Counts(r)
      /\ s \in Seq(Ranks) /\ s # << >>
  BY <1>0, <1>2 DEF SendTags, StageInv, InStage, BuiltInv
<1>4. PICK a : a = Tail(s)
  OBVIOUS
<1>5. a \in Seq(Ranks) /\ Len(a) \in Nat /\ Len(s) = Len(a) + 1 /\ \A n \in 1 .. Len(a) : a[n] = s[n + 1]
  BY <1>3, <1>4, TailFacts
<1>6. /\ UNCHANGED <<pc, stage, staged, awaited, received>> /\ todo'[r] = a
      /\ \A q \in Ranks \ {r} : todo'[q] = todo[q]
      /\ todo' = [todo EXCEPT ![r] = a]
  BY <1>0, <1>2, <1>4 DEF SendTags, StageInv
<1>7. h = s[1] /\ h \in Ranks /\ Peered(grid, r, h, i)
  <2>1. h = s[1] /\ 1 \in 1 .. Len(s)
    BY <1>2, <1>3, <1>5
  <2> QED
    BY <2>1, <1>2, <1>3 DEF InStage
<1>8. /\ \A q : Unsent(r, q)' => Unsent(r, q)
      /\ \A q : q # h /\ Unsent(r, q) => Unsent(r, q)'
      /\ Unsent(r, h) /\ ~Unsent(r, h)'
  <2>1. ASSUME NEW q PROVE Unsent(r, q)' <=> \E n \in 1 .. Len(a) : s[n + 1] = q
    BY <1>5, <1>6 DEF Unsent
  <2>2. ASSUME NEW q PROVE Unsent(r, q) <=> \E n \in 1 .. Len(s) : s[n] = q
    BY <1>2 DEF Unsent
  <2>3. \A n \in 1 .. Len(a) : n + 1 \in 1 .. Len(s) /\ n + 1 # 1
    BY <1>5
  <2>4. \A n \in 1 .. Len(s) : n = 1 \/ (n - 1 \in 1 .. Len(a) /\ (n - 1) + 1 = n)
    BY <1>5
  <2>5. 1 \in 1 .. Len(s) /\ \A n, m \in 1 .. Len(s) : s[n] = s[m] => n = m
    BY <1>2, <1>3, <1>5 DEF InStage
  <2>6. \A q : Unsent(r, q)' => Unsent(r, q)
    BY <2>1, <2>2, <2>3
  <2>7. \A q : q # h /\ Unsent(r, q) => Unsent(r, q)'
    <3>1. ASSUME NEW q, q # h, Unsent(r, q) PROVE Unsent(r, q)'
      <4>1. PICK n \in 1 .. Len(s) : s[n] = q
        BY <2>2, <3>1
      <4>2. n - 1 \in 1 .. Len(a) /\ s[(n - 1) + 1] = q
        BY <1>7, <2>4, <3>1, <4>1
      <4> QED
        BY <2>1, <4>2
    <3> QED
      BY <3>1
  <2>8. Unsent(r, h)
    BY <1>7, <2>2, <2>5
  <2>9. ~Unsent(r, h)'
    BY <1>7, <2>1, <2>3, <2>5
  <2> QED
    BY <2>6, <2>7, <2>8, <2>9
<1>9. StageInv'
  <2>1. todo' \in [Ranks -> Seq(Ranks)]
    BY <1>0, <1>5, <1>6 DEF StageInv
  <2>2. InStage(r)'
    <3>1. \A n \in 1 .. Len(a) : n + 1 \in 1 .. Len(s)
      BY <1>5
    <3>2. \A n \in 1 .. Len(a) : Peered(grid, r, a[n], i)
      BY <1>2, <1>3, <1>5, <3>1 DEF InStage
    <3>3. \A n, m \in 1 .. Len(a) : a[n] = a[m] => n = m
      <4>1. \A n, m \in 1 .. Len(a) : a[n] = a[m] => n + 1 = m + 1
        BY <1>2, <1>3, <1>5, <3>1 DEF InStage
      <4> QED
        BY <4>1
    <3> QED
      BY <1>1, <1>2, <1>3, <1>6, <3>2, <3>3 DEF InStage
  <2>3. ASSUME NEW q \in Ranks, q # r PROVE InStage(q)'
    BY <2>3, <1>0, <1>1, <1>6, StillKeeps DEF Still, StageInv
  <2> QED
    BY <2>1, <2>2, <2>3, <1>0, <1>1, <1>6 DEF StageInv
<1>10. BuiltInv'
  <2>1. ASSUME NEW q \in Ranks, pc[q] # "halos" PROVE Shaped(q)' /\ Counts(q)'
    BY <2>1, <1>0, <1>1, <1>6, BuiltSame DEF BuiltInv
  <2> QED
    BY <2>1, <1>0, <1>1, <1>6 DEF BuiltInv
<1>11. /\ chan' = [chan EXCEPT ![<<r, h>>] = Append(chan[<<r, h>>], Told(grid, r, h, i))]
       /\ chan'[<<r, h>>] = Append(chan[<<r, h>>], Told(grid, r, h, i))
       /\ \A q, p \in Ranks : q # r \/ p # h => chan'[<<q, p>>] = chan[<<q, p>>]
  <2>1. TagItems(r, h, i) = Told(grid, r, h, i)
    BY <1>0, <1>3, TagFacts
  <2>2. chan' = [chan EXCEPT ![<<r, h>>] = Append(chan[<<r, h>>], TagItems(r, h, i))]
    BY <1>2 DEF SendTags
  <2>3. DOMAIN chan = Ranks \X Ranks
    BY <1>0 DEF WayInv
  <2> QED
    BY <1>7, <2>1, <2>2, <2>3
<1>12. ASSUME NEW q \in Ranks, NEW p \in Ranks PROVE (\A j : HasGot(p, q, j)' <=> HasGot(p, q, j)) /\ Heeded(q, p)'
  <2>1. Heeded(q, p)
    BY <1>0 DEF WayInv, Way
  <2> QED
    BY <2>1, <1>1, <1>6 DEF HasGot, Heeded
<1>13. ASSUME NEW q \in Ranks, NEW p \in Ranks, q # r \/ p # h PROVE Way(q, p)'
  <2>1. Way(q, p)
    BY <1>0 DEF WayInv
  <2>2. \A j : HasSent(q, p, j)' <=> HasSent(q, p, j)
    <3>1. Unsent(q, p)' <=> Unsent(q, p)
      <4>1. CASE q = r
        BY <4>1, <1>8, <1>13
      <4>2. CASE q # r
        BY <4>2, <1>6 DEF Unsent
      <4> QED
        BY <4>1, <4>2
    <3> QED
      BY <3>1, <1>6 DEF HasSent
  <2> QED
    BY <2>1, <2>2, <1>1, <1>11, <1>12, <1>13, WaySame DEF Same
<1>14. Way(r, h)'
  <2>1. (\E f : Carries(chan[<<r, h>>], f, r, h)) /\ Ordered(r, h)
    BY <1>0, <1>7 DEF WayInv, Way
  <2>2. PICK f : Carries(chan[<<r, h>>], f, r, h)
    BY <2>1
  <2>3. /\ \A j \in Stages : HasSent(r, h, j) <=> j < i
        /\ \A j \in Stages : HasSent(r, h, j)' <=> j < i \/ j = i
    BY <1>2, <1>3, <1>6, <1>8 DEF HasSent
  <2>4. i \in Int /\ ~(i < i)
    BY <1>3 DEF Stages
  <2>5. ~HasGot(h, r, i)
    BY <2>1, <2>3, <2>4, <1>3, <1>7 DEF Ordered
  <2>6. UnderWay(r, h)' = UnderWay(r, h) \cup {i}
    <3>1. \A j : j \in UnderWay(r, h)' <=> j \in UnderWay(r, h) \cup {i}
      BY <1>1, <1>3, <1>7, <1>12, <2>3, <2>5 DEF UnderWay
    <3> QED
      BY <3>1
  <2>7. \A j \in UnderWay(r, h) : j < i
    BY <2>3 DEF UnderWay
  <2>8. PICK c : c = chan[<<r, h>>] /\ Append(c, Told(grid, r, h, i)) = chan'[<<r, h>>]
    BY <1>11
  <2>9. Carries(Append(c, Told(grid, r, h, i)), Append(f, i), r, h)'
    BY <2>2, <2>6, <2>7, <2>8, <1>1, <1>3, CarriesMore
  <2>10. Told(grid, r, h, i)' = Told(grid, r, h, i)
    BY <1>1 DEF Told
  <2>11. Carries(chan[<<r, h>>], Append(f, i), r, h)'
    BY <2>8, <2>9, <2>10
  <2>12. Ordered(r, h)'
    BY <2>1, <2>3, <1>1, <1>7, <1>12 DEF Ordered
  <2> QED
    BY <2>11, <2>12, <1>7, <1>12 DEF Way
<1>15. WayInv'
  BY <1>0, <1>1, <1>6, <1>11, <1>13, <1>14 DEF WayInv
<1> QED
  BY <1>9, <1>10, <1>15 DEF StagedInv

----------------------------------------------------------------------------
(***************************************************************************)
(* Receiving.                                                              *)
(***************************************************************************)

LEMMA DeliverTagsKeeps ==
  ASSUME StagedInv, NEW r \in Ranks, DeliverTags(r) PROVE StagedInv'
<1>0. StageInv /\ BuiltInv /\ WayInv
  BY DEF StagedInv
<1>1. Ranks' = Ranks /\ domains' = domains /\ Stages' = Stages /\ grid' = grid
  BY DEF DeliverTags, Ranks, domains, Stages
<1>2. PICK q \in awaited[r] :
        /\ chan[<<q, r>>] # <<>>
        /\ received' = [received EXCEPT ![r][q] = Head(chan[<<q, r>>])]
        /\ chan' = [chan EXCEPT ![<<q, r>>] = Tail(chan[<<q, r>>])]
        /\ awaited' = [awaited EXCEPT ![r] = awaited[r] \ {q}]
        /\ UNCHANGED <<grid, eager, pc, stage, staged, todo>>
  BY DEF DeliverTags
<1>3. PICK i : i = stage[r]
  OBVIOUS
<1>4. pc[r] = "send" /\ i \in Stages /\ InStage(r) /\ q \in Ranks /\ Peered(grid, r, q, i)
  BY <1>0, <1>2, <1>3 DEF StageInv, InStage
<1>5. Peered(grid, q, r, i)
  BY <1>0, <1>4, StageFacts, PeeredBoth DEF StageInv
<1>6. /\ awaited'[r] = awaited[r] \ {q} /\ \A p \in Ranks \ {r} : awaited'[p] = awaited[p]
      /\ awaited' \in [Ranks -> SUBSET Ranks]
  BY <1>0, <1>2 DEF StageInv
<1>7. /\ received'[r] = [received[r] EXCEPT ![q] = Head(chan[<<q, r>>])]
      /\ \A p \in Ranks \ {r} : received'[p] = received[p]
      /\ DOMAIN received' = Ranks
  BY <1>0, <1>2 DEF WayInv
<1>8. /\ received'[r][q] = Head(chan[<<q, r>>]) /\ \A p \in Ranks \ {q} : received'[r][p] = received[r][p]
      /\ \A p \in Ranks : DOMAIN received'[p] = Ranks
  BY <1>0, <1>4, <1>7 DEF WayInv
<1>9. /\ chan'[<<q, r>>] = Tail(chan[<<q, r>>])
      /\ \A p, s \in Ranks : p # q \/ s # r => chan'[<<p, s>>] = chan[<<p, s>>]
      /\ DOMAIN chan' = Ranks \X Ranks
  BY <1>0, <1>2, <1>4 DEF WayInv
<1>10. StageInv'
  <2>1. InStage(r)'
    BY <1>1, <1>2, <1>3, <1>4, <1>6 DEF InStage
  <2>2. ASSUME NEW p \in Ranks, p # r PROVE InStage(p)'
    BY <2>2, <1>0, <1>1, <1>2, <1>6, StillKeeps DEF Still, StageInv
  <2> QED
    BY <2>1, <2>2, <1>0, <1>1, <1>2, <1>6 DEF StageInv
<1>11. BuiltInv'
  <2>1. ASSUME NEW p \in Ranks, pc[p] # "halos" PROVE Shaped(p)' /\ Counts(p)'
    BY <2>1, <1>0, <1>1, <1>2, BuiltSame DEF BuiltInv
  <2> QED
    BY <2>1, <1>0, <1>1, <1>2 DEF BuiltInv
<1>12. \A p, s, j : HasSent(p, s, j)' <=> HasSent(p, s, j)
  BY <1>2 DEF HasSent, Unsent
<1>13. ASSUME NEW p \in Ranks, NEW s \in Ranks, p # q \/ s # r PROVE Way(p, s)'
  <2>1. Way(p, s) /\ Heeded(p, s)
    BY <1>0 DEF WayInv, Way
  <2>2. p \in awaited'[s] <=> p \in awaited[s]
    BY <1>6, <1>13
  <2>3. \A j : HasGot(s, p, j)' <=> HasGot(s, p, j)
    BY <2>2, <1>2 DEF HasGot
  <2>4. received'[s][p] = received[s][p]
    BY <1>7, <1>8, <1>13
  <2>5. Heeded(p, s)'
    BY <2>1, <2>2, <2>4, <1>1, <1>2 DEF Heeded, Told
  <2> QED
    BY <2>1, <2>3, <2>5, <1>1, <1>9, <1>12, <1>13, WaySame DEF Same
<1>14. Way(q, r)'
  <2>1. (\E f : Carries(chan[<<q, r>>], f, q, r)) /\ Ordered(q, r)
    BY <1>0, <1>4 DEF WayInv, Way
  <2>2. PICK f : Carries(chan[<<q, r>>], f, q, r)
    BY <2>1
  <2>3. PICK c, U : c = chan[<<q, r>>] /\ U = UnderWay(q, r)
    OBVIOUS
  <2>4. /\ f \in Seq(Stages) /\ Len(c) = Len(f) /\ c # << >> /\ c \in Seq({Told(grid, q, r, j) : j \in Stages})
        /\ \A n \in 1 .. Len(f) : c[n] = Told(grid, q, r, f[n]) /\ f[n] \in U
        /\ \A j \in U : \E n \in 1 .. Len(f) : f[n] = j
        /\ \A n, m \in 1 .. Len(f) : n < m => f[n] < f[m]
    BY <1>2, <2>2, <2>3 DEF Carries
  <2>5. f # << >> /\ 1 \in 1 .. Len(f) /\ Head(c) = c[1]
    <3>1. PICK T : T = {Told(grid, q, r, j) : j \in Stages} /\ c \in Seq(T)
      BY <2>4
    <3>2. Len(c) \in Nat /\ Len(c) # 0 /\ Head(c) = c[1]
      BY <2>4, <3>1
    <3> QED
      BY <2>4, <3>2
  <2>6. f[1] \in U /\ c[1] = Told(grid, q, r, f[1])
    BY <2>4, <2>5
  <2>7. \A j \in Stages : HasGot(r, q, j) <=> j < i
    BY <1>2, <1>3, <1>4 DEF HasGot
  <2>8. \A j \in Stages : HasGot(r, q, j)' <=> j < i \/ j = i
    BY <1>2, <1>3, <1>4, <1>6 DEF HasGot
  <2>9. f[1] \in Stages /\ HasSent(q, r, f[1]) /\ ~(f[1] < i)
    BY <2>3, <2>6, <2>7 DEF UnderWay
  <2>10. f[1] = i
    <3>1. f[1] \in Nat /\ i \in Nat /\ stage[q] \in Nat
      BY <1>0, <1>4, <2>9, StageFacts DEF StageInv
    <3>2. CASE i < f[1]
      <4>1. f[1] <= stage[q]
        BY <2>9, <3>1 DEF HasSent
      <4>2. HasSent(q, r, i)
        BY <3>1, <3>2, <4>1 DEF HasSent
      <4>3. i \in U
        BY <1>4, <1>5, <2>3, <2>7, <3>1, <4>2 DEF UnderWay
      <4>4. PICK n \in 1 .. Len(f) : f[n] = i
        BY <2>4, <4>3
      <4>5. n = 1 \/ 1 < n
        OBVIOUS
      <4> QED
        BY <3>1, <3>2, <4>4, <4>5, <2>4, <2>5
    <3> QED
      BY <2>9, <3>1, <3>2
  <2>11. i \in Int /\ HasSent(q, r, i)
    BY <1>4, <2>9, <2>10 DEF Stages
  <2>12. UnderWay(q, r)' = U \ {f[1]}
    <3>1. \A j : j \in UnderWay(q, r)' <=> j \in U \ {i}
      <4>1. \A j \in Stages : j \in Int
        BY DEF Stages
      <4> QED
        BY <4>1, <1>1, <1>12, <2>3, <2>7, <2>8 DEF UnderWay
    <3> QED
      BY <2>10, <3>1
  <2>13. Carries(Tail(c), Tail(f), q, r)'
    BY <2>2, <2>3, <2>4, <2>12, <1>1, CarriesLess
  <2>14. Carries(chan[<<q, r>>], Tail(f), q, r)'
    BY <2>3, <2>13, <1>9
  <2>15. Ordered(q, r)'
    BY <2>1, <2>7, <2>8, <2>11, <1>1, <1>12 DEF Ordered
  <2>16. Heeded(q, r)'
    <3>1. received'[r][q] = Told(grid, q, r, i)
      BY <1>8, <2>3, <2>5, <2>6, <2>10
    <3>2. Told(grid, q, r, stage[r])' = Told(grid, q, r, i)
      BY <1>1, <1>2, <1>3 DEF Told
    <3> QED
      BY <3>1, <3>2 DEF Heeded
  <2> QED
    BY <2>14, <2>15, <2>16 DEF Way
<1>15. WayInv'
  BY <1>1, <1>7, <1>8, <1>9, <1>13, <1>14 DEF WayInv
<1> QED
  BY <1>10, <1>11, <1>15 DEF StagedInv

----------------------------------------------------------------------------
(***************************************************************************)
(* Taking the tags.                                                        *)
(***************************************************************************)

\* The message from the rank of e has one item of e for d, with its tag.
LEMMA ItemFacts ==
  ASSUME NEW g \in StagedGrids, NEW i \in Axes(g), NEW d \in AllDomains(g), NEW e \in AllDomains(g), e \in Adjacent(g, d, i),
         NEW x, x = CHOOSE y \in Told(g, e[1], d[1], i) : y.source_id = IdAt(g, d) /\ y.dest_id = IdAt(g, e)
  PROVE  x.tag = LinkTag(g, e, d, i)
<1>1. PICK L, T : L = Links(g, e[1], d[1], i) /\ T = Told(g, e[1], d[1], i)
  OBVIOUS
<1>2. e[1] \in RanksOf(g) /\ d \in Adjacent(g, e, i) /\ e = <<e[1], e[2]>>
  BY StagedNames, StagedGridsType DEF Axes
<1>3. PICK b : b = Entry(g, e, d)
  OBVIOUS
<1>4. b \in L /\ b[1] = e[2] /\ b[2] = IdAt(g, d)
  BY <1>1, <1>2, <1>3, LinkFacts DEF Entry
<1>5. T = {[source_id |-> c[2], dest_id |-> IdAt(g, <<e[1], c[1]>>), tag |-> Cardinality(Pred(L, c))] : c \in L}
  BY <1>1 DEF Told
<1>6. PICK z : z = [source_id |-> b[2], dest_id |-> IdAt(g, <<e[1], b[1]>>), tag |-> Cardinality(Pred(L, b))]
  OBVIOUS
<1>7. z \in T /\ z.source_id = IdAt(g, d) /\ z.dest_id = IdAt(g, e)
  <2>1. z \in T
    BY <1>4, <1>5, <1>6
  <2>2. IdAt(g, <<e[1], b[1]>>) = IdAt(g, e)
    BY <1>2, <1>4
  <2> QED
    BY <1>4, <1>6, <2>1, <2>2
<1>8. ASSUME NEW y \in T, y.source_id = IdAt(g, d), y.dest_id = IdAt(g, e) PROVE y.tag = Cardinality(Pred(L, b))
  <2>1. PICK c \in L : y = [source_id |-> c[2], dest_id |-> IdAt(g, <<e[1], c[1]>>), tag |-> Cardinality(Pred(L, c))]
    BY <1>5
  <2>2. PICK f \in AllDomains(g), a \in AllDomains(g) :
          a \in Adjacent(g, f, i) /\ f[1] = e[1] /\ a[1] = d[1] /\ c = Entry(g, f, a)
    <3>1. c \in Links(g, e[1], d[1], i)
      BY <1>1, <2>1
    <3> QED
      BY <1>2, <3>1, LinkFacts
  <2>3. c[1] = f[2] /\ c[2] = IdAt(g, a) /\ f = <<e[1], c[1]>>
    <3>1. f = <<f[1], f[2]>>
      BY StagedNames
    <3>2. c = <<f[2], IdAt(g, a)>>
      BY <2>2 DEF Entry
    <3>3. c[1] = f[2] /\ c[2] = IdAt(g, a)
      BY <3>2
    <3> QED
      BY <2>2, <3>1, <3>3
  <2>4. IdAt(g, a) = IdAt(g, d) /\ IdAt(g, f) = IdAt(g, e) /\ y.tag = Cardinality(Pred(L, c))
    BY <1>8, <2>1, <2>3
  <2>5. a = d /\ f = e
    BY <2>4, StagedGridsType DEF IdAt
  <2> QED
    BY <1>3, <2>2, <2>4, <2>5
<1>9. x \in T /\ x.source_id = IdAt(g, d) /\ x.dest_id = IdAt(g, e)
  BY <1>1, <1>7
<1>10. x.tag = Cardinality(Pred(L, b))
  BY <1>8, <1>9
<1>11. LinkTag(g, e, d, i) = Cardinality(Pred(L, b))
  BY <1>1, <1>3 DEF LinkTag
<1> QED
  BY <1>10, <1>11

\* The tag that WaitAll takes from the messages.
ItemOf(r, n, id, i) ==
  CHOOSE x \in received[r][staged[r][n][i].send[id].rank] : x.source_id = IdOf(r, n) /\ x.dest_id = id

LEMMA WaitAllBuilt ==
  ASSUME StagedInv, NEW r \in Ranks, WaitAll(r)
  PROVE  BuiltInv'
<1>0. StageInv /\ BuiltInv /\ WayInv
  BY DEF StagedInv
<1>1. Ranks' = Ranks /\ domains' = domains /\ Stages' = Stages /\ grid' = grid
  BY DEF WaitAll, Ranks, domains, Stages
<1>2. PICK i : i = stage[r]
  OBVIOUS
<1>3. pc[r] = "send" /\ awaited[r] = {} /\ i \in Stages /\ Shaped(r) /\ Counts(r)
  BY <1>0, <1>2 DEF WaitAll, StageInv, InStage, BuiltInv
<1>4. PICK t : t = [n \in DOMAIN staged[r] |-> [id \in DOMAIN staged[r][n][i].send |-> ItemOf(r, n, id, i).tag]]
  OBVIOUS
<1>5. DOMAIN staged' = Ranks /\ \A q \in Ranks \ {r} : staged'[q] = staged[q]
  BY <1>0 DEF WaitAll, BuiltInv
<1>6. staged'[r] = Retagged(staged[r], i, "send", t)
  <2>0. staged' = [staged EXCEPT ![r] = Retagged(staged[r], stage[r], "send",
          [n \in DOMAIN staged[r] |-> [id \in DOMAIN staged[r][n][stage[r]].send |-> ItemOf(r, n, id, stage[r]).tag]])]
    BY Zenon DEF WaitAll, ItemOf
  <2>1. staged' = [staged EXCEPT ![r] = Retagged(staged[r], i, "send", t)]
    BY <2>0, <1>2, <1>4
  <2>2. DOMAIN staged = Ranks
    BY <1>0 DEF BuiltInv
  <2> QED
    BY <2>1, <2>2
<1>7. Shaped(r)' /\ RetagsHalos(r, i, "send", t)
  BY <1>0, <1>1, <1>3, <1>6, Retag
<1>8. ASSUME NEW n \in DOMAIN domains[r], NEW e \in Adjacent(grid, <<r, n>>, i)
      PROVE  t[n][IdAt(grid, e)] = LinkTag(grid, e, <<r, n>>, i)
  <2>1. PICK d : d = <<r, n>>
    OBVIOUS
  <2>2. d \in AllDomains(grid) /\ grid \in StagedGrids /\ i \in Axes(grid) /\ d[1] = r /\ d[2] = n
    BY <1>0, <1>3, <2>1, StagedPlace, StageFacts DEF StageInv
  <2>3. IdAt(grid, e) \in DOMAIN Given(grid, d, i)["send"]
    BY <2>1, <2>2, GivenFacts DEF NamesOf
  <2>4. LikeGiven(r, n, i, "send") /\ n \in DOMAIN staged[r]
    BY <1>3 DEF Shaped
  <2>5. IdAt(grid, e) \in DOMAIN staged[r][n][i]["send"]
    BY <2>1, <2>3, <2>4 DEF LikeGiven
  <2>6. t[n][IdAt(grid, e)] = ItemOf(r, n, IdAt(grid, e), i).tag
    BY <1>4, <2>4, <2>5
  <2>7. staged[r][n][i]["send"][IdAt(grid, e)].rank = e[1]
    BY <1>3, <2>1, <2>2, HaloRank
  <2>8. e \in AllDomains(grid) /\ e \in Adjacent(grid, d, i) /\ e[1] \in RanksOf(grid)
    BY <2>1, <2>2, StagedGridsType, StagedNames DEF Axes
  <2>9. r \in RanksOf(grid) /\ Ranks = RanksOf(grid)
    BY <1>0, StageFacts
  <2>10. Peered(grid, r, e[1], i)
    BY <2>2, <2>8, <2>9, LinkFacts DEF Peered
  <2>11. Peered(grid, e[1], r, i)
    BY <2>2, <2>8, <2>9, <2>10, PeeredBoth
  <2>12. received[r][e[1]] = Told(grid, e[1], r, i)
    BY <1>0, <1>2, <1>3, <2>8, <2>9, <2>11 DEF WayInv, Way, Heeded
  <2>13. IdOf(r, n) = IdAt(grid, d)
    BY <2>1, <2>2 DEF IdOf, IdAt, DomainAt
  <2>14. PICK x : x = ItemOf(r, n, IdAt(grid, e), i)
    OBVIOUS
  <2>15. x = CHOOSE y \in Told(grid, e[1], d[1], i) : y.source_id = IdAt(grid, d) /\ y.dest_id = IdAt(grid, e)
    BY <2>2, <2>7, <2>12, <2>13, <2>14 DEF ItemOf
  <2>16. x.tag = LinkTag(grid, e, d, i)
    BY <2>2, <2>8, <2>15, ItemFacts
  <2> QED
    BY <2>1, <2>6, <2>14, <2>16
<1>9. Counts(r)'
  <2>1. /\ stage'[r] = i + 1 /\ pc'[r] # "send"
        /\ \A j \in Stages : (Counted(r, j)' => Counted(r, j)) /\ (j < stage'[r] <=> j = i \/ j < stage[r])
    <3>1. stage'[r] = i + 1 /\ pc'[r] # "send"
      BY <1>0, <1>2 DEF WaitAll, StageInv
    <3>2. i \in Nat /\ \A j \in Stages : j \in Nat
      BY <1>3 DEF Stages
    <3>3. \A j \in Stages : j < i + 1 <=> j = i \/ j < i
      BY <3>2
    <3> QED
      BY <1>2, <1>3, <3>1, <3>3 DEF Counted
  <2>2. ASSUME NEW n \in DOMAIN domains[r], NEW j \in Stages, NEW e \in Adjacent(grid, <<r, n>>, j)
        PROVE  /\ Counted(r, j)' => Halo(r, n, j, "recv", e)'.tag = LinkTag(grid, <<r, n>>, e, j)
               /\ j < stage'[r] => Halo(r, n, j, "send", e)'.tag = LinkTag(grid, e, <<r, n>>, j)
    <3>0. Halo(r, n, j, "recv", e)' = Halo(r, n, j, "recv", e)
      BY <1>7 DEF RetagsHalos
    <3>1. Counted(r, j)' => Halo(r, n, j, "recv", e)'.tag = LinkTag(grid, <<r, n>>, e, j)
      BY <3>0, <1>3, <2>1 DEF Counts
    <3>2. CASE j = i
      BY <3>1, <3>2, <1>7, <1>8 DEF RetagsHalos
    <3>3. CASE j # i
      <4>1. Halo(r, n, j, "send", e)' = Halo(r, n, j, "send", e)
        BY <3>3, <1>7 DEF RetagsHalos
      <4> QED
        BY <3>1, <3>3, <4>1, <1>3, <2>1 DEF Counts
    <3> QED
      BY <3>2, <3>3
  <2> QED
    BY <1>1, <2>2 DEF Counts
<1>10. ASSUME NEW q \in Ranks, q # r, pc[q] # "halos" PROVE Shaped(q)' /\ Counts(q)'
  <2>1. staged'[q] = staged[q] /\ stage'[q] = stage[q] /\ pc'[q] = pc[q]
    BY <1>0, <1>5, <1>10 DEF WaitAll, StageInv
  <2> QED
    BY <2>1, <1>0, <1>1, <1>10, BuiltSame DEF BuiltInv
<1>11. \A q \in Ranks \ {r} : pc'[q] = pc[q]
  BY <1>0 DEF WaitAll, StageInv
<1> QED
  BY <1>1, <1>5, <1>7, <1>9, <1>10, <1>11 DEF BuiltInv

LEMMA WaitAllKeeps ==
  ASSUME StagedInv, NEW r \in Ranks, WaitAll(r) PROVE StagedInv'
<1>0. StageInv /\ BuiltInv /\ WayInv
  BY DEF StagedInv
<1>1. Ranks' = Ranks /\ domains' = domains /\ Stages' = Stages /\ grid' = grid
  BY DEF WaitAll, Ranks, domains, Stages
<1>2. PICK i : i = stage[r]
  OBVIOUS
<1>3. pc[r] = "send" /\ todo[r] = << >> /\ awaited[r] = {} /\ i \in Stages
  BY <1>0, <1>2 DEF WaitAll, StageInv, InStage
<1>4. /\ stage'[r] = i + 1 /\ pc'[r] = (IF i + 1 \in Stages THEN "tags" ELSE "staged")
      /\ UNCHANGED <<todo, awaited, received, chan>>
      /\ \A q \in Ranks \ {r} : pc'[q] = pc[q] /\ stage'[q] = stage[q]
      /\ pc' \in [Ranks -> StagePlaces] /\ stage' \in [Ranks -> Nat]
  <2>1. i + 1 \in Nat
    BY <1>3 DEF Stages
  <2>2. pc' = [pc EXCEPT ![r] = IF i + 1 \in Stages THEN "tags" ELSE "staged"] /\ stage' = [stage EXCEPT ![r] = i + 1]
    BY <1>2 DEF WaitAll
  <2> QED
    BY <2>1, <2>2, <1>0 DEF WaitAll, StageInv, StagePlaces
<1>5. i \in Nat /\ i + 1 \in Nat /\ (\A j \in Stages : j < i + 1 <=> j < i \/ j = i) /\ ~(i < i)
      /\ (i + 1 \notin Stages => i + 1 = Len(grid.hgen.first) + 1)
  <2>1. Len(grid.hgen.first) \in Nat /\ Stages = 1 .. Len(grid.hgen.first)
    BY <1>0, StageFacts
  <2> QED
    BY <2>1, <1>3
<1>6. StageInv'
  <2>1. InStage(r)'
    <3>1. todo'[r] = << >> /\ awaited'[r] = {} /\ \A n : n \notin 1 .. Len(<< >>)
      BY <1>3, <1>4
    <3>2. pc'[r] # "halos" /\ pc'[r] # "send"
      BY <1>4
    <3>3. pc'[r] # "staged" => stage'[r] \in Stages
      BY <1>4
    <3>4. pc'[r] = "staged" => stage'[r] = Len(grid.hgen.first) + 1
      BY <1>4, <1>5
    <3> QED
      BY <3>1, <3>2, <3>3, <3>4, <1>1 DEF InStage
  <2>2. ASSUME NEW q \in Ranks, q # r PROVE InStage(q)'
    BY <2>2, <1>0, <1>1, <1>4, StillKeeps DEF Still, StageInv
  <2> QED
    BY <2>1, <2>2, <1>0, <1>1, <1>4 DEF StageInv
<1>7. BuiltInv'
  BY WaitAllBuilt
<1>8. ASSUME NEW q \in Ranks, NEW p \in Ranks PROVE Way(q, p)'
  <2>1. Way(q, p) /\ Heeded(q, p)
    BY <1>0 DEF WayInv, Way
  <2>2. \A j \in Stages : HasSent(q, p, j)' <=> HasSent(q, p, j)
    <3>1. CASE q = r
      <4>1. ~Unsent(r, p)
        BY <1>3 DEF Unsent
      <4> QED
        BY <3>1, <4>1, <1>2, <1>3, <1>4, <1>5 DEF HasSent
    <3>2. CASE q # r
      BY <3>2, <1>4 DEF HasSent, Unsent
    <3> QED
      BY <3>1, <3>2
  <2>3. \A j \in Stages : HasGot(p, q, j)' <=> HasGot(p, q, j)
    <3>1. CASE p = r
      BY <3>1, <1>2, <1>3, <1>4, <1>5 DEF HasGot
    <3>2. CASE p # r
      BY <3>2, <1>4 DEF HasGot
    <3> QED
      BY <3>1, <3>2
  <2>4. Heeded(q, p)'
    <3>1. CASE p = r
      BY <3>1, <1>4 DEF Heeded
    <3>2. CASE p # r
      BY <3>2, <2>1, <1>1, <1>4 DEF Heeded, Told
    <3> QED
      BY <3>1, <3>2
  <2> QED
    BY <2>1, <2>2, <2>3, <2>4, <1>1, <1>4, WaySame DEF Same
<1>9. WayInv'
  BY <1>0, <1>1, <1>4, <1>8 DEF WayInv
<1> QED
  BY <1>6, <1>7, <1>9 DEF StagedInv

----------------------------------------------------------------------------
(***************************************************************************)
(* The theorems.                                                           *)
(***************************************************************************)

LEMMA StagedStuttering ==
  ASSUME StagedInv, UNCHANGED svars PROVE StagedInv'
<1>0. StageInv /\ BuiltInv /\ WayInv
  BY DEF StagedInv
<1>1. /\ Ranks' = Ranks /\ domains' = domains /\ Stages' = Stages /\ grid' = grid
      /\ UNCHANGED <<pc, stage, staged, todo, awaited, received, chan>>
  BY DEF svars, Ranks, domains, Stages
<1>2. StageInv'
  <2>1. \A r \in Ranks : InStage(r)'
    BY <1>0, <1>1, StillKeeps DEF Still, StageInv
  <2> QED
    BY <2>1, <1>0, <1>1 DEF StageInv
<1>3. BuiltInv'
  <2>1. ASSUME NEW q \in Ranks, pc[q] # "halos" PROVE Shaped(q)' /\ Counts(q)'
    BY <2>1, <1>0, <1>1, BuiltSame DEF BuiltInv
  <2> QED
    BY <2>1, <1>0, <1>1 DEF BuiltInv
<1>4. WayInv'
  <2>1. ASSUME NEW q \in Ranks, NEW p \in Ranks PROVE Way(q, p)'
    <3>1. Way(q, p) /\ Heeded(q, p)
      BY <1>0 DEF WayInv, Way
    <3>2. Same(q, p) /\ Heeded(q, p)'
      BY <3>1, <1>1, StillKeeps DEF Still, Same
    <3> QED
      BY <3>1, <3>2, <1>1, WaySame
  <2> QED
    BY <2>1, <1>0, <1>1 DEF WayInv
<1> QED
  BY <1>2, <1>3, <1>4 DEF StagedInv

\* Whatever stages the ranks are in: every halo has the tag that its receiver
\* counted, on both sides, and what is between two ranks is, in the order of
\* the stages, what has been sent and not received.
THEOREM StagedInvariant == StagedSpec => []StagedInv
<1>1. StagedInv /\ [StagedNext]_svars => StagedInv'
  <2> SUFFICES ASSUME StagedInv, [StagedNext]_svars PROVE StagedInv'
    OBVIOUS
  <2>1. ASSUME NEW r \in Ranks, StagedStep(r) PROVE StagedInv'
    <3>1. CASE BuildHalos(r)
      BY <3>1, BuildHalosKeeps
    <3>2. CASE PostReceives(r)
      BY <3>2, PostReceivesKeeps
    <3>3. CASE SendTags(r)
      BY <3>3, SendTagsKeeps
    <3>4. CASE DeliverTags(r)
      BY <3>4, DeliverTagsKeeps
    <3>5. CASE WaitAll(r)
      BY <3>5, WaitAllKeeps
    <3> QED
      BY <2>1, <3>1, <3>2, <3>3, <3>4, <3>5 DEF StagedStep
  <2>2. CASE UNCHANGED svars
    BY <2>2, StagedStuttering
  <2> QED
    BY <2>1, <2>2 DEF StagedNext
<1> QED
  BY <1>1, StagedInitial, PTL DEF StagedSpec

\* When all ranks are through, a receive halo gets what its sender has for it.
LEMMA SendersFacts ==
  ASSUME StagedInv, AllStaged, NEW i \in Stages, NEW d \in AllDomains(grid), NEW e \in Adjacent(grid, d, i),
         NEW h, h = staged[d[1]][d[2]][i].recv[IdAt(grid, e)]
  PROVE  /\ Senders(d[1], h.rank, h.tag, i) = {<<e, Given(grid, e, i).send[IdAt(grid, d)].spaces>>}
         /\ h.spaces = Given(grid, d, i).recv[IdAt(grid, e)].spaces
<1>0. StageInv /\ BuiltInv
  BY DEF StagedInv
<1>1. /\ Ranks = RanksOf(grid) /\ domains = grid.domains /\ grid \in StagedGrids /\ i \in Axes(grid)
      /\ \A r \in Ranks : i < stage[r] /\ Shaped(r) /\ Counts(r)
  <2>1. /\ Ranks = RanksOf(grid) /\ domains = grid.domains /\ Stages = Axes(grid)
        /\ Stages = 1 .. Len(grid.hgen.first) /\ Len(grid.hgen.first) \in Nat
    BY <1>0, StageFacts
  <2>2. \A r \in Ranks : pc[r] = "staged" /\ stage[r] = Len(grid.hgen.first) + 1
    BY <1>0 DEF AllStaged, StageInv, InStage
  <2>3. i < Len(grid.hgen.first) + 1
    BY <2>1
  <2> QED
    BY <1>0, <2>1, <2>2, <2>3 DEF StageInv, BuiltInv
<1>2. \A c \in AllDomains(grid) : c = <<c[1], c[2]>> /\ c[1] \in Ranks /\ c[2] \in DOMAIN domains[c[1]]
  BY <1>1, StagedNames
<1>3. e \in AllDomains(grid) /\ d \in Adjacent(grid, e, i)
  BY <1>1, StagedGridsType DEF Axes
<1>4. ASSUME NEW c \in AllDomains(grid), NEW f \in Adjacent(grid, c, i), NEW side \in {"recv", "send"},
             NEW k, k = staged[c[1]][c[2]][i][side][IdAt(grid, f)]
      PROVE  /\ k.rank = f[1] /\ k.spaces = Given(grid, c, i)[side][IdAt(grid, f)].spaces
             /\ k.tag = IF side = "recv" THEN LinkTag(grid, c, f, i) ELSE LinkTag(grid, f, c, i)
             /\ IdAt(grid, f) \in DOMAIN staged[c[1]][c[2]][i][side]
  <2>0. c = <<c[1], c[2]>> /\ c[1] \in Ranks /\ c[2] \in DOMAIN domains[c[1]]
    BY <1>2
  <2>1. c[1] \in Ranks /\ c[2] \in DOMAIN domains[c[1]] /\ <<c[1], c[2]>> = c /\ f \in Adjacent(grid, <<c[1], c[2]>>, i)
    <3>1. PICK b : b = <<c[1], c[2]>>
      OBVIOUS
    <3>2. b = c
      BY <2>0, <3>1
    <3>3. f \in Adjacent(grid, b, i)
      BY <3>2
    <3> QED
      BY <2>0, <3>1, <3>3
  <2>2. LikeGiven(c[1], c[2], i, side)
    <3>1. PICK r, n : r = c[1] /\ n = c[2]
      OBVIOUS
    <3>2. Shaped(r) /\ n \in DOMAIN domains[r]
      BY <1>1, <2>1, <3>1
    <3>3. LikeGiven(r, n, i, side)
      BY <3>2 DEF Shaped
    <3> QED
      BY <3>1, <3>3
  <2>3. PICK sp : sp = Given(grid, c, i)[side][IdAt(grid, f)].spaces
    OBVIOUS
  <2>4. k = Halo(c[1], c[2], i, side, f)
    BY <1>4 DEF Halo
  <2>5. k = [rank |-> f[1], tag |-> k.tag, spaces |-> sp]
    BY <2>1, <2>2, <2>3, <2>4 DEF LikeGiven
  <2>6. k.rank = f[1] /\ k.spaces = sp
    <3>1. PICK t : t = k.tag
      OBVIOUS
    <3>2. k = [rank |-> f[1], tag |-> t, spaces |-> sp]
      BY <2>5, <3>1
    <3> QED
      BY ONLY <3>2
  <2>7. /\ Counted(c[1], i) => Halo(c[1], c[2], i, "recv", f).tag = LinkTag(grid, c, f, i)
        /\ i < stage[c[1]] => Halo(c[1], c[2], i, "send", f).tag = LinkTag(grid, f, c, i)
    BY <1>1, <2>1 DEF Counts
  <2>8. i < stage[c[1]] /\ Counted(c[1], i)
    BY <1>1, <2>1 DEF Counted
  <2>9. k.tag = IF side = "recv" THEN LinkTag(grid, c, f, i) ELSE LinkTag(grid, f, c, i)
    BY <2>4, <2>7, <2>8
  <2>10. DOMAIN Given(grid, c, i)[side] = NamesOf(grid, Adjacent(grid, c, i))
    BY <1>1, GivenFacts
  <2>11. IdAt(grid, f) \in DOMAIN staged[c[1]][c[2]][i][side]
    BY <2>1, <2>2, <2>10 DEF LikeGiven, NamesOf
  <2> QED
    BY <2>3, <2>6, <2>9, <2>11
<1>5. h.rank = e[1] /\ h.tag = LinkTag(grid, d, e, i) /\ h.spaces = Given(grid, d, i).recv[IdAt(grid, e)].spaces
  <2>1. PICK s : s = "recv"
    OBVIOUS
  <2>2. h = staged[d[1]][d[2]][i][s][IdAt(grid, e)]
    BY <2>1
  <2>3. /\ h.rank = e[1] /\ h.spaces = Given(grid, d, i)[s][IdAt(grid, e)].spaces
        /\ h.tag = IF s = "recv" THEN LinkTag(grid, d, e, i) ELSE LinkTag(grid, e, d, i)
    BY <1>4, <2>1, <2>2
  <2> QED
    BY <2>1, <2>3
<1>6. PICK q : q = e[1]
  OBVIOUS
<1>7. PICK sent : sent = <<e, Given(grid, e, i).send[IdAt(grid, d)].spaces>>
  OBVIOUS
<1>8. PICK r, t, S : r = d[1] /\ t = h.tag /\ S = Senders(r, q, t, i)
  OBVIOUS
<1>9. /\ \A m \in DOMAIN staged[q] : \A id \in DOMAIN staged[q][m][i].send :
           staged[q][m][i].send[id].rank = d[1] /\ staged[q][m][i].send[id].tag = h.tag
             => <<<<q, m>>, staged[q][m][i].send[id].spaces>> \in S
      /\ \A x \in S : \E m \in DOMAIN staged[q] : \E id \in DOMAIN staged[q][m][i].send :
           /\ staged[q][m][i].send[id].rank = d[1] /\ staged[q][m][i].send[id].tag = h.tag
           /\ x = <<<<q, m>>, staged[q][m][i].send[id].spaces>>
  <2>1. ASSUME NEW m \in DOMAIN staged[q], NEW id \in DOMAIN staged[q][m][i].send,
               staged[q][m][i].send[id].rank = r, staged[q][m][i].send[id].tag = t
        PROVE  <<<<q, m>>, staged[q][m][i].send[id].spaces>> \in Senders(r, q, t, i)
    BY <2>1 DEF Senders
  <2>2. ASSUME NEW x \in Senders(r, q, t, i)
        PROVE  \E m \in DOMAIN staged[q] : \E id \in DOMAIN staged[q][m][i].send :
                 /\ staged[q][m][i].send[id].rank = r /\ staged[q][m][i].send[id].tag = t
                 /\ x = <<<<q, m>>, staged[q][m][i].send[id].spaces>>
    BY <2>2 DEF Senders
  <2> QED
    BY <2>1, <2>2, <1>8
<1>10. sent \in S
  <2>1. PICK k : k = staged[e[1]][e[2]][i].send[IdAt(grid, d)]
    OBVIOUS
  <2>2. /\ k.rank = d[1] /\ k.spaces = Given(grid, e, i).send[IdAt(grid, d)].spaces /\ k.tag = h.tag
        /\ IdAt(grid, d) \in DOMAIN staged[e[1]][e[2]][i].send
    BY <1>3, <1>4, <1>5, <2>1
  <2>3. e[2] \in DOMAIN staged[q] /\ e = <<q, e[2]>>
    BY <1>1, <1>2, <1>3, <1>6 DEF Shaped
  <2>4. sent = <<<<q, e[2]>>, k.spaces>>
    BY <1>7, <2>2, <2>3
  <2> QED
    BY <1>6, <1>9, <2>1, <2>2, <2>3, <2>4
<1>11. ASSUME NEW x \in S PROVE x = sent
  <2>1. PICK m \in DOMAIN staged[q] : \E id \in DOMAIN staged[q][m][i].send :
           /\ staged[q][m][i].send[id].rank = d[1] /\ staged[q][m][i].send[id].tag = h.tag
           /\ x = <<<<q, m>>, staged[q][m][i].send[id].spaces>>
    BY <1>9
  <2>2. PICK id \in DOMAIN staged[q][m][i].send :
           /\ staged[q][m][i].send[id].rank = d[1] /\ staged[q][m][i].send[id].tag = h.tag
           /\ x = <<<<q, m>>, staged[q][m][i].send[id].spaces>>
    BY <2>1
  <2>3. q \in Ranks /\ m \in DOMAIN domains[q]
    BY <1>1, <1>2, <1>3, <1>6, <2>1 DEF Shaped
  <2>4. PICK c : c = <<q, m>>
    OBVIOUS
  <2>5. c[1] = q /\ c[2] = m /\ c \in AllDomains(grid)
    BY <2>3, <2>4, <1>1, StagedPlace
  <2>6. PICK f \in Adjacent(grid, c, i) : id = IdAt(grid, f)
    <3>1. LikeGiven(q, m, i, "send")
      BY <1>1, <2>3 DEF Shaped
    <3>2. DOMAIN Given(grid, c, i)["send"] = NamesOf(grid, Adjacent(grid, c, i))
      BY <1>1, <2>5, GivenFacts
    <3>3. id \in NamesOf(grid, Adjacent(grid, c, i))
      BY <2>2, <2>4, <3>1, <3>2 DEF LikeGiven
    <3> QED
      BY <3>3 DEF NamesOf
  <2>7. PICK k : k = staged[q][m][i].send[id]
    OBVIOUS
  <2>8. k.rank = f[1] /\ k.spaces = Given(grid, c, i).send[IdAt(grid, f)].spaces /\ k.tag = LinkTag(grid, f, c, i)
    BY <1>4, <2>5, <2>6, <2>7
  <2>9. f \in AllDomains(grid) /\ c \in Adjacent(grid, f, i) /\ f[1] = d[1]
    BY <1>1, <2>2, <2>5, <2>6, <2>7, <2>8, StagedGridsType DEF Axes
  <2>10. LinkTag(grid, f, c, i) = LinkTag(grid, d, e, i)
    BY <1>5, <2>2, <2>7, <2>8
  <2>11. f = d /\ c = e
    BY <1>1, <1>3, <1>6, <2>5, <2>9, <2>10, LinkTags
  <2> QED
    BY <1>7, <2>2, <2>4, <2>7, <2>8, <2>11
<1>12. S = {sent}
  BY <1>10, <1>11
<1>13. Senders(d[1], h.rank, h.tag, i) = S
  <2>1. d[1] = r /\ h.rank = q /\ h.tag = t
    BY <1>5, <1>6, <1>8
  <2> QED
    BY <2>1, <1>8
<1> QED
  BY <1>5, <1>7, <1>12, <1>13

\* However far ahead of others a rank is, and whatever MPI buffers: when
\* make_staged_pattern has returned on all ranks, the tags on the two sides
\* lead from every receive halo to one send halo, that of the domain that the
\* receive halo names (make_pattern.hpp:197-260).
THEOREM TagsStayRouted == StagedSpec => []TagsRoute
<1>1. StagedInv => TagsRoute
  <2>1. SUFFICES ASSUME StagedInv, AllStaged PROVE Routes = Intended(grid)
    BY DEF TagsRoute
  <2>2. /\ Ranks = RanksOf(grid) /\ domains = grid.domains /\ Stages = Axes(grid) /\ grid \in StagedGrids
        /\ \A r \in Ranks : Shaped(r)
    BY <2>1, StageFacts DEF StagedInv, StageInv, BuiltInv, AllStaged
  <2>3. ASSUME NEW d \in AllDomains(grid), NEW i \in Stages, NEW H, H = staged[d[1]][d[2]][i].recv,
               NEW R, R = Given(grid, d, i).recv
        PROVE  [id \in DOMAIN H |-> [into |-> H[id].spaces, from |-> Senders(d[1], H[id].rank, H[id].tag, i)]] =
               [id \in DOMAIN R |-> [into |-> R[id].spaces,
                  from |-> {<<NamedIn(grid, id), Given(grid, NamedIn(grid, id), i).send[IdAt(grid, d)].spaces>>}]]
    <3>1. d = <<d[1], d[2]>> /\ d[1] \in Ranks /\ d[2] \in DOMAIN domains[d[1]]
      BY <2>2, StagedNames
    <3>2. PICK r, n : r = d[1] /\ n = d[2]
      OBVIOUS
    <3>3. LikeGiven(r, n, i, "recv")
      <4>1. Shaped(r) /\ n \in DOMAIN domains[r]
        BY <2>2, <3>1, <3>2
      <4> QED
        BY <4>1 DEF Shaped
    <3>4. <<r, n>> = d
      BY <3>1, <3>2
    <3>5. DOMAIN R = NamesOf(grid, Adjacent(grid, d, i))
      <4>1. DOMAIN Given(grid, d, i)["recv"] = NamesOf(grid, Adjacent(grid, d, i))
        BY <2>2, GivenFacts
      <4> QED
        BY <4>1, <2>3
    <3>6. DOMAIN H = DOMAIN R
      BY <2>3, <3>2, <3>3, <3>4 DEF LikeGiven
    <3>7. ASSUME NEW id \in DOMAIN R
          PROVE  /\ H[id].spaces = R[id].spaces
                 /\ Senders(d[1], H[id].rank, H[id].tag, i) =
                      {<<NamedIn(grid, id), Given(grid, NamedIn(grid, id), i).send[IdAt(grid, d)].spaces>>}
      <4>1. PICK e \in Adjacent(grid, d, i) : id = IdAt(grid, e)
        BY <3>5 DEF NamesOf
      <4>2. e \in AllDomains(grid)
        BY <2>2, StagedGridsType DEF Axes
      <4>3. NamedIn(grid, id) = e
        BY <2>2, <4>1, <4>2, StagedNames
      <4>4. PICK h : h = H[id]
        OBVIOUS
      <4>5. h = staged[d[1]][d[2]][i].recv[IdAt(grid, e)]
        BY <2>3, <4>1, <4>4
      <4>6. /\ Senders(d[1], h.rank, h.tag, i) = {<<e, Given(grid, e, i).send[IdAt(grid, d)].spaces>>}
            /\ h.spaces = Given(grid, d, i).recv[IdAt(grid, e)].spaces
        BY <2>1, <4>5, SendersFacts
      <4> QED
        BY <2>3, <4>1, <4>3, <4>4, <4>6
    <3> QED
      BY <3>6, <3>7
  <2> DEFINE A(d, i) == [id \in DOMAIN staged[d[1]][d[2]][i].recv |->
                           [into |-> staged[d[1]][d[2]][i].recv[id].spaces,
                            from |-> Senders(d[1], staged[d[1]][d[2]][i].recv[id].rank, staged[d[1]][d[2]][i].recv[id].tag, i)]]
             B(d, i) == [id \in DOMAIN Given(grid, d, i).recv |->
                           [into |-> Given(grid, d, i).recv[id].spaces,
                            from |-> {<<NamedIn(grid, id), Given(grid, NamedIn(grid, id), i).send[IdAt(grid, d)].spaces>>}]]
  <2>4. Routes = [d \in AllDomains(grid) |-> [i \in Stages |-> A(d, i)]]
    BY DEF Routes
  <2>5. Intended(grid) = [d \in AllDomains(grid) |-> [i \in Stages |-> B(d, i)]]
    BY <2>2 DEF Intended, Given, NamedIn, IdAt, Axes
  <2>6. \A d \in AllDomains(grid), i \in Stages : A(d, i) = B(d, i)
    BY <2>3
  <2> HIDE DEF A, B
  <2> QED
    BY <2>4, <2>5, <2>6
<1> QED
  BY <1>1, StagedInvariant, PTL

\* With slices that cover the halos of each grid, the exchange of the stages one
\* after the other, by the tags that the ranks have told each other, fills every
\* halo cell from its owner.
THEOREM StagedFill ==
  ASSUME \A g \in StagedGrids : StagesCover(g)
  PROVE  StagedSpec => []StagedHalosFilled
<1>1. StagedInv /\ TagsRoute => StagedHalosFilled
  <2>1. SUFFICES ASSUME StagedInv, TagsRoute, AllStaged PROVE Filled(grid, Routes)
    BY DEF StagedHalosFilled
  <2>2. grid \in StagedGrids /\ Routes = Intended(grid)
    BY <2>1 DEF StagedInv, StageInv, TagsRoute
  <2> QED
    BY <2>2 DEF StagesCover
<1> QED
  BY <1>1, StagedInvariant, TagsStayRouted, PTL
=============================================================================
