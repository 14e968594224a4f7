------------------------- MODULE StructuredPattern -------------------------
(***************************************************************************)
(* Construction of the patterns of a structured grid on all ranks: each    *)
(* rank learns of all domains, intersects its halos with them, numbers the *)
(* tags of what it will receive and tells each sender, in turns of one     *)
(* rank after the other, what to send.                                     *)
(***************************************************************************)
EXTENDS GridRanks

CONSTANT Grids   \* the domains of each rank with a halo generator

\* Ranks are numbered from zero; finitely many domains with ids that are unique
\* and of a type with a total order (doc_src/scope/scope.rst:272).
ASSUME GridsType ==
  \A g \in Grids :
    /\ IsFiniteSet(RanksOf(g)) /\ RanksOf(g) = 0 .. Cardinality(RanksOf(g)) - 1
    /\ IsFiniteSet(AllDomains(g))
    /\ \A e \in AllDomains(g) : e[2] \in Int /\ DomainAt(g, e).id \in Int
    /\ \A d, e \in AllDomains(g) : DomainAt(g, d).id = DomainAt(g, e).id => d = e

VARIABLES
  turn,
  entered,    \* all_gathers that a rank has entered
  recv_map, send_map,   \* for each rank and its domains
  send_halos_map,       \* for each rank and the ranks that send to it
  max_tag,
  announced,  \* what the root of each turn has broadcast
  outbox,     \* messages the root has still to send
  pending     \* messages a receiver still expects from the root

config == <<grid, eager>>
pvars == <<config, pc, turn, entered, recv_map, send_map, send_halos_map, max_tag,
           announced, outbox, pending, chan>>

NotYet  == {-1}
Unknown == -1

----------------------------------------------------------------------------
Named(r, id) == CHOOSE i \in DOMAIN domains[r] : domains[r][i].id = id

(* The halos of domain d that lie in domain e, in the order they are       *)
(* generated, and the receive halos of d under the ids of their senders.   *)
Parts(g, d, e) ==
  LET halos == GenerateHalos(g, DomainAt(g, d))
      part(h) == IntersectHalo(g, DomainAt(g, d), h, DomainAt(g, e))
      kept == SelectSeq(halos, LAMBDA h : Leq(part(h).global.first, part(h).global.last))
  IN  [n \in DOMAIN kept |-> part(kept[n])]
RecvHalos(g, d) ==
  LET named(id) == CHOOSE e \in AllDomains(g) : DomainAt(g, e).id = id
  IN  [id \in {DomainAt(g, e).id : e \in {e \in AllDomains(g) : Parts(g, d, e) # <<>>}} |->
         [rank |-> named(id)[1], tag |-> 0, spaces |-> Parts(g, d, named(id))]]
Received ==
  [g \in Grids |-> [r \in RanksOf(g) |-> [i \in DOMAIN g.domains[r] |-> RecvHalos(g, <<r, i>>)]]]

(* Tags count what one rank sends to r, over the patterns of r and, within *)
(* one, over the ids of the senders.                                       *)
ReceivedFrom(r, q) ==
  UNION {{<<i, id>> : id \in {k \in DOMAIN recv_map[r][i] : recv_map[r][i][k].rank = q}} :
         i \in DOMAIN recv_map[r]}
\* Mutant of TagOf: each pattern starts its tags at zero.
TagOfPattern(r, i, id) ==
  Cardinality({e \in ReceivedFrom(r, recv_map[r][i][id].rank) : e[1] = i /\ e[2] < id})

TagOf(r, i, id) ==
  Cardinality({e \in ReceivedFrom(r, recv_map[r][i][id].rank) :
                 e[1] < i \/ (e[1] = i /\ e[2] < id)})

(* A receive halo in the local coordinates of the domain that sends it.    *)
Translate(dom, spaces) ==
  [n \in DOMAIN spaces |->
     Pair(Box(Minus(spaces[n].global.first, dom.first), Minus(spaces[n].global.last, dom.first)),
          spaces[n].global)]

(* send_halos_map: what rank q has to send to r, for each of its domains   *)
(* under the id of the receiving domain and the tag.                       *)
Peers(r) == {q \in Ranks : ReceivedFrom(r, q) # {}}
SendHalos(r, q) ==
  LET wanted == ReceivedFrom(r, q)
      key(w) == <<domains[r][w[1]].id, recv_map[r][w[1]][w[2]].tag>>
  IN  [id \in {w[2] : w \in wanted} |->
         [k \in {key(w) : w \in {v \in wanted : v[2] = id}} |->
            Translate(domains[q][Named(q, id)], recv_map[r][Named(r, k[1])][id].spaces)]]

\* Mutant of Insert: what the pattern has from other ranks is lost.
InsertReplaces(map, r, id, halos) == [map EXCEPT ![Named(r, id)] = halos]

(* Adds send halos to the pattern of the domain they are for.              *)
Insert(map, r, id, halos) ==
  [map EXCEPT ![Named(r, id)] =
     [key \in DOMAIN @ \cup DOMAIN halos |->
        IF key \notin DOMAIN halos THEN @[key]
        ELSE IF key \in DOMAIN @ THEN @[key] \o halos[key] ELSE halos[key]]]

(* What a root sends after its broadcasts: to each peer the number of its  *)
(* domains, and then for one peer after the other the halos of each.       *)
Outbox(r) ==
  LET peers == Ascending(DOMAIN send_halos_map[r] \ {r})
      counts == [n \in DOMAIN peers |->
                   [dest |-> peers[n], body |-> Cardinality(DOMAIN send_halos_map[r][peers[n]])]]
      halosFor(q) ==
        LET all == send_halos_map[r][q]
            ids == Ascending(DOMAIN all)
        IN  [n \in DOMAIN ids |-> [dest |-> q, body |-> [id |-> ids[n], halos |-> all[ids[n]]]]]
  IN  counts \o FlattenSeq([n \in DOMAIN peers |-> halosFor(peers[n])])

----------------------------------------------------------------------------
PatternInit ==
  /\ grid \in Grids
  /\ eager \in BOOLEAN
  /\ pc = [r \in Ranks |-> "domains"]
  /\ turn = [r \in Ranks |-> 0]
  /\ entered = [r \in Ranks |-> 0]
  /\ recv_map = [r \in Ranks |-> <<>>]
  /\ send_map = [r \in Ranks |-> [i \in DOMAIN domains[r] |-> <<>>]]
  /\ send_halos_map = [r \in Ranks |-> <<>>]
  /\ max_tag = [r \in Ranks |-> 0]
  /\ announced = [r \in Ranks |-> NotYet]
  /\ outbox = [r \in Ranks |-> <<>>]
  /\ pending = [r \in Ranks |-> Unknown]
  /\ chan = [p \in Ranks \X Ranks |-> <<>>]

(* An all_gather returns on a rank when all ranks have entered it.         *)
Gathered(n) == \A q \in Ranks : entered[q] >= n

GatherDomains(r) ==
  /\ pc[r] = "domains"
  /\ entered' = [entered EXCEPT ![r] = 1]
  /\ pc' = [pc EXCEPT ![r] = "halos"]
  /\ UNCHANGED <<config, turn, recv_map, send_map, send_halos_map, max_tag, announced, outbox, pending, chan>>

FindHalos(r) ==
  /\ pc[r] = "halos" /\ Gathered(1)
  /\ recv_map' = [recv_map EXCEPT ![r] = Received[grid][r]]
  /\ pc' = [pc EXCEPT ![r] = "number"]
  /\ UNCHANGED <<config, turn, entered, send_map, send_halos_map, max_tag, announced, outbox, pending, chan>>

NumberTags(r) ==
  /\ pc[r] = "number"
  /\ recv_map' = [recv_map EXCEPT ![r] =
                    [i \in DOMAIN @ |-> [id \in DOMAIN @[i] |-> [@[i][id] EXCEPT !.tag = TagOf(r, i, id)]]]]
  /\ max_tag' = [max_tag EXCEPT ![r] = Max({0} \cup {Cardinality(ReceivedFrom(r, q)) - 1 : q \in Ranks})]
  /\ entered' = [entered EXCEPT ![r] = 2]
  /\ pc' = [pc EXCEPT ![r] = "tags"]
  /\ UNCHANGED <<config, turn, send_map, send_halos_map, announced, outbox, pending, chan>>

(* The largest tag anywhere, and the receive halos as send halos.          *)
GatherTags(r) ==
  /\ pc[r] = "tags" /\ Gathered(2)
  /\ max_tag' = [max_tag EXCEPT ![r] = Max({max_tag[q] : q \in Ranks})]
  /\ send_halos_map' = [send_halos_map EXCEPT ![r] = [q \in Peers(r) |-> SendHalos(r, q)]]
  /\ pc' = [pc EXCEPT ![r] = "own"]
  /\ UNCHANGED <<config, turn, entered, recv_map, send_map, announced, outbox, pending, chan>>

(* What a rank sends to itself needs no message.                           *)
KeepOwn(r) ==
  /\ pc[r] = "own"
  /\ IF r \in DOMAIN send_halos_map[r]
     THEN LET own == send_halos_map[r][r]
              of(i) == domains[r][i].id
          IN  send_map' = [send_map EXCEPT ![r] =
                             [i \in DOMAIN @ |-> IF of(i) \in DOMAIN own THEN own[of(i)] ELSE @[i]]]
     ELSE send_map' = send_map
  /\ pc' = [pc EXCEPT ![r] = "turn"]
  /\ UNCHANGED <<config, turn, entered, recv_map, send_halos_map, max_tag, announced, outbox, pending, chan>>

(* The root of a turn broadcasts the ranks that it will send to.           *)
Announce(r) ==
  /\ pc[r] = "turn" /\ turn[r] = r
  /\ eager \/ \A q \in Ranks : pc[q] = "turn" /\ turn[q] = r
  /\ announced' = [announced EXCEPT ![r] = DOMAIN send_halos_map[r] \ {r}]
  /\ outbox' = [outbox EXCEPT ![r] = Outbox(r)]
  /\ pc' = [pc EXCEPT ![r] = "send"]
  /\ UNCHANGED <<config, turn, entered, recv_map, send_map, send_halos_map, max_tag, pending, chan>>

(* A blocking send: MPI may need the receiver to be there.                 *)
Send(r) ==
  /\ pc[r] = "send" /\ outbox[r] # <<>>
  /\ LET q == Head(outbox[r]).dest
     IN  /\ eager \/ (pc[q] = "recv" /\ turn[q] = r /\ chan[<<r, q>>] = <<>>)
         /\ chan' = [chan EXCEPT ![<<r, q>>] = Append(@, Head(outbox[r]).body)]
  /\ outbox' = [outbox EXCEPT ![r] = Tail(@)]
  /\ UNCHANGED <<config, pc, turn, entered, recv_map, send_map, send_halos_map, max_tag, announced, pending>>

EndTurn(r) ==
  /\ pc[r] = "send" /\ outbox[r] = <<>>
  /\ turn' = [turn EXCEPT ![r] = @ + 1]
  /\ pc' = [pc EXCEPT ![r] = "turn"]
  /\ UNCHANGED <<config, entered, recv_map, send_map, send_halos_map, max_tag, announced, outbox, pending, chan>>

\* Mutant of Hear: a rank receives whether the root has something for it or not.
HearAnything(r) ==
  LET root == turn[r]
  IN  /\ pc[r] = "turn" /\ root \in Ranks \ {r}
      /\ announced[root] # NotYet
      /\ pc' = [pc EXCEPT ![r] = "recv"]
      /\ UNCHANGED <<config, turn, entered, recv_map, send_map, send_halos_map, max_tag, announced, outbox, pending, chan>>

(* The other ranks hear whether the root has something for them.           *)
Hear(r) ==
  LET root == turn[r]
  IN  /\ pc[r] = "turn" /\ root \in Ranks \ {r}
      /\ announced[root] # NotYet
      /\ IF r \in announced[root]
         THEN pc' = [pc EXCEPT ![r] = "recv"] /\ turn' = turn
         ELSE turn' = [turn EXCEPT ![r] = @ + 1] /\ pc' = pc
      /\ UNCHANGED <<config, entered, recv_map, send_map, send_halos_map, max_tag, announced, outbox, pending, chan>>

(* The first message is the number of domains, each other one the halos of *)
(* a domain; after the last one the turn is over.                          *)
Recv(r) ==
  LET root == turn[r]
      rest == IF pending[r] = Unknown THEN Head(chan[<<root, r>>]) ELSE pending[r] - 1
  IN  /\ pc[r] = "recv"
      /\ chan[<<root, r>>] # <<>>
      /\ chan' = [chan EXCEPT ![<<root, r>>] = Tail(@)]
      /\ IF pending[r] = Unknown
         THEN send_map' = send_map
         ELSE LET m == Head(chan[<<root, r>>])
              IN  send_map' = [send_map EXCEPT ![r] = Insert(@, r, m.id, m.halos)]
      /\ pending' = [pending EXCEPT ![r] = IF rest = 0 THEN Unknown ELSE rest]
      /\ turn' = [turn EXCEPT ![r] = IF rest = 0 THEN @ + 1 ELSE @]
      /\ pc' = [pc EXCEPT ![r] = IF rest = 0 THEN "turn" ELSE @]
      /\ UNCHANGED <<config, entered, recv_map, send_halos_map, max_tag, announced, outbox>>

(* The patterns go into their container with the largest tag.              *)
Finish(r) ==
  /\ pc[r] = "turn" /\ turn[r] = Cardinality(Ranks)
  /\ pc' = [pc EXCEPT ![r] = "made"]
  /\ UNCHANGED <<config, turn, entered, recv_map, send_map, send_halos_map, max_tag, announced, outbox, pending, chan>>

PatternStep(r) ==
  \/ GatherDomains(r) \/ FindHalos(r) \/ NumberTags(r) \/ GatherTags(r) \/ KeepOwn(r)
  \/ Announce(r) \/ Send(r) \/ EndTurn(r) \/ Hear(r) \/ Recv(r) \/ Finish(r)

PatternNext == \E r \in Ranks : PatternStep(r)

(* The operating system runs every rank.                                   *)
PatternSpec == PatternInit /\ [][PatternNext]_pvars
                           /\ \A r \in 0 .. MaxRanks - 1 : WF_pvars(r \in Ranks /\ PatternStep(r))

----------------------------------------------------------------------------
Made == \A r \in Ranks : pc[r] = "made"

(* The message for the receive halo `spaces` of dom, filled by the sender  *)
(* with its cells `sent`, writes cell x of dom if the two fit: the sender  *)
(* with the cell it is taken from.                                         *)
Taken(g, dom, id, spaces, sent, x) ==
  {<<id, Plus(sent[n].local.first, Minus(UnpackedFrom(g, dom, spaces[n], x), spaces[n].global.first))>> :
     n \in {m \in DOMAIN spaces : Inside(x, spaces[m].local)
                                 /\ Size(sent[m].local) = Size(spaces[m].local)}}

(* What writes cell x of domain i of r; what fills a receive halo is found *)
(* in the send halos of its rank under the same id and tag.                *)
Sources(r, i, x) ==
  UNION {LET e == recv_map[r][i][id]
             q == e.rank
         IN  Taken(grid, domains[r][i], id, e.spaces,
                   send_map[q][Named(q, id)][<<domains[r][i].id, e.tag>>], x) :
         id \in DOMAIN recv_map[r][i]}

(* The domain that has the cell at x, and the cell there.                  *)
Owner(g, d, x) ==
  LET cell == CellAt(g, DomainAt(g, d), x)
  IN  {<<DomainAt(g, o).id, Minus(cell, DomainAt(g, o).first)>> :
         o \in {o \in AllDomains(g) : Inside(cell, DomainAt(g, o))}}

(* What has to hold of the halo generator: the receive halos of a domain,  *)
(* had the sender the cells of each under its own coordinates, take every  *)
(* cell from its owner.                                                    *)
HalosCover(g) ==
  \A d \in AllDomains(g) : \A x \in CellsAround(g, DomainAt(g, d)) :
    UNION {LET e == Received[g][d[1]][d[2]][id]
               from == CHOOSE o \in AllDomains(g) : DomainAt(g, o).id = id
           IN  Taken(g, DomainAt(g, d), id, e.spaces, Translate(DomainAt(g, from), e.spaces), x) :
           id \in DOMAIN Received[g][d[1]][d[2]]}
      = Owner(g, d, x)

(* Every cell of the halo of every domain is received exactly once, from   *)
(* the domain that owns it and from the cell it is there, with send and    *)
(* receive halos in the same order on both ranks; cells out of the grid    *)
(* are not received.                                                       *)
HalosReachOwners ==
  Made => \A d \in AllDomains(grid) : \A x \in CellsAround(grid, DomainAt(grid, d)) :
            Sources(d[1], d[2], x) = Owner(grid, d, x)

(* Each domain has a send halo for every receive halo that names it and    *)
(* for no other: under the id of the receiving domain and its tag, with    *)
(* the same cells.  Otherwise one of two ranks waits for a message that    *)
(* the other does not send.                                                *)
HalosPaired ==
  Made =>
    \A d \in AllDomains(grid) :
      LET dom == DomainAt(grid, d)
          halo(e) == recv_map[e[1]][e[2]][dom.id]
          key(e) == <<DomainAt(grid, e).id, halo(e).tag>>
          from == {e \in AllDomains(grid) : dom.id \in DOMAIN recv_map[e[1]][e[2]]}
          send == send_map[d[1]][d[2]]
      IN  /\ DOMAIN send = {key(e) : e \in from}
          /\ \A e \in from : halo(e).rank = d[1] /\ send[key(e)] = Translate(dom, halo(e).spaces)

(* No two messages between the same ranks have the same tag, and all ranks *)
(* agree on a bound of the tags, by which the communication object keeps   *)
(* its patterns apart.                                                     *)
TagsDisambiguate ==
  Made =>
    /\ \A r, q \in Ranks : max_tag[r] = max_tag[q]
    /\ \A r, q \in Ranks :
         /\ \A a, b \in ReceivedFrom(r, q) :
              recv_map[r][a[1]][a[2]].tag = recv_map[r][b[1]][b[2]].tag => a = b
         /\ \A a \in ReceivedFrom(r, q) : recv_map[r][a[1]][a[2]].tag \in 0 .. max_tag[r]
=============================================================================
