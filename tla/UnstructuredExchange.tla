----------------------- MODULE UnstructuredExchange ------------------------
(***************************************************************************)
(* Exchanges over unstructured patterns, with two kinds of communication   *)
(* object.  The in-place receive object (style "inplace") has one message  *)
(* for each halo and field, received straight into the field; one object   *)
(* serves all domains of a rank.  The first communication object ("copy")  *)
(* belongs to one pattern; all fields share a message for each halo, which *)
(* wait unpacks.                                                           *)
(***************************************************************************)
EXTENDS UnstructuredPattern

CONSTANTS
  Passed,    \* Passed[style][k]: the fields that the k-th exchange is called with
  MaxRounds  \* bound: exchanges of a rank

VARIABLES
  style,
  buffering,       \* a send completes at once, or with its receive
  opc,         \* "idle", or where a rank is in exchange or wait
  object,      \* the domain whose object a rank works on ("copy")
  round,       \* exchanges that a rank has begun
  memory,      \* fields: one value for each vertex and level
  recv_memory, \* where the in-place object receives, kept between exchanges
  posted,      \* receives posted and not completed
  buffers,     \* receive buffers ("copy"): the message, by domain and entry
  net          \* messages sent and not delivered, for each pair of ranks

xvars == <<style, buffering, opc, object, round, memory, recv_memory, posted, buffers, net>>

Fields == UNION {ToSet(Passed[s][k]) : s \in DOMAIN Passed, k \in 1 .. MaxRounds}
Levels == mesh.levels
Stale  == <<>>

(* data_descriptor: the levels of a vertex lie next to each other.         *)
Index(v, level) == (v * Levels) + level

Get(values, indices) ==
  FlattenSeq([k \in DOMAIN indices |-> [l \in 1 .. Levels |-> values[Index(indices[k], l - 1)]]])
Set(values, indices, data) ==
  [i \in DOMAIN values |->
     IF \E k \in DOMAIN indices : i \div Levels = indices[k]
     THEN data[Index((CHOOSE k \in DOMAIN indices : i \div Levels = indices[k]) - 1, i % Levels) + 1]
     ELSE values[i]]

(* The rank computes the inner vertices of the fields it will exchange.    *)
Computed(r, k) ==
  [p \in DOMAIN patterns[r] |-> [f \in Fields |->
     LET d == patterns[r][p].domain
     IN  [i \in 0 .. (Len(d.vertices) * Levels) - 1 |->
            IF i \div Levels < d.inner_size /\ f \in ToSet(Passed[style][k])
            THEN <<d.vertices[(i \div Levels) + 1], i % Levels, f, k>>
            ELSE IF k = 1 THEN Stale ELSE memory[r][p][f][i]]]]

----------------------------------------------------------------------------
ExchangeInit ==
  /\ style \in DOMAIN Passed
  /\ buffering \in BOOLEAN
  /\ \* objects of one rank exchange one after the other: sends of the first
     \* to the second must not wait for it
     style = "copy" => buffering \/ \A r \in MeshRanks : Len(mesh.domains[r]) = 1
  /\ opc = [r \in MeshRanks |-> "idle"]
  /\ object = [r \in MeshRanks |-> 1]
  /\ round = [r \in MeshRanks |-> 0]
  /\ memory = [r \in MeshRanks |-> <<>>]
  /\ recv_memory = [r \in MeshRanks |-> <<>>]
  /\ posted = [r \in MeshRanks |-> {}]
  /\ buffers = [r \in MeshRanks |-> <<>>]
  /\ net = [s \in MeshRanks, r \in MeshRanks |-> <<>>]

(* The messages to q in the order of tags: those of one pair differ in     *)
(* their tags, by which MPI matches them.                                  *)
Outgoing(messages, q) ==
  SetToSortSeq({m \in messages : m.to = q}, LAMBDA m, n : m.tag < n.tag)
Sending(r, messages) ==
  [e \in DOMAIN net |-> IF e[1] = r THEN net[e] \o Outgoing(messages, e[2]) ELSE net[e]]

\* Mutant of TagOffset: all fields have the same tags.
TagOffsetNone(i) == i - i

(* Tags of the fields of one domain start above those of the field before. *)
TagOffset(i) == (i - 1) * (MaxTag + 1)

(* exchange of the in-place object: for each domain, field and halo the    *)
(* place to receive is what an earlier exchange has entered under the pair *)
(* of domains and the tag, or the field at the first index of the halo.    *)
ExchangeInPlace(r) ==
  LET fields == Passed[style][round[r] + 1]
      mem == Computed(r, round[r] + 1)
      of(side) == UNION {{<<p, i, e>> : i \in DOMAIN fields, e \in patterns[r][p][side]} :
                         p \in DOMAIN patterns[r]}
      key(x) == <<patterns[r][x[1]].domain.id, x[3].id, x[3].tag + TagOffset(x[2])>>
      fresh == {x \in of("recv") : key(x) \notin DOMAIN recv_memory[r]}
      kept == recv_memory[r] @@ [k \in {key(x) : x \in fresh} |->
                LET x == CHOOSE x \in fresh : key(x) = k
                IN  [domain |-> x[1], field |-> fields[x[2]], first |-> Index(x[3].indices[1], 0)]]
  IN  /\ style = "inplace" /\ opc[r] = "idle" /\ patterns[r] # <<>> /\ round[r] < MaxRounds
      /\ memory' = [memory EXCEPT ![r] = mem]
      /\ recv_memory' = [recv_memory EXCEPT ![r] = kept]
      /\ posted' = [posted EXCEPT ![r] =
           {[from |-> x[3].rank, tag |-> key(x)[3], into |-> kept[key(x)]] : x \in of("recv")}]
      /\ net' = Sending(r, {[to |-> x[3].rank, tag |-> x[3].tag + TagOffset(x[2]),
                             data |-> Get(mem[x[1]][fields[x[2]]], x[3].indices)] : x \in of("send")})
      /\ round' = [round EXCEPT ![r] = @ + 1]
      /\ opc' = [opc EXCEPT ![r] = "wait"]
      /\ UNCHANGED <<style, buffering, object, buffers>>

SendsDone(r) == buffering \/ \A q \in MeshRanks : net[r, q] = <<>>

(* handle.wait: receives, then sends, then clear.                          *)
WaitInPlace(r) ==
  /\ style = "inplace" /\ opc[r] = "wait"
  /\ posted[r] = {} /\ SendsDone(r)
  /\ opc' = [opc EXCEPT ![r] = "idle"]
  /\ UNCHANGED <<style, buffering, object, round, memory, recv_memory, posted, buffers, net>>

(* exchange of the first communication object of one domain: receives and  *)
(* sends are posted ...                                                    *)
ExchangeCopy(r) ==
  LET p == object[r]
      k == IF p = 1 THEN round[r] + 1 ELSE round[r]
      mem == IF p = 1 THEN Computed(r, k) ELSE memory[r]
      fields == Passed[style][k]
  IN  /\ style = "copy" /\ patterns[r] # <<>>
      /\ \/ opc[r] = "idle" /\ round[r] < MaxRounds
         \/ opc[r] = "exchange"
      /\ memory' = [memory EXCEPT ![r] = mem]
      /\ posted' = [posted EXCEPT ![r] = @ \cup
           {[from |-> e.rank, tag |-> e.tag, into |-> <<p, e>>] : e \in patterns[r][p].recv}]
      /\ net' = Sending(r, {[to |-> e.rank, tag |-> e.tag,
                             data |-> FlattenSeq([i \in DOMAIN fields |-> Get(mem[p][fields[i]], e.indices)])] :
                            e \in patterns[r][p].send})
      /\ round' = [round EXCEPT ![r] = k]
      /\ opc' = [opc EXCEPT ![r] = "sends"]
      /\ UNCHANGED <<style, buffering, object, recv_memory, buffers>>

(* ... and it waits for the sends before it returns the handle.            *)
SendWait(r) ==
  LET last == object[r] = Len(patterns[r])
  IN  /\ opc[r] = "sends" /\ SendsDone(r)
      /\ object' = [object EXCEPT ![r] = IF last THEN 1 ELSE @ + 1]
      /\ opc' = [opc EXCEPT ![r] = IF last THEN "wait" ELSE "exchange"]
      /\ UNCHANGED <<style, buffering, round, memory, recv_memory, posted, buffers, net>>

(* handle.wait: each message is unpacked into all fields when it is there. *)
WaitCopy(r) ==
  LET p == object[r]
      last == p = Len(patterns[r])
      fields == Passed[style][round[r]]
      unpack(values, i) ==
        FoldSet(LAMBDA e, v : LET n == Len(e.indices) * Levels
                              IN  Set(v, e.indices, SubSeq(buffers[r][<<p, e>>], ((i - 1) * n) + 1, i * n)),
                values, patterns[r][p].recv)
  IN  /\ style = "copy" /\ opc[r] = "wait"
      /\ \A x \in posted[r] : x.into[1] # p
      /\ memory' = [memory EXCEPT ![r][p] = [f \in Fields |->
           IF f \in ToSet(fields) THEN unpack(@[f], CHOOSE i \in DOMAIN fields : fields[i] = f) ELSE @[f]]]
      /\ object' = [object EXCEPT ![r] = IF last THEN 1 ELSE p + 1]
      /\ opc' = [opc EXCEPT ![r] = IF last THEN "idle" ELSE "wait"]
      /\ UNCHANGED <<style, buffering, round, recv_memory, posted, buffers, net>>

(* MPI matches the first message with the tag of a receive; it is written  *)
(* where the receive was posted, from there on.                            *)
Deliver(r) ==
  \E x \in posted[r] : \E n \in DOMAIN net[x.from, r] :
    LET queue == net[x.from, r]
        data == queue[n].data
    IN  /\ queue[n].tag = x.tag
        /\ \A m \in 1 .. n - 1 : queue[m].tag # x.tag
        /\ net' = [net EXCEPT ![x.from, r] = RemoveAt(queue, n)]
        /\ posted' = [posted EXCEPT ![r] = @ \ {x}]
        /\ IF style = "inplace"
           THEN /\ memory' = [memory EXCEPT ![r][x.into.domain][x.into.field] =
                     [i \in DOMAIN @ |-> IF i \in x.into.first .. x.into.first + Len(data) - 1
                                         THEN data[i - x.into.first + 1] ELSE @[i]]]
                /\ UNCHANGED buffers
           ELSE /\ buffers' = [buffers EXCEPT ![r] = (x.into :> data) @@ @]
                /\ UNCHANGED memory
        /\ UNCHANGED <<style, buffering, opc, object, round, recv_memory>>

ExchangeStep(r) == \/ ExchangeInPlace(r) \/ WaitInPlace(r)
                   \/ ExchangeCopy(r) \/ SendWait(r) \/ WaitCopy(r) \/ Deliver(r)

MeshInit == UnstructuredInit /\ ExchangeInit

MeshStep(r) == /\ r \in MeshRanks
               /\ \/ UnstructuredStep(r) /\ UNCHANGED xvars
                  \/ ExchangeStep(r) /\ UNCHANGED uvars

(* The operating system runs every rank and MPI delivers.                  *)
AllMeshRanks == UNION {DOMAIN m.domains : m \in Meshes}
MeshSpec == MeshInit /\ [][\E r \in AllMeshRanks : MeshStep(r)]_<<uvars, xvars>>
                     /\ \A r \in AllMeshRanks : WF_<<uvars, xvars>>(MeshStep(r))

----------------------------------------------------------------------------
(* When wait returns, every place of the halos of every field that was     *)
(* exchanged holds, at every level, what its owner computed for this round *)
(* of exchanges; although neighbors may be a round ahead, their messages   *)
(* land in the halo of no earlier round, nor in another field.             *)
UnstructuredHaloFresh ==
  \A r \in MeshRanks : opc[r] = "idle" /\ round[r] > 0 =>
    \A p \in DOMAIN patterns[r] : \A f \in ToSet(Passed[style][round[r]]) :
      LET d == patterns[r][p].domain
      IN  \A v \in d.inner_size .. Len(d.vertices) - 1 : \A l \in 0 .. Levels - 1 :
            memory[r][p][f][Index(v, l)] = <<d.vertices[v + 1], l, f, round[r]>>

(* All ranks get their patterns and complete all their exchanges.          *)
ExchangesReturn == <>(Constructed /\ \A r \in MeshRanks : opc[r] = "idle" /\ round[r] = MaxRounds)
=============================================================================
