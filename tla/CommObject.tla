----------------------------- MODULE CommObject -----------------------------
(***************************************************************************)
(* The communication objects of communication_object_2.hpp on every thread *)
(* of every rank, with the buffers they keep between exchanges, the tag    *)
(* map they build in each, packing and unpacking (packer.hpp), and an MPI  *)
(* library that matches messages by source rank, destination rank and tag, *)
(* in the order of the calls.                                              *)
(*                                                                         *)
(* A field on a domain is an instance <<f, d>>.  Its content is the number *)
(* of exchanges it has been in, so that old data always differs from new.  *)
(* A pair <<d, s>> stands for the halo of domain d that is filled from     *)
(* domain s; it is also the domain_id_pair that names the buffers at both  *)
(* ends.  Every pair of a pattern holds at least one element.              *)
(***************************************************************************)
EXTENDS Naturals, Sequences, FiniteSets, SequencesExt

CONSTANTS
  Threads, RankOf,  \* RankOf[t]: the MPI rank thread t belongs to
  Domains, OwnerOf, \* OwnerOf[d]: the thread that exchanges domain d
  Patterns,
  HalosOf,          \* HalosOf[q]: the pairs of pattern q
  TagOf,            \* TagOf[q][p]: the tag of pair p in pattern q
  MaxTagOf,         \* MaxTagOf[q]: max_tag() of pattern q
  Fields,
  PatternOf,        \* PatternOf[f]: the pattern field f is bound to
  COs,              \* the communication objects
  ThreadOf,         \* ThreadOf[c]: the thread that uses c
  Program,          \* Program[t]: the calls of exchange that t makes, each a
                    \* record of the object and its sequence of instances
  MaxCalls,         \* bound: the length of the longest program
  TagUB             \* the largest tag of the MPI library (MPI_TAG_UB)

Pairs == UNION {HalosOf[q] : q \in Patterns}
\* The fields on the domains of their patterns.
Instances == {i \in Fields \X Domains : \E p \in HalosOf[PatternOf[i[1]]] : i[2] \in {p[1], p[2]}}

Receiver(p) == OwnerOf[p[1]]
Sender(p) == OwnerOf[p[2]]

\* The tags a structured pattern hands out (structured/pattern.hpp:331-368).
TagAssumption ==
  \A q \in Patterns : \A p \in HalosOf[q] :
    /\ TagOf[q][p] \in 0 .. MaxTagOf[q]
    /\ \A r \in HalosOf[q] :
         /\ RankOf[Receiver(p)] = RankOf[Receiver(r)]
         /\ RankOf[Sender(p)] = RankOf[Sender(r)]
         /\ TagOf[q][p] = TagOf[q][r]
         => p = r

ASSUME TagAssumption
ASSUME TypeAssumption ==
  /\ IsFiniteSet(Domains) /\ IsFiniteSet(Patterns)
  /\ \A d \in Domains : OwnerOf[d] \in Threads
  /\ \A q \in Patterns : HalosOf[q] \subseteq Domains \X Domains /\ MaxTagOf[q] \in Nat
  /\ \A f \in Fields : PatternOf[f] \in Patterns
  /\ \A c \in COs : ThreadOf[c] \in Threads
  /\ \A t \in Threads : \E c \in COs : ThreadOf[c] = t
  /\ MaxCalls \in Nat /\ TagUB \in Nat
ASSUME ProgramAssumption ==
  \A t \in Threads : /\ Program[t] \in Seq([co : {c \in COs : ThreadOf[c] = t},
                                            args : Seq({i \in Instances : OwnerOf[i[2]] = t})])
                     /\ Len(Program[t]) <= MaxCalls

VARIABLES
  pc,             \* pc[t]: t runs the program, packs in exchange or waits in wait
  call,           \* call[t]: calls of exchange that t has made
  current,        \* current[t]: the object t is packing or waiting for
  todo,           \* todo[t]: the send buffers t has not packed yet
  m_valid,        \* the objects with m_valid set
  recv_memory,    \* recv_memory[c][p]: the receive buffer of c for p
  send_memory,    \* send_memory[c][p]: the send buffer of c for p
  m_recv_futures, \* the receives <<c, p>> that have not been unpacked
  m_send_futures, \* the sends <<c, p>> that are not complete
  posted,         \* MPI: posted[k]: the receives on channel k without a message
  chan,           \* MPI: chan[k]: the messages on channel k without a receive
  halo,           \* halo[f][p]: the content of halo p of field f
  started,        \* history: exchanges an instance has started
  completed       \* history: exchanges of an instance that were waited for

buffers == <<recv_memory, send_memory>>
futures == <<m_recv_futures, m_send_futures>>
mpi == <<posted, chan>>
history == <<started, completed>>
vars == <<pc, call, current, todo, m_valid, buffers, futures, mpi, halo, history>>

Tags == 0 .. TagUB
Ranks == {RankOf[t] : t \in Threads}
Channels == Ranks \X Ranks \X Tags
Channel(p, tag) == <<RankOf[Sender(p)], RankOf[Receiver(p)], tag>>

\* What one exchange of instance i has: i and the number of the exchange.
Data == [of : Fields \X Domains, round : Nat]
Content(i, n) == [of |-> i, round |-> n]

Empty == [tag |-> 0, field_infos |-> << >>, data |-> << >>]
Buffers == [tag : Tags, field_infos : Seq(Fields), data : Seq(Data)]

TypeOK == /\ pc \in [Threads -> {"program", "pack", "wait"}]
          /\ call \in [Threads -> 0 .. MaxCalls]
          /\ current \in [Threads -> COs]
          /\ todo \in [Threads -> SUBSET Pairs]
          /\ m_valid \subseteq COs
          /\ recv_memory \in [COs -> [Pairs -> Buffers]]
          /\ send_memory \in [COs -> [Pairs -> Buffers]]
          /\ m_recv_futures \subseteq COs \X Pairs
          /\ m_send_futures \subseteq COs \X Pairs
          /\ posted \in [Channels -> Seq(COs \X Pairs)]
          /\ chan \in [Channels -> Seq([from : COs \X Pairs, data : Seq(Data)])]
          /\ \A f \in Fields : halo[f] \in [HalosOf[PatternOf[f]] -> Data]
          /\ started \in [Instances -> Nat]
          /\ completed \in [Instances -> Nat]
-----------------------------------------------------------------------------
Init == /\ pc = [t \in Threads |-> "program"]
        /\ call = [t \in Threads |-> 0]
        /\ current = [t \in Threads |-> CHOOSE c \in COs : ThreadOf[c] = t]
        /\ todo = [t \in Threads |-> {}]
        /\ m_valid = {}
        /\ recv_memory = [c \in COs |-> [p \in Pairs |-> Empty]]
        /\ send_memory = [c \in COs |-> [p \in Pairs |-> Empty]]
        /\ m_recv_futures = {}
        /\ m_send_futures = {}
        /\ posted = [k \in Channels |-> << >>]
        /\ chan = [k \in Channels |-> << >>]
        /\ halo = [f \in Fields |-> [p \in HalosOf[PatternOf[f]] |-> Content(<<f, p[2]>>, 0)]]
        /\ started = [i \in Instances |-> 0]
        /\ completed = [i \in Instances |-> 0]
-----------------------------------------------------------------------------
(* exchange_impl *)

\* max_tag after the first j instances of a call: a pattern that was not
\* passed before takes MaxTagOf[q] + 1 tags.
TagSums(args) ==
  LET pattern(j) == PatternOf[args[j][1]]
      sum[j \in 0 .. Len(args)] ==
        IF j = 0 THEN 0
        ELSE IF \E l \in 1 .. j - 1 : pattern(l) = pattern(j) THEN sum[j - 1]
        ELSE sum[j - 1] + MaxTagOf[pattern(j)] + 1
  IN  sum

First(args, q) == CHOOSE j \in DOMAIN args :
                    /\ PatternOf[args[j][1]] = q
                    /\ \A l \in 1 .. j - 1 : PatternOf[args[l][1]] # q

\* Mutant of TagOffset: the tag map is not used.
NoTagOffset(args, q) == 0

\* The tag map: a pattern comes after those passed before it.
TagOffset(args, q) == TagSums(args)[First(args, q) - 1]

\* MPI has a tag for every message of a call.
ASSUME TagUBAssumption ==
  \A t \in Threads : \A n \in DOMAIN Program[t] : \A j \in DOMAIN Program[t][n].args :
    LET q == PatternOf[Program[t][n].args[j][1]]
    IN  TagOffset(Program[t][n].args, q) + MaxTagOf[q] <= TagUB

\* The fields that a call packs into, or unpacks from, the buffer of pair p,
\* in the order they are passed; side is 1 for receive, 2 for send buffers.
Infos(p, side, args) ==
  LET infos[j \in 0 .. Len(args)] ==
        IF j = 0 THEN << >>
        ELSE IF args[j][2] = p[side] /\ p \in HalosOf[PatternOf[args[j][1]]]
             THEN Append(infos[j - 1], args[j][1])
        ELSE infos[j - 1]
  IN  infos[Len(args)]

\* The buffer of pair p after all instances of the call have been allocated
\* in it.
Allocated(buffer, p, side, args) ==
  LET infos == Infos(p, side, args)
      q == PatternOf[Head(infos)]
  IN  IF infos = << >> THEN buffer
      ELSE [buffer EXCEPT
             !.tag = IF buffer.field_infos = << >> THEN TagOf[q][p] + TagOffset(args, q) ELSE @,
             !.field_infos = @ \o infos]

InUse(memory) == {p \in Pairs : memory[p].field_infos # << >>}

\* exchange up to packing.  It throws, and changes nothing, when an earlier
\* exchange of the object has not been waited for.
Exchange(t) ==
  /\ pc[t] = "program"
  /\ call[t] < Len(Program[t])
  /\ LET c == Program[t][call[t] + 1].co
         args == Program[t][call[t] + 1].args
         recvs == [p \in Pairs |-> Allocated(recv_memory[c][p], p, 1, args)]
         sends == [p \in Pairs |-> Allocated(send_memory[c][p], p, 2, args)]
         on(k) == {<<c, p>> : p \in {p \in InUse(recvs) : Channel(p, recvs[p].tag) = k}}
     IN  /\ c \notin m_valid
         /\ m_valid' = m_valid \cup {c}
         /\ current' = [current EXCEPT ![t] = c]
         /\ recv_memory' = [recv_memory EXCEPT ![c] = recvs]
         /\ send_memory' = [send_memory EXCEPT ![c] = sends]
         /\ m_recv_futures' = m_recv_futures \cup ({c} \X InUse(recvs))
         /\ posted' = [k \in Channels |-> posted[k] \o SetToSeq(on(k))]
         /\ todo' = [todo EXCEPT ![t] = InUse(sends)]
         /\ started' = [i \in Instances |-> IF i \in Range(args) THEN started[i] + 1
                                                                 ELSE started[i]]
  /\ call' = [call EXCEPT ![t] = @ + 1]
  /\ pc' = [pc EXCEPT ![t] = "pack"]
  /\ UNCHANGED <<m_send_futures, chan, halo, completed>>

\* pack: a buffer is filled and sent; on GPUs in the order in which the
\* kernels finish.
Pack(t, p) ==
  LET c == current[t]
      buffer == send_memory[c][p]
      k == Channel(p, buffer.tag)
      data == [j \in DOMAIN buffer.field_infos |->
                 LET i == <<buffer.field_infos[j], p[2]>> IN Content(i, started[i])]
  IN  /\ pc[t] = "pack"
      /\ p \in todo[t]
      /\ todo' = [todo EXCEPT ![t] = @ \ {p}]
      /\ m_send_futures' = m_send_futures \cup {<<c, p>>}
      /\ chan' = [chan EXCEPT ![k] = Append(@, [from |-> <<c, p>>, data |-> data])]
      /\ UNCHANGED <<pc, call, current, m_valid, buffers, m_recv_futures, posted, halo, history>>

ExchangeReturns(t) ==
  /\ pc[t] = "pack"
  /\ todo[t] = {}
  /\ pc' = [pc EXCEPT ![t] = "program"]
  /\ UNCHANGED <<call, current, todo, m_valid, buffers, futures, mpi, halo, history>>
-----------------------------------------------------------------------------
(* wait *)

\* wait returns at once when the object is not valid.
WaitStart(t, c) ==
  /\ pc[t] = "program"
  /\ ThreadOf[c] = t
  /\ c \in m_valid
  /\ current' = [current EXCEPT ![t] = c]
  /\ pc' = [pc EXCEPT ![t] = "wait"]
  /\ UNCHANGED <<call, todo, m_valid, buffers, futures, mpi, halo, history>>

Unpacked(c, p) ==
  LET buffer == recv_memory[c][p]
      item(f) == buffer.data[CHOOSE j \in DOMAIN buffer.field_infos : buffer.field_infos[j] = f]
  IN  [f \in Fields |-> IF f \in Range(buffer.field_infos)
                          THEN [halo[f] EXCEPT ![p] = item(f)] ELSE halo[f]]

\* Mutant of Unpack: the future is not tested.
UnpackUntested(t, p) ==
  LET c == current[t]
  IN  /\ pc[t] = "wait"
      /\ <<c, p>> \in m_recv_futures
      /\ halo' = IF recv_memory[c][p].data # << >> THEN Unpacked(c, p) ELSE halo
      /\ m_recv_futures' = m_recv_futures \ {<<c, p>>}
      /\ UNCHANGED <<pc, call, current, todo, m_valid, buffers, m_send_futures, mpi, history>>

\* await_futures: a message has arrived and is unpacked.
Unpack(t, p) ==
  LET c == current[t]
  IN  /\ pc[t] = "wait"
      /\ <<c, p>> \in m_recv_futures
      /\ recv_memory[c][p].data # << >>
      /\ halo' = Unpacked(c, p)
      /\ m_recv_futures' = m_recv_futures \ {<<c, p>>}
      /\ UNCHANGED <<pc, call, current, todo, m_valid, buffers, m_send_futures, mpi, history>>

Cleared(buffer) == [buffer EXCEPT !.field_infos = << >>, !.data = << >>]

\* The last call of exchange that t made with object c.
LastCall(t, c) == CHOOSE n \in 1 .. call[t] :
                    /\ Program[t][n].co = c
                    /\ \A m \in n + 1 .. call[t] : Program[t][m].co # c

\* Mutant of WaitReturns: clear() is called with receives outstanding.
WaitReturnsAfterSends(t) ==
  LET c == current[t]
  IN  /\ pc[t] = "wait"
      /\ \A p \in Pairs : <<c, p>> \notin m_send_futures
      /\ m_valid' = m_valid \ {c}
      /\ recv_memory' = [recv_memory EXCEPT ![c] = [p \in Pairs |-> Cleared(@[p])]]
      /\ send_memory' = [send_memory EXCEPT ![c] = [p \in Pairs |-> Cleared(@[p])]]
      /\ m_recv_futures' = {r \in m_recv_futures : r[1] # c}
      /\ completed' = [i \in Instances |-> IF i \in Range(Program[t][LastCall(t, c)].args)
                                              THEN started[i] ELSE completed[i]]
      /\ pc' = [pc EXCEPT ![t] = "program"]
      /\ UNCHANGED <<call, current, todo, m_send_futures, mpi, halo, started>>

\* Mutant of WaitReturns: clear() leaves m_valid set.
WaitReturnsStaysValid(t) ==
  LET c == current[t]
  IN  /\ pc[t] = "wait"
      /\ \A p \in Pairs : <<c, p>> \notin m_recv_futures \cup m_send_futures
      /\ recv_memory' = [recv_memory EXCEPT ![c] = [p \in Pairs |-> Cleared(@[p])]]
      /\ send_memory' = [send_memory EXCEPT ![c] = [p \in Pairs |-> Cleared(@[p])]]
      /\ completed' = [i \in Instances |-> IF i \in Range(Program[t][LastCall(t, c)].args)
                                              THEN started[i] ELSE completed[i]]
      /\ pc' = [pc EXCEPT ![t] = "program"]
      /\ UNCHANGED <<call, current, todo, m_valid, futures, mpi, halo, started>>

\* All is received and sent: clear().
WaitReturns(t) ==
  LET c == current[t]
  IN  /\ pc[t] = "wait"
      /\ \A p \in Pairs : <<c, p>> \notin m_recv_futures \cup m_send_futures
      /\ m_valid' = m_valid \ {c}
      /\ recv_memory' = [recv_memory EXCEPT ![c] = [p \in Pairs |-> Cleared(@[p])]]
      /\ send_memory' = [send_memory EXCEPT ![c] = [p \in Pairs |-> Cleared(@[p])]]
      /\ completed' = [i \in Instances |-> IF i \in Range(Program[t][LastCall(t, c)].args)
                                              THEN started[i] ELSE completed[i]]
      /\ pc' = [pc EXCEPT ![t] = "program"]
      /\ UNCHANGED <<call, current, todo, futures, mpi, halo, started>>
-----------------------------------------------------------------------------
(* The MPI library *)

\* The first message on a channel goes to the first receive.
Match(k) ==
  /\ posted[k] # << >>
  /\ chan[k] # << >>
  /\ LET to == Head(posted[k])
     IN  recv_memory' = [recv_memory EXCEPT ![to[1]][to[2]].data = Head(chan[k]).data]
  /\ m_send_futures' = m_send_futures \ {Head(chan[k]).from}
  /\ posted' = [posted EXCEPT ![k] = Tail(@)]
  /\ chan' = [chan EXCEPT ![k] = Tail(@)]
  /\ UNCHANGED <<pc, call, current, todo, m_valid, send_memory, m_recv_futures, halo, history>>

\* A send may complete before its message is received.
SendBuffered(c, p) ==
  /\ \E k \in Channels : \E j \in DOMAIN chan[k] : chan[k][j].from = <<c, p>>
  /\ <<c, p>> \in m_send_futures
  /\ m_send_futures' = m_send_futures \ {<<c, p>>}
  /\ UNCHANGED <<pc, call, current, todo, m_valid, buffers, m_recv_futures, mpi, halo, history>>
-----------------------------------------------------------------------------
Step(t) == \/ ExchangeReturns(t) \/ WaitReturns(t)
           \/ \E c \in COs : WaitStart(t, c)
           \/ \E p \in Pairs : Pack(t, p) \/ Unpack(t, p)
           \/ Exchange(t)

\* All calls made and waited for: the program is over.
Finished == /\ \A t \in Threads : pc[t] = "program" /\ call[t] = Len(Program[t])
            /\ m_valid = {}
            /\ UNCHANGED vars

Next == \/ \E t \in Threads : Step(t)
        \/ \E k \in Channels : Match(k)
        \/ \E c \in COs, p \in Pairs : SendBuffered(c, p)
        \/ Finished

\* Threads are scheduled and wait for what they have started; MPI delivers.
Fairness == /\ \A t \in Threads : WF_vars(Step(t))
            /\ \A k \in Channels : WF_vars(Match(k))

Spec == Init /\ [][Next]_vars /\ Fairness
-----------------------------------------------------------------------------
(* What programs agree on *)

\* What has to hold of the programs for the exchanges to fit: each rank
\* exchanges on one thread, the calls of the threads go together, with the
\* fields of the buffers at both ends of a pair in the same order and the
\* same patterns before them, and no instance is in the calls of two objects.
ProgramsFit ==
  /\ \A s, t \in Threads : /\ RankOf[s] = RankOf[t] => s = t
                           /\ Len(Program[s]) = Len(Program[t])
  /\ \A p \in Pairs : \A n \in DOMAIN Program[Receiver(p)] :
       LET here == Program[Receiver(p)][n].args
           there == Program[Sender(p)][n].args
           infos == Infos(p, 1, here)
       IN  /\ infos = Infos(p, 2, there)
           /\ \A j \in DOMAIN infos : LET q == PatternOf[infos[j]]
                                      IN  TagOffset(here, q) = TagOffset(there, q)
  /\ \A t \in Threads : \A m, n \in DOMAIN Program[t] :
       Range(Program[t][m].args) \cap Range(Program[t][n].args) # {}
         => Program[t][m].co = Program[t][n].co
-----------------------------------------------------------------------------
(* Safety *)

\* A receive is matched by the message for the same pair of domains, packed
\* with the same fields in the same order: the tags, the tag map and the
\* order of the calls keep domains, objects and patterns apart
\* (structured/pattern.hpp:331-332, communication_object_2.hpp:436-447).
MessagesMatch ==
  \A k \in Channels : \A j \in DOMAIN posted[k] \cap DOMAIN chan[k] :
    LET to == posted[k][j]
        message == chan[k][j]
    IN  /\ to[2] = message.from[2]
        /\ [l \in DOMAIN message.data |-> message.data[l].of[1]]
             = recv_memory[to[1]][to[2]].field_infos

\* When the exchange of an instance has been waited for, each of its halos
\* holds the data that the neighbour packed in its exchange of the same
\* number (communication_object_2.hpp:526-551).
HaloFresh ==
  \A i \in Instances : completed[i] = started[i] /\ started[i] > 0 =>
    \A p \in HalosOf[PatternOf[i[1]]] :
      p[1] = i[2] => halo[i[1]][p] = Content(<<i[1], p[2]>>, completed[i])

(* Liveness *)

\* Every exchange that is started is over at some time, on every thread, with
\* any number of objects and calls open in between.
AllExchangesComplete == <>(\A t \in Threads : call[t] = Len(Program[t]) /\ pc[t] = "program")
                        /\ <>[](m_valid = {})
-----------------------------------------------------------------------------
\* Instances are the parties of the abstract exchange, their halos its links.
H == INSTANCE HaloExchange
     WITH COs <- Instances,
          Links <- {l \in Fields \X Pairs : l[2] \in HalosOf[PatternOf[l[1]]]},
          Src <- [l \in Fields \X Pairs |-> <<l[1], l[2][2]>>],
          Dst <- [l \in Fields \X Pairs |-> <<l[1], l[2][1]>>],
          MaxRound <- MaxCalls,
          filled <- [l \in {l \in Fields \X Pairs : l[2] \in HalosOf[PatternOf[l[1]]]} |->
                       halo[l[1]][l[2]].round]

\* The rounds of instances are those of the abstract exchange.
ImplementsHaloRounds == H!Init /\ [][H!Next]_(H!vars)
=============================================================================
