----------------------------- MODULE GpuExchange -----------------------------
(***************************************************************************)
(* Exchanges of fields on devices (communication_object_2.hpp, packer.hpp  *)
(* for gpu): every buffer has a stream, kernels that pack and unpack run   *)
(* asynchronously in its order, a message is sent when the event behind    *)
(* its kernels is ready, and wait returns when the streams of the received *)
(* buffers have drained.  A send completes when MPI has taken the message  *)
(* from its buffer: into one of MPI's own, before there is a receive, or   *)
(* into that of the receive.  The ways through the code differ in who      *)
(* unpacks and in how many blocks a kernel moves:                          *)
(*   "plain"  exchange and wait                                            *)
(*   "u"      exchange_u of a range of fields of one type, wait_u_gpu      *)
(*   "fat", "u_fat"  the same with GHEX_COMM_OBJ_USE_FAT_CALLBACKS: the    *)
(*            callback of the receive unpacks                              *)
(* The program's own kernels on a field have ended when it is exchanged.   *)
(***************************************************************************)
EXTENDS Integers, Sequences, FiniteSets

CONSTANTS Exchanges,  \* [variant, messages]; a message is [from, to, blocks], blocks of its fields
          GpuRounds   \* bound: exchanges of a rank

VARIABLES ex,        \* the exchange of this behaviour
          host,      \* host[r]: where rank r is
          grounds,   \* grounds[r]: the exchanges it has started
          computed,  \* computed[r]: the round of the data in the inner part of its field
          send_mem,  \* send_memory: send_mem[m][b] is the round of block b in the buffer of message m
          recv_mem,  \* recv_memory
          filled,    \* filled[m][b]: the round of block b in the halo that message m fills
          streams,   \* streams[m].send, .recv: what the device has to do for the two buffers
          packing,   \* stream_futures: the messages that are not sent yet
          flying,    \* the messages sent and not completed
          buffered,  \* buffered[m]: what MPI has of message m and has not delivered, oldest first
          arrived,   \* the messages received and not unpacked
          unpacked   \* the messages for whose unpacking kernels have been launched

gvars == <<ex, host, grounds, computed, send_mem, recv_mem, filled, streams, packing, flying, buffered, arrived, unpacked>>

\* Two neighbors.
GpuRanks == 0 .. 1

ASSUME ExchangesType ==
  \A e \in Exchanges : \A m \in DOMAIN e.messages :
    /\ e.messages[m].from \in GpuRanks /\ e.messages[m].to \in GpuRanks
    /\ e.messages[m].blocks \in Nat \ {0}

Messages == DOMAIN ex.messages
SentBy(r) == {m \in Messages : ex.messages[m].from = r}
ReceivedBy(r) == {m \in Messages : ex.messages[m].to = r}

Batched == [pack |-> {"u", "u_fat"}, unpack |-> {"u"}]
Callbacks == ex.variant \in {"fat", "u_fat"}

----------------------------------------------------------------------------
\* Kernels.

MaxArgs == 34

\* What fits the smallest argument type that is chosen for n blocks.
Capacity(n) == IF n < 7 THEN 6 ELSE IF n < 13 THEN 12 ELSE IF n < 25 THEN 24 ELSE MaxArgs

\* pack_u and unpack_u: kernels of MaxArgs blocks until no more are left over
\* than fit another one.
Batches(n) ==
  [k \in 1 .. (n + MaxArgs - 1) \div MaxArgs |->
     MaxArgs * (k - 1) + 1 .. IF k * MaxArgs < n THEN k * MaxArgs ELSE n]

\* Else a kernel moves one block.
Kernels(dir, n) == IF ex.variant \in Batched[dir] THEN Batches(n) ELSE [k \in 1 .. n |-> k .. k]

\* make_kernel_arg throws if the argument type is too small.
Fit(kernels) == \A k \in DOMAIN kernels : Cardinality(kernels[k]) <= Capacity(Cardinality(kernels[k]))

----------------------------------------------------------------------------
Zero(m) == [b \in 1 .. ex.messages[m].blocks |-> 0]

GpuInit ==
  /\ ex \in Exchanges
  /\ host = [r \in GpuRanks |-> "compute"]
  /\ grounds = [r \in GpuRanks |-> 0]
  /\ computed = [r \in GpuRanks |-> 0]
  /\ send_mem = [m \in Messages |-> Zero(m)] /\ recv_mem = send_mem /\ filled = send_mem
  /\ streams = [m \in Messages |-> [send |-> <<>>, recv |-> <<>>]]
  /\ buffered = [m \in Messages |-> <<>>]
  /\ packing = {} /\ flying = {} /\ arrived = {} /\ unpacked = {}

\* The program computes, before an exchange and as soon as it has returned.
ComputeInner(r) ==
  /\ host[r] \in {"compute", "open"} /\ computed[r] = grounds[r] /\ grounds[r] < GpuRounds
  /\ computed' = [computed EXCEPT ![r] = @ + 1]
  /\ UNCHANGED <<ex, host, grounds, send_mem, recv_mem, filled, streams, packing, flying, buffered, arrived, unpacked>>

\* exchange: the receives are posted, ...
PostRecvs(r) ==
  /\ host[r] = "compute" /\ computed[r] = grounds[r] + 1
  /\ host' = [host EXCEPT ![r] = "posting"]
  /\ grounds' = [grounds EXCEPT ![r] = @ + 1]
  /\ unpacked' = unpacked \ ReceivedBy(r)
  /\ UNCHANGED <<ex, computed, send_mem, recv_mem, filled, streams, packing, flying, buffered, arrived>>

\* ... then the kernels that pack launched, and events recorded behind them.
\* After a throw the exchange is not finished.
LaunchPack(r) ==
  /\ host[r] = "posting"
  /\ host' = [host EXCEPT ![r] =
       IF \E m \in SentBy(r) : ~Fit(Kernels("pack", ex.messages[m].blocks)) THEN "thrown"
       ELSE IF SentBy(r) = {} THEN "open" ELSE "packing"]
  /\ streams' = [m \in Messages |->
       IF m \in SentBy(r)
       THEN [streams[m] EXCEPT !.send = @ \o Append(Kernels("pack", ex.messages[m].blocks), {})]
       ELSE streams[m]]
  /\ packing' = packing \cup SentBy(r)
  /\ UNCHANGED <<ex, grounds, computed, send_mem, recv_mem, filled, flying, buffered, arrived, unpacked>>

\* An event is the empty set of blocks.
Ready(m) == \A k \in DOMAIN streams[m].send : streams[m].send[k] # {}

\* await_futures of the events; exchange returns when all messages are sent.
SendPacked(m) ==
  LET r == ex.messages[m].from
  IN  /\ host[r] = "packing" /\ m \in packing /\ Ready(m)
      /\ packing' = packing \ {m}
      /\ flying' = flying \cup {m}
      /\ host' = [host EXCEPT ![r] = IF SentBy(r) \cap packing = {m} THEN "open" ELSE @]
      /\ UNCHANGED <<ex, grounds, computed, send_mem, recv_mem, filled, streams, buffered, arrived, unpacked>>

\* The device runs the next kernel of a stream.
RunPack(m) ==
  /\ streams[m].send # <<>>
  /\ send_mem' = [send_mem EXCEPT ![m] =
       [b \in DOMAIN @ |-> IF b \in Head(streams[m].send) THEN computed[ex.messages[m].from] ELSE @[b]]]
  /\ streams' = [streams EXCEPT ![m].send = Tail(@)]
  /\ UNCHANGED <<ex, host, grounds, computed, recv_mem, filled, packing, flying, buffered, arrived, unpacked>>
RunUnpack(m) ==
  /\ streams[m].recv # <<>>
  /\ filled' = [filled EXCEPT ![m] =
       [b \in DOMAIN @ |-> IF b \in Head(streams[m].recv) THEN recv_mem[m][b] ELSE @[b]]]
  /\ streams' = [streams EXCEPT ![m].recv = Tail(@)]
  /\ UNCHANGED <<ex, host, grounds, computed, send_mem, recv_mem, packing, flying, buffered, arrived, unpacked>>

\* MPI may copy a message before it is expected, and the send is complete.
BufferSend(m) ==
  /\ m \in flying
  /\ buffered' = [buffered EXCEPT ![m] = Append(@, send_mem[m])]
  /\ flying' = flying \ {m}
  /\ UNCHANGED <<ex, host, grounds, computed, send_mem, recv_mem, filled, streams, packing, arrived, unpacked>>

\* A posted receive gets the oldest message for it: from MPI's buffer, or else
\* from that of the sender, as it is at that time.
Posted(m) == LET r == ex.messages[m].to IN host[r] # "compute" /\ m \notin arrived \cup unpacked
DeliverBuffered(m) ==
  /\ Posted(m) /\ buffered[m] # <<>>
  /\ recv_mem' = [recv_mem EXCEPT ![m] = Head(buffered[m])]
  /\ buffered' = [buffered EXCEPT ![m] = Tail(@)]
  /\ arrived' = arrived \cup {m}
  /\ UNCHANGED <<ex, host, grounds, computed, send_mem, filled, streams, packing, flying, unpacked>>
Transmit(m) ==
  /\ Posted(m) /\ buffered[m] = <<>> /\ m \in flying
  /\ recv_mem' = [recv_mem EXCEPT ![m] = send_mem[m]]
  /\ flying' = flying \ {m}
  /\ arrived' = arrived \cup {m}
  /\ UNCHANGED <<ex, host, grounds, computed, send_mem, filled, streams, packing, buffered, unpacked>>

\* handle.wait is called.
CallWait(r) ==
  /\ host[r] = "open"
  /\ host' = [host EXCEPT ![r] = "waiting"]
  /\ UNCHANGED <<ex, grounds, computed, send_mem, recv_mem, filled, streams, packing, flying, buffered, arrived, unpacked>>

\* An arrived message is unpacked in wait; by callbacks as soon as its receive
\* is posted, and whenever somebody lets the communicator progress.
LaunchUnpack(m) ==
  LET r == ex.messages[m].to
      kernels == Kernels("unpack", ex.messages[m].blocks)
  IN  /\ m \in arrived
      /\ host[r] = "waiting" \/ (Callbacks /\ host[r] # "thrown")
      /\ host' = [host EXCEPT ![r] = IF Fit(kernels) THEN @ ELSE "thrown"]
      /\ streams' = [streams EXCEPT ![m].recv = @ \o kernels]
      /\ arrived' = arrived \ {m}
      /\ unpacked' = unpacked \cup {m}
      /\ UNCHANGED <<ex, grounds, computed, send_mem, recv_mem, filled, packing, flying, buffered>>

\* wait awaits its sends before it synchronizes, wait_u_gpu after it.
NextOf(at) ==
  LET order == IF ex.variant = "u" THEN <<"waiting", "syncing", "sending", "compute">>
               ELSE <<"waiting", "sending", "syncing", "compute">>
  IN  order[(CHOOSE k \in 1 .. 3 : order[k] = at) + 1]

WaitPasses(r) ==
  /\ host' = [host EXCEPT ![r] = NextOf(@)]
  /\ UNCHANGED <<ex, grounds, computed, send_mem, recv_mem, filled, streams, packing, flying, buffered, arrived, unpacked>>
AllUnpacked(r) == host[r] = "waiting" /\ ReceivedBy(r) \subseteq unpacked /\ WaitPasses(r)
AwaitSends(r) == host[r] = "sending" /\ SentBy(r) \cap flying = {} /\ WaitPasses(r)

\* Mutant of Synchronize: there is nothing to wait for.
SynchronizeNone(r) == host[r] = "syncing" /\ WaitPasses(r)

Synchronize(r) == host[r] = "syncing" /\ (\A m \in ReceivedBy(r) : streams[m].recv = <<>>) /\ WaitPasses(r)

GpuNext ==
  \/ \E r \in GpuRanks : \/ ComputeInner(r) \/ PostRecvs(r) \/ LaunchPack(r) \/ CallWait(r)
                         \/ AllUnpacked(r) \/ AwaitSends(r) \/ Synchronize(r)
  \/ \E m \in Messages : \/ SendPacked(m) \/ RunPack(m) \/ BufferSend(m)
                         \/ DeliverBuffered(m) \/ Transmit(m) \/ LaunchUnpack(m) \/ RunUnpack(m)

GpuSpec == GpuInit /\ [][GpuNext]_gvars

----------------------------------------------------------------------------
(***************************************************************************)
(* When wait returns from the n-th exchange, each block of each halo holds *)
(* what the neighbor had computed when it called its n-th, although the    *)
(* kernels run behind the back of both, the message is read when MPI likes *)
(* and the neighbor may have gone on to compute, or be exchanges ahead     *)
(* (packer.hpp:127-396, communication_object_2.hpp:515-568); and no number *)
(* of blocks makes a kernel argument throw (kernel_argument.hpp:21-42).    *)
(***************************************************************************)
GpuHalosFresh ==
  /\ \A r \in DOMAIN host : host[r] # "thrown"
  /\ \A m \in Messages :
       LET r == ex.messages[m].to
       IN  host[r] = "compute" => \A b \in DOMAIN filled[m] : filled[m][b] = grounds[r]
=============================================================================
