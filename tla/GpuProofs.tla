------------------------------ MODULE GpuProofs ------------------------------
EXTENDS GpuExchange, TLAPS, SequenceTheorems, FiniteSetTheorems

(***************************************************************************)
(* Kernels.                                                                *)
(***************************************************************************)

\* A kernel of s moves block b.
Covers(s, b) == \E k \in DOMAIN s : b \in s[k]

\* The kernels of one buffer (packer.hpp:127-396) move each of its blocks.
LEMMA KernelsCover ==
  ASSUME NEW dir, NEW n \in Nat
  PROVE  /\ Kernels(dir, n) \in Seq(SUBSET Nat)
         /\ \A b \in 1 .. n : Covers(Kernels(dir, n), b)
<1>1. CASE ex.variant \in Batched[dir]
  <2>1. Kernels(dir, n) = Batches(n)
    BY <1>1 DEF Kernels
  <2> DEFINE size == (n + 34 - 1) \div 34
             kernel(k) == 34 * (k - 1) + 1 .. IF k * 34 < n THEN k * 34 ELSE n
  <2>2. size \in Nat /\ n <= 34 * size
    OBVIOUS
  <2>3. Batches(n) = [k \in 1 .. size |-> kernel(k)]
    BY DEF Batches, MaxArgs
  <2>4. \A k \in 1 .. size : kernel(k) \in SUBSET Nat
    OBVIOUS
  <2>5. Batches(n) \in Seq(SUBSET Nat)
    BY <2>2, <2>3, <2>4
  <2>6. ASSUME NEW b \in 1 .. n PROVE Covers(Batches(n), b)
    <3>1. PICK k \in Nat : k = (b - 1) \div 34 + 1
      OBVIOUS
    <3>2. k \in 1 .. size /\ 34 * (k - 1) + 1 <= b /\ b <= k * 34
      BY <3>1, <2>2
    <3>3. b \in kernel(k)
      BY <3>2
    <3> HIDE DEF size, kernel
    <3>4. QED
      BY <3>2, <3>3, <2>3 DEF Covers
  <2>7. QED
    BY <2>1, <2>5, <2>6
<1>2. CASE ex.variant \notin Batched[dir]
  <2>1. Kernels(dir, n) = [k \in 1 .. n |-> k .. k]
    BY <1>2 DEF Kernels
  <2>2. [k \in 1 .. n |-> k .. k] \in Seq(SUBSET Nat)
    OBVIOUS
  <2>3. ASSUME NEW b \in 1 .. n PROVE b \in [k \in 1 .. n |-> k .. k][b]
    OBVIOUS
  <2>4. QED
    BY <2>1, <2>2, <2>3 DEF Covers
<1>3. QED
  BY <1>1, <1>2

\* No number of blocks is too large for the kernel argument chosen for it
\* (kernel_argument.hpp:21-42).
LEMMA KernelsFit ==
  ASSUME NEW dir, NEW n \in Nat
  PROVE  Fit(Kernels(dir, n))
<1> DEFINE kernel(k) == 34 * (k - 1) + 1 .. IF k * 34 < n THEN k * 34 ELSE n
<1>1. \A c \in 0 .. 34 : c <= Capacity(c)
  BY DEF Capacity, MaxArgs
<1>2. CASE ex.variant \in Batched[dir]
  <2> DEFINE size == (n + 34 - 1) \div 34
  <2>1. Kernels(dir, n) = [k \in 1 .. size |-> kernel(k)]
    BY <1>2 DEF Kernels, Batches, MaxArgs
  <2>2. ASSUME NEW k \in 1 .. size PROVE Cardinality(kernel(k)) \in 0 .. 34
    <3>1. PICK a \in Int, b \in Int : kernel(k) = a .. b /\ b <= a + 33
      <4>1. k * 34 < n \/ n <= k * 34
        OBVIOUS
      <4>2. QED
        BY <4>1
    <3>2. Cardinality(a .. b) = IF a > b THEN 0 ELSE b - a + 1
      BY FS_Interval
    <3>3. b <= a + 33
      BY <3>1
    <3> HIDE DEF size, kernel
    <3>4. PICK c : c = Cardinality(a .. b)
      OBVIOUS
    <3>5. CASE a > b
      <4>1. c = 0
        BY <3>2, <3>4, <3>5
      <4>2. QED
        BY <3>1, <3>4, <4>1
    <3>6. CASE ~(a > b)
      <4>1. c = b - a + 1
        BY <3>2, <3>4, <3>6
      <4>2. b - a + 1 \in 0 .. 34
        BY <3>3, <3>6
      <4>3. QED
        BY <3>1, <3>4, <4>1, <4>2
    <3>7. QED
      BY <3>5, <3>6
  <2> HIDE DEF size, kernel
  <2>3. ASSUME NEW k \in DOMAIN Kernels(dir, n)
        PROVE  Cardinality(Kernels(dir, n)[k]) <= Capacity(Cardinality(Kernels(dir, n)[k]))
    <3>1. k \in 1 .. size /\ Kernels(dir, n)[k] = kernel(k)
      BY <2>1
    <3>2. PICK c : c = Cardinality(kernel(k))
      OBVIOUS
    <3>3. c <= Capacity(c)
      BY <3>1, <3>2, <1>1, <2>2
    <3>4. QED
      BY <3>1, <3>2, <3>3
  <2>4. QED
    BY <2>3 DEF Fit
<1>3. CASE ex.variant \notin Batched[dir]
  <2>1. Kernels(dir, n) = [k \in 1 .. n |-> k .. k]
    BY <1>3 DEF Kernels
  <2>2. ASSUME NEW k \in 1 .. n PROVE Cardinality(k .. k) = 1
    <3>1. k \in Int /\ ~(k > k) /\ k - k + 1 = 1
      OBVIOUS
    <3>2. Cardinality(k .. k) = IF k > k THEN 0 ELSE k - k + 1
      BY <3>1, FS_Interval
    <3>3. QED
      BY <3>1, <3>2
  <2>3. ASSUME NEW k \in DOMAIN Kernels(dir, n)
        PROVE  Cardinality(Kernels(dir, n)[k]) <= Capacity(Cardinality(Kernels(dir, n)[k]))
    <3>1. k \in 1 .. n /\ Kernels(dir, n)[k] = k .. k
      BY <2>1
    <3>2. 1 <= Capacity(1)
      BY <1>1
    <3>3. QED
      BY <3>1, <3>2, <2>2
  <2>4. QED
    BY <2>3 DEF Fit
<1>4. QED
  BY <1>2, <1>3

\* What a stream still moves after its first kernel has run.
LEMMA TailCovers ==
  ASSUME NEW s \in Seq(SUBSET Nat), s # <<>>
  PROVE  /\ Tail(s) \in Seq(SUBSET Nat) /\ Head(s) \in SUBSET Nat
         /\ \A b : Covers(s, b) => b \in Head(s) \/ Covers(Tail(s), b)
         /\ Tail(s) # <<>> => Tail(s)[Len(Tail(s))] = s[Len(s)]
<1>1. Tail(s) \in Seq(SUBSET Nat) /\ Head(s) = s[1] /\ Len(Tail(s)) = Len(s) - 1
  OBVIOUS
<1>2. \A k \in 1 .. Len(s) - 1 : Tail(s)[k] = s[k + 1]
  OBVIOUS
<1>3. DOMAIN s = 1 .. Len(s) /\ DOMAIN Tail(s) = 1 .. Len(s) - 1 /\ Len(s) \in Nat
  BY <1>1
<1>4. ASSUME NEW b, Covers(s, b), b \notin Head(s) PROVE Covers(Tail(s), b)
  <2>1. PICK k \in DOMAIN s : b \in s[k]
    BY <1>4 DEF Covers
  <2>2. k # 1
    BY <2>1, <1>4, <1>1
  <2>3. k - 1 \in 1 .. Len(s) - 1 /\ k - 1 + 1 = k
    BY <2>2, <1>3
  <2>4. b \in Tail(s)[k - 1]
    BY <2>1, <2>3, <1>2
  <2>5. QED
    BY <2>3, <2>4, <1>3 DEF Covers
<1>5. ASSUME Tail(s) # <<>> PROVE Tail(s)[Len(Tail(s))] = s[Len(s)]
  <2>1. Len(s) - 1 \in 1 .. Len(s) - 1
    BY <1>5, <1>1
  <2>2. QED
    BY <2>1, <1>1, <1>2
<1>6. QED
  BY <1>1, <1>4, <1>5

\* What a stream moves after an event has been recorded behind its kernels.
LEMMA AppendCovers ==
  ASSUME NEW s \in Seq(SUBSET Nat)
  PROVE  /\ Append(s, {}) \in Seq(SUBSET Nat)
         /\ Append(s, {})[Len(Append(s, {}))] = {}
         /\ \A b : Covers(s, b) => Covers(Append(s, {}), b)
BY DEF Covers

\* What MPI has of a message, when it takes the next and when it delivers one.
LEMMA QueueSteps ==
  ASSUME NEW S, NEW s \in Seq(S), NEW v \in S
  PROVE  /\ Append(s, v) \in Seq(S) /\ Len(Append(s, v)) = Len(s) + 1
         /\ \A k \in 1 .. Len(s) + 1 : Append(s, v)[k] = IF k = Len(s) + 1 THEN v ELSE s[k]
         /\ s # <<>> => /\ Tail(s) \in Seq(S) /\ Head(s) = s[1] /\ Head(s) \in S
                        /\ Len(s) > 0 /\ Len(Tail(s)) = Len(s) - 1
                        /\ \A k \in 1 .. Len(s) - 1 : Tail(s)[k] = s[k + 1]
OBVIOUS

----------------------------------------------------------------------------
(***************************************************************************)
(* The inductive invariant.                                                *)
(***************************************************************************)
From(m) == ex.messages[m].from
To(m) == ex.messages[m].to
Blocks(m) == 1 .. ex.messages[m].blocks

Hosts == {"compute", "posting", "packing", "open", "waiting", "syncing", "sending"}

GpuTypes ==
  /\ ex \in Exchanges
  /\ host \in [GpuRanks -> Hosts]
  /\ grounds \in [GpuRanks -> Nat] /\ computed \in [GpuRanks -> Nat]
  /\ DOMAIN send_mem = Messages /\ DOMAIN recv_mem = Messages /\ DOMAIN filled = Messages
  /\ \A m \in Messages : /\ send_mem[m] \in [Blocks(m) -> Nat]
                         /\ recv_mem[m] \in [Blocks(m) -> Nat]
                         /\ filled[m] \in [Blocks(m) -> Nat]
  /\ streams \in [Messages -> [send : Seq(SUBSET Nat), recv : Seq(SUBSET Nat)]]
  /\ DOMAIN buffered = Messages
  /\ \A m \in Messages : buffered[m] \in Seq([Blocks(m) -> Nat])
  /\ packing \subseteq Messages /\ flying \subseteq Messages
  /\ arrived \subseteq Messages /\ unpacked \subseteq Messages

\* The stream of a buffer that is packed ends with the event that its message
\* waits for; a block has been packed, or a kernel that packs it is in the
\* stream, and the sender does not compute until its messages are sent.  It
\* does not get to its next exchange while MPI reads one of the buffers.
Packed(m) ==
  /\ m \in packing => host[From(m)] = "packing" /\ m \notin flying
  /\ host[From(m)] \in {"posting", "packing"} => computed[From(m)] = grounds[From(m)]
  /\ m \notin packing => streams[m].send = <<>>
  /\ m \in packing /\ streams[m].send # <<>> => streams[m].send[Len(streams[m].send)] = {}
  /\ m \in packing =>
       \A b \in Blocks(m) : send_mem[m][b] = grounds[From(m)] \/ Covers(streams[m].send, b)
  /\ m \in flying => \A b \in Blocks(m) : send_mem[m][b] = grounds[From(m)]
  /\ host[From(m)] \in {"compute", "posting"} \/ (host[From(m)] = "syncing" /\ ex.variant # "u") => m \notin flying

\* The receive buffer holds the round of the receiver from the arrival of the
\* message to its next exchange; a block of the halo does too, or a kernel that
\* unpacks it is in the stream, which is empty when wait has synchronized.
Got(m) == m \in arrived \cup unpacked
Drained(m) ==
  /\ ~(m \in arrived /\ m \in unpacked)
  /\ host[To(m)] = "compute" => m \notin arrived
  /\ Got(m) => \A b \in Blocks(m) : recv_mem[m][b] = grounds[To(m)]
  /\ m \notin unpacked => streams[m].recv = <<>>
  /\ m \in unpacked =>
       \A b \in Blocks(m) : filled[m][b] = grounds[To(m)] \/ Covers(streams[m].recv, b)
  /\ host[To(m)] \in {"syncing", "sending"} => m \in unpacked
  /\ host[To(m)] = "compute" =>
       m \in unpacked \/ (grounds[To(m)] = 0 /\ \A b \in Blocks(m) : filled[m][b] = 0)
  /\ host[To(m)] = "compute" \/ (host[To(m)] = "sending" /\ ex.variant = "u") => streams[m].recv = <<>>

\* The exchanges that the sender has begun are those of which the receiver has
\* the message, then those MPI has in its buffers, in this order, then at most
\* one whose message is not complete: the sender may be any number ahead.
Expected(m) == host[To(m)] # "compute" /\ ~Got(m)
Taken(m) == IF Expected(m) THEN grounds[To(m)] - 1 ELSE grounds[To(m)]
Unsent(m) == IF host[From(m)] = "posting" \/ m \in packing \/ m \in flying THEN 1 ELSE 0
InOrder(m) ==
  /\ grounds[From(m)] = Taken(m) + Len(buffered[m]) + Unsent(m)
  /\ \A k \in 1 .. Len(buffered[m]) : \A b \in Blocks(m) : buffered[m][k][b] = Taken(m) + k

GpuInv == GpuTypes /\ \A m \in Messages : Packed(m) /\ Drained(m) /\ InOrder(m)

LEMMA MessageTypes ==
  ASSUME GpuTypes, NEW m \in Messages
  PROVE  /\ From(m) \in GpuRanks /\ To(m) \in GpuRanks /\ ex.messages[m].blocks \in Nat
         /\ streams[m] = [send |-> streams[m].send, recv |-> streams[m].recv]
         /\ streams[m] \in [send : Seq(SUBSET Nat), recv : Seq(SUBSET Nat)]
         /\ streams[m].send \in Seq(SUBSET Nat) /\ streams[m].recv \in Seq(SUBSET Nat)
         /\ grounds[From(m)] \in Nat /\ grounds[To(m)] \in Nat /\ computed[From(m)] \in Nat
         /\ buffered[m] \in Seq([Blocks(m) -> Nat]) /\ Len(buffered[m]) \in Nat
         /\ send_mem[m] \in [Blocks(m) -> Nat]
<1>1. From(m) \in GpuRanks /\ To(m) \in GpuRanks /\ ex.messages[m].blocks \in Nat
  BY ExchangesType DEF GpuTypes, Messages, From, To
<1>2. streams[m] \in [send : Seq(SUBSET Nat), recv : Seq(SUBSET Nat)]
  BY DEF GpuTypes
<1>3. grounds[From(m)] \in Nat /\ grounds[To(m)] \in Nat /\ computed[From(m)] \in Nat
  BY <1>1 DEF GpuTypes
<1>4. PICK S : S = [Blocks(m) -> Nat]
  OBVIOUS
<1>5. buffered[m] \in Seq(S) /\ send_mem[m] \in S
  BY <1>4 DEF GpuTypes
<1>6. Len(buffered[m]) \in Nat
  BY <1>5
<1>7. QED
  BY <1>1, <1>2, <1>3, <1>4, <1>5, <1>6

\* A stream of the two that a message has.
LEMMA StreamOf ==
  ASSUME NEW f \in [send : Seq(SUBSET Nat), recv : Seq(SUBSET Nat)], NEW t \in Seq(SUBSET Nat)
  PROVE  /\ [f EXCEPT !.send = t] = [send |-> t, recv |-> f.recv]
         /\ [f EXCEPT !.recv = t] = [send |-> f.send, recv |-> t]
         /\ [f EXCEPT !.send = t] \in [send : Seq(SUBSET Nat), recv : Seq(SUBSET Nat)]
         /\ [f EXCEPT !.recv = t] \in [send : Seq(SUBSET Nat), recv : Seq(SUBSET Nat)]
OBVIOUS

LEMMA OrderKept ==
  ASSUME NEW m, InOrder(m), ex' = ex, buffered' = buffered, grounds'[From(m)] = grounds[From(m)],
         Taken(m)' = Taken(m), Unsent(m)' = Unsent(m)
  PROVE  InOrder(m)'
<1>1. From(m)' = From(m) /\ Blocks(m)' = Blocks(m)
  BY DEF From, Blocks
<1>2. QED
  BY <1>1 DEF InOrder

LEMMA GpuInitial ==
  ASSUME GpuInit PROVE GpuInv
<1>1. GpuTypes
  BY ExchangesType DEF GpuInit, GpuTypes, Zero, Messages, Blocks, Hosts, GpuRanks
<1>2. ASSUME NEW m \in Messages PROVE Packed(m) /\ Drained(m) /\ InOrder(m)
  <2>1. From(m) \in GpuRanks /\ To(m) \in GpuRanks
    BY <1>1, MessageTypes
  <2>2. host[From(m)] = "compute" /\ host[To(m)] = "compute" /\ grounds[From(m)] = 0 /\ grounds[To(m)] = 0
    BY <2>1 DEF GpuInit
  <2>3. streams[m].send = <<>> /\ streams[m].recv = <<>> /\ \A b \in Blocks(m) : filled[m][b] = 0
    BY DEF GpuInit, Zero, Blocks
  <2>4. Packed(m)
    BY <2>2, <2>3 DEF Packed, GpuInit
  <2>5. Drained(m)
    BY <2>2, <2>3 DEF Drained, Got, GpuInit
  <2>6. InOrder(m)
    <3>1. buffered[m] = <<>> /\ Len(buffered[m]) = 0
      BY DEF GpuInit
    <3>2. QED
      BY <2>2, <3>1 DEF InOrder, Taken, Unsent, Expected, Got, GpuInit
  <2>7. QED
    BY <2>4, <2>5, <2>6
<1>3. QED
  BY <1>1, <1>2 DEF GpuInv

----------------------------------------------------------------------------
(***************************************************************************)
(* Steps of the host.                                                      *)
(***************************************************************************)

LEMMA ComputeInnerKeeps ==
  ASSUME GpuInv, NEW r \in GpuRanks, ComputeInner(r) PROVE GpuInv'
<1> USE DEF ComputeInner
<1>1. GpuTypes'
  <2>1. ex' = ex /\ Messages' = Messages
    BY DEF Messages
  <2>2. computed' \in [GpuRanks -> Nat]
    BY DEF GpuInv, GpuTypes
  <2>3. QED
    BY <2>1, <2>2 DEF GpuInv, GpuTypes, Blocks
<1>2. ASSUME NEW m \in Messages PROVE (Packed(m) /\ Drained(m) /\ InOrder(m))'
  <2>1. From(m) \in GpuRanks
    BY MessageTypes DEF GpuInv
  <2>2. Packed(m) /\ Drained(m) /\ InOrder(m)
    BY DEF GpuInv
  <2>3. Packed(m)'
    BY <2>1, <2>2 DEF Packed, From, Blocks, GpuInv, GpuTypes
  <2>4. Drained(m)'
    BY <2>2 DEF Drained, Got, To, Blocks
  <2>5. InOrder(m)'
    BY <2>2, OrderKept DEF Taken, Unsent, Expected, Got, From, To
  <2>6. QED
    BY <2>3, <2>4, <2>5
<1>3. QED
  BY <1>1, <1>2 DEF GpuInv, Messages

LEMMA PostRecvsKeeps ==
  ASSUME GpuInv, NEW r \in GpuRanks, PostRecvs(r) PROVE GpuInv'
<1> USE DEF PostRecvs
<1>1. ex' = ex /\ Messages' = Messages
  BY DEF Messages
<1>2. GpuTypes'
  <2>1. host' \in [GpuRanks -> Hosts] /\ grounds' \in [GpuRanks -> Nat]
    BY DEF GpuInv, GpuTypes, Hosts
  <2>2. unpacked' \subseteq Messages
    BY DEF GpuInv, GpuTypes
  <2>3. QED
    BY <1>1, <2>1, <2>2 DEF GpuInv, GpuTypes, Blocks
<1>3. ASSUME NEW m \in Messages PROVE (Packed(m) /\ Drained(m) /\ InOrder(m))'
  <2>1. From(m) \in GpuRanks /\ To(m) \in GpuRanks /\ grounds[From(m)] \in Nat /\ grounds[To(m)] \in Nat
        /\ Len(buffered[m]) \in Nat
    BY MessageTypes DEF GpuInv
  <2>2. Packed(m) /\ Drained(m) /\ InOrder(m)
    BY DEF GpuInv
  <2>3. From(m)' = From(m) /\ To(m)' = To(m) /\ Blocks(m)' = Blocks(m)
    BY <1>1 DEF From, To, Blocks
  <2>4. /\ host'[From(m)] = IF From(m) = r THEN "posting" ELSE host[From(m)]
        /\ host'[To(m)] = IF To(m) = r THEN "posting" ELSE host[To(m)]
        /\ grounds'[From(m)] = IF From(m) = r THEN grounds[From(m)] + 1 ELSE grounds[From(m)]
        /\ grounds'[To(m)] = IF To(m) = r THEN grounds[To(m)] + 1 ELSE grounds[To(m)]
    BY <2>1 DEF GpuInv, GpuTypes
  <2>5. m \in unpacked' <=> m \in unpacked /\ To(m) # r
    BY DEF ReceivedBy, To
  <2>6. host[r] = "compute" /\ computed' = computed /\ computed[r] = grounds[r] + 1
        /\ UNCHANGED <<streams, send_mem, recv_mem, filled, packing, flying, arrived, buffered>>
    OBVIOUS
  <2>7. From(m) = r => m \notin packing /\ m \notin flying
    BY <2>2, <2>6 DEF Packed
  <2>8. To(m) = r => m \notin arrived
    BY <2>2, <2>6 DEF Drained
  <2>9. Packed(m)'
    BY <1>1, <2>2, <2>3, <2>4, <2>6, <2>7 DEF Packed
  <2>10. Drained(m)'
    <3>1. CASE To(m) = r
      BY <3>1, <1>1, <2>2, <2>3, <2>4, <2>5, <2>6, <2>8 DEF Drained, Got
    <3>2. CASE To(m) # r
      BY <3>2, <1>1, <2>2, <2>3, <2>4, <2>5, <2>6 DEF Drained, Got
    <3>3. QED
      BY <3>1, <3>2
  <2>11. InOrder(m)'
    <3>1. Taken(m)' = Taken(m)
      BY <2>1, <2>2, <2>3, <2>4, <2>5, <2>6, <2>8 DEF Taken, Expected, Got
    <3>2. Unsent(m)' = IF From(m) = r THEN Unsent(m) + 1 ELSE Unsent(m)
      BY <2>3, <2>4, <2>6, <2>7 DEF Unsent
    <3>3. Taken(m) \in Int /\ Unsent(m) \in Int
      BY <2>1 DEF Taken, Unsent
    <3>4. grounds'[From(m)] = Taken(m) + Len(buffered[m]) + Unsent(m)'
      BY <3>2, <3>3, <2>1, <2>2, <2>4 DEF InOrder
    <3>5. QED
      BY <3>1, <3>4, <2>2, <2>3, <2>6 DEF InOrder
  <2>12. QED
    BY <2>9, <2>10, <2>11
<1>4. QED
  BY <1>1, <1>2, <1>3 DEF GpuInv

LEMMA LaunchPackKeeps ==
  ASSUME GpuInv, NEW r \in GpuRanks, LaunchPack(r) PROVE GpuInv'
<1> USE DEF LaunchPack
<1>1. ex' = ex /\ Messages' = Messages
  BY DEF Messages
<1>2. ASSUME NEW m \in Messages, From(m) = r
      PROVE  /\ streams'[m].send \in Seq(SUBSET Nat) /\ streams'[m].send[Len(streams'[m].send)] = {}
             /\ streams'[m] = [send |-> streams'[m].send, recv |-> streams[m].recv]
             /\ \A b \in Blocks(m) : Covers(streams'[m].send, b)
  <2>1. m \notin packing /\ streams[m].send = <<>>
    BY <1>2 DEF GpuInv, Packed
  <2>2. PICK s : s = Kernels("pack", ex.messages[m].blocks)
    OBVIOUS
  <2>3. s \in Seq(SUBSET Nat) /\ \A b \in Blocks(m) : Covers(s, b)
    BY <2>2, MessageTypes, KernelsCover DEF GpuInv, Blocks
  <2>4. <<>> \o Append(s, {}) = Append(s, {})
    BY <2>3, AppendCovers
  <2>5. streams'[m] = [streams[m] EXCEPT !.send = @ \o Append(s, {})]
    BY <1>2, <2>2 DEF SentBy, From
  <2>6. streams'[m].send = Append(s, {}) /\ streams'[m] = [send |-> streams'[m].send, recv |-> streams[m].recv]
    BY <2>1, <2>4, <2>5, MessageTypes DEF GpuInv
  <2>7. QED
    BY <2>3, <2>6, AppendCovers
<1>3. ASSUME NEW m \in Messages, From(m) # r PROVE streams'[m] = streams[m]
  BY <1>3 DEF SentBy, From
<1>4. PICK h : h \in {"packing", "open"} /\ host' = [host EXCEPT ![r] = h] /\ (h = "open" => SentBy(r) = {})
  <2>1. ASSUME NEW m \in SentBy(r) PROVE Fit(Kernels("pack", ex.messages[m].blocks))
    BY KernelsFit, MessageTypes DEF GpuInv, SentBy
  <2>2. CASE SentBy(r) = {}
    BY <2>1, <2>2
  <2>3. CASE SentBy(r) # {}
    <3>1. host' = [host EXCEPT ![r] = "packing"]
      BY <2>1, <2>3
    <3>2. QED
      BY <3>1
  <2>4. QED
    BY <2>2, <2>3
<1>5. GpuTypes'
  <2>1. ASSUME NEW m \in Messages PROVE streams'[m] \in [send : Seq(SUBSET Nat), recv : Seq(SUBSET Nat)]
    <3>1. CASE From(m) = r
      <4>1. PICK f : f = streams'[m]
        OBVIOUS
      <4>2. f.send \in Seq(SUBSET Nat) /\ streams[m].recv \in Seq(SUBSET Nat)
            /\ f = [send |-> f.send, recv |-> streams[m].recv]
        BY <3>1, <4>1, <1>2, MessageTypes DEF GpuInv
      <4>3. QED
        BY <4>1, <4>2
    <3>2. CASE From(m) # r
      BY <3>2, <1>3, MessageTypes DEF GpuInv
    <3>3. QED
      BY <3>1, <3>2
  <2>2. streams' \in [Messages -> [send : Seq(SUBSET Nat), recv : Seq(SUBSET Nat)]]
    BY <2>1
  <2>3. host' \in [GpuRanks -> Hosts]
    BY <1>4 DEF GpuInv, GpuTypes, Hosts
  <2>4. packing' \subseteq Messages
    BY DEF GpuInv, GpuTypes, SentBy
  <2>5. UNCHANGED <<grounds, computed, send_mem, recv_mem, filled, flying, buffered, arrived, unpacked>>
    OBVIOUS
  <2>6. QED
    BY <1>1, <2>2, <2>3, <2>4, <2>5 DEF GpuInv, GpuTypes, Blocks
<1>6. ASSUME NEW m \in Messages PROVE (Packed(m) /\ Drained(m) /\ InOrder(m))'
  <2>1. From(m) \in GpuRanks /\ To(m) \in GpuRanks
    BY MessageTypes DEF GpuInv
  <2>2. Packed(m) /\ Drained(m) /\ InOrder(m)
    BY DEF GpuInv
  <2>3. From(m)' = From(m) /\ To(m)' = To(m) /\ Blocks(m)' = Blocks(m)
    BY <1>1 DEF From, To, Blocks
  <2>4. /\ host'[From(m)] = IF From(m) = r THEN h ELSE host[From(m)]
        /\ host'[To(m)] = IF To(m) = r THEN h ELSE host[To(m)]
    BY <1>4, <2>1 DEF GpuInv, GpuTypes
  <2>5. m \in packing' <=> m \in packing \/ From(m) = r
    BY DEF SentBy, From
  <2>6. streams'[m].recv = streams[m].recv
    BY <1>2, <1>3
  <2>7. host[r] = "posting"
        /\ UNCHANGED <<grounds, computed, send_mem, recv_mem, filled, flying, buffered, arrived, unpacked>>
    OBVIOUS
  <2>8. From(m) = r => h = "packing"
    BY <1>4 DEF SentBy, From
  <2>9. From(m) = r => m \notin packing /\ m \notin flying
    BY <2>2, <2>7 DEF Packed
  <2>10. Packed(m)'
    <3>1. CASE From(m) = r
      BY <3>1, <1>2, <2>2, <2>3, <2>4, <2>5, <2>7, <2>8, <2>9 DEF Packed
    <3>2. CASE From(m) # r
      BY <3>2, <1>1, <1>3, <2>2, <2>3, <2>4, <2>5, <2>7 DEF Packed
    <3>3. QED
      BY <3>1, <3>2
  <2>11. Drained(m)'
    <3>1. CASE To(m) = r
      BY <3>1, <1>1, <1>4, <2>2, <2>3, <2>4, <2>6, <2>7 DEF Drained, Got
    <3>2. CASE To(m) # r
      BY <3>2, <1>1, <2>2, <2>3, <2>4, <2>6, <2>7 DEF Drained, Got
    <3>3. QED
      BY <3>1, <3>2
  <2>12. Taken(m)' = Taken(m)
    BY <1>4, <2>3, <2>4, <2>7 DEF Taken, Expected, Got
  <2>13. Unsent(m)' = Unsent(m)
    BY <2>3, <2>4, <2>5, <2>7, <2>8 DEF Unsent
  <2>14. QED
    BY <1>1, <2>2, <2>7, <2>10, <2>11, <2>12, <2>13, OrderKept
<1>7. QED
  BY <1>1, <1>5, <1>6 DEF GpuInv

\* A message whose event is ready has been packed.
LEMMA SendPackedKeeps ==
  ASSUME GpuInv, NEW w \in Messages, SendPacked(w) PROVE GpuInv'
<1> USE DEF SendPacked
<1>1. ex' = ex /\ Messages' = Messages
  BY DEF Messages
<1>2. streams[w].send = <<>>
  <2>1. SUFFICES ASSUME streams[w].send # <<>> PROVE FALSE
    OBVIOUS
  <2>2. streams[w].send \in Seq(SUBSET Nat)
    BY MessageTypes DEF GpuInv
  <2>3. Len(streams[w].send) \in DOMAIN streams[w].send
    BY <2>1, <2>2
  <2>4. streams[w].send[Len(streams[w].send)] = {}
    BY <2>1 DEF GpuInv, Packed
  <2>5. QED
    BY <2>3, <2>4 DEF Ready
<1>3. GpuTypes'
  BY <1>1 DEF GpuInv, GpuTypes, Blocks, Hosts
<1>4. ASSUME NEW m \in Messages PROVE (Packed(m) /\ Drained(m) /\ InOrder(m))'
  <2>1. From(m) \in GpuRanks /\ To(m) \in GpuRanks /\ From(w) \in GpuRanks
    BY MessageTypes DEF GpuInv
  <2>2. Packed(m) /\ Drained(m) /\ InOrder(m) /\ Packed(w)
    BY DEF GpuInv
  <2>3. From(m)' = From(m) /\ To(m)' = To(m) /\ Blocks(m)' = Blocks(m)
    BY <1>1 DEF From, To, Blocks
  <2>4. host[From(w)] = "packing" /\ w \in packing /\ packing' = packing \ {w} /\ flying' = flying \cup {w}
    BY DEF From
  <2>5. CASE SentBy(From(w)) \cap packing = {w}
    <3>1. host' = [host EXCEPT ![From(w)] = "open"]
      BY <2>5 DEF From
    <3>2. /\ host'[From(m)] = IF From(m) = From(w) THEN "open" ELSE host[From(m)]
          /\ host'[To(m)] = IF To(m) = From(w) THEN "open" ELSE host[To(m)]
      BY <2>1, <3>1 DEF GpuInv, GpuTypes
    <3>3. From(m) = From(w) /\ m \in packing => m = w
      BY <2>5 DEF SentBy, From
    <3>4. Packed(m)'
      BY <3>2, <3>3, <1>1, <1>2, <2>2, <2>3, <2>4 DEF Packed, Covers
    <3>5. Drained(m)'
      BY <3>2, <1>1, <2>2, <2>3, <2>4 DEF Drained, Got
    <3>6. InOrder(m)'
      <4>1. Taken(m)' = Taken(m) /\ Unsent(m)' = Unsent(m)
        BY <3>2, <2>2, <2>3, <2>4 DEF Taken, Unsent, Expected, Got, Packed
      <4>2. QED
        BY <4>1, <1>1, <2>2, OrderKept
    <3>7. QED
      BY <3>4, <3>5, <3>6
  <2>6. CASE SentBy(From(w)) \cap packing # {w}
    <3>1. host' = host
      BY <2>1, <2>6 DEF From, GpuInv, GpuTypes
    <3>2. Packed(m)'
      BY <3>1, <1>1, <1>2, <2>2, <2>3, <2>4 DEF Packed, Covers
    <3>3. Drained(m)'
      BY <3>1, <1>1, <2>2, <2>3, <2>4 DEF Drained, Got
    <3>4. InOrder(m)'
      <4>1. Taken(m)' = Taken(m) /\ Unsent(m)' = Unsent(m)
        BY <3>1, <2>2, <2>3, <2>4 DEF Taken, Unsent, Expected, Got, Packed
      <4>2. QED
        BY <4>1, <1>1, <2>2, OrderKept
    <3>5. QED
      BY <3>2, <3>3, <3>4
  <2>7. QED
    BY <2>5, <2>6
<1>5. QED
  BY <1>1, <1>3, <1>4 DEF GpuInv

LEMMA CallWaitKeeps ==
  ASSUME GpuInv, NEW r \in GpuRanks, CallWait(r) PROVE GpuInv'
<1> USE DEF CallWait
<1>1. ex' = ex /\ Messages' = Messages
  BY DEF Messages
<1>2. GpuTypes'
  BY <1>1 DEF GpuInv, GpuTypes, Blocks, Hosts
<1>3. ASSUME NEW m \in Messages PROVE (Packed(m) /\ Drained(m) /\ InOrder(m))'
  <2>1. From(m) \in GpuRanks /\ To(m) \in GpuRanks
    BY MessageTypes DEF GpuInv
  <2>2. Packed(m) /\ Drained(m) /\ InOrder(m)
    BY DEF GpuInv
  <2>3. /\ host'[From(m)] = IF From(m) = r THEN "waiting" ELSE host[From(m)]
        /\ host'[To(m)] = IF To(m) = r THEN "waiting" ELSE host[To(m)]
    BY <2>1 DEF GpuInv, GpuTypes
  <2>4. Packed(m)'
    BY <2>2, <2>3, <1>1 DEF Packed, From, Blocks
  <2>5. Drained(m)'
    BY <2>2, <2>3, <1>1 DEF Drained, Got, To, Blocks
  <2>6. InOrder(m)'
    <3>1. Taken(m)' = Taken(m) /\ Unsent(m)' = Unsent(m)
      BY <2>3, <1>1 DEF Taken, Unsent, Expected, Got, From, To
    <3>2. QED
      BY <3>1, <1>1, <2>2, OrderKept
  <2>7. QED
    BY <2>4, <2>5, <2>6
<1>4. QED
  BY <1>1, <1>2, <1>3 DEF GpuInv

\* The order of what wait awaits.
LEMMA NextOfValues ==
  /\ ex.variant = "u" =>
       /\ NextOf("waiting") = "syncing" /\ NextOf("syncing") = "sending" /\ NextOf("sending") = "compute"
  /\ ex.variant # "u" =>
       /\ NextOf("waiting") = "sending" /\ NextOf("sending") = "syncing" /\ NextOf("syncing") = "compute"
<1> DEFINE u == <<"waiting", "syncing", "sending", "compute">>
           o == <<"waiting", "sending", "syncing", "compute">>
<1>1. (CHOOSE k \in 1 .. 3 : u[k] = "waiting") = 1 /\ (CHOOSE k \in 1 .. 3 : o[k] = "waiting") = 1
  OBVIOUS
<1>2. (CHOOSE k \in 1 .. 3 : u[k] = "syncing") = 2 /\ (CHOOSE k \in 1 .. 3 : o[k] = "sending") = 2
  OBVIOUS
<1>3. (CHOOSE k \in 1 .. 3 : u[k] = "sending") = 3 /\ (CHOOSE k \in 1 .. 3 : o[k] = "syncing") = 3
  OBVIOUS
<1>4. u[2] = "syncing" /\ u[3] = "sending" /\ u[4] = "compute"
      /\ o[2] = "sending" /\ o[3] = "syncing" /\ o[4] = "compute"
  OBVIOUS
<1>5. \A at : ex.variant = "u" => NextOf(at) = u[(CHOOSE k \in 1 .. 3 : u[k] = at) + 1]
  BY DEF NextOf
<1>6. \A at : ex.variant # "u" => NextOf(at) = o[(CHOOSE k \in 1 .. 3 : o[k] = at) + 1]
  BY DEF NextOf
<1> HIDE DEF u, o
<1>7. QED
  BY <1>1, <1>2, <1>3, <1>4, <1>5, <1>6

\* A rank passes in wait, from a place where it has to wait for something.
LEMMA WaitPassesKeeps ==
  ASSUME GpuInv, NEW r \in GpuRanks, AllUnpacked(r) \/ AwaitSends(r) \/ Synchronize(r)
  PROVE  GpuInv'
<1>1. /\ UNCHANGED <<ex, grounds, computed, send_mem, recv_mem, filled, streams>>
      /\ UNCHANGED <<packing, flying, buffered, arrived, unpacked>>
  BY DEF AllUnpacked, AwaitSends, Synchronize, WaitPasses
<1>2. Messages' = Messages
  BY <1>1 DEF Messages
<1>3. PICK h : h = NextOf(host[r])
  OBVIOUS
<1>4. host' = [host EXCEPT ![r] = h] /\ host[r] \in {"waiting", "sending", "syncing"}
  BY <1>3 DEF AllUnpacked, AwaitSends, Synchronize, WaitPasses, GpuInv, GpuTypes
<1>5. /\ host[r] = "waiting" => h = IF ex.variant = "u" THEN "syncing" ELSE "sending"
      /\ host[r] = "syncing" => h = IF ex.variant = "u" THEN "sending" ELSE "compute"
      /\ host[r] = "sending" => h = IF ex.variant = "u" THEN "compute" ELSE "syncing"
  BY <1>3, NextOfValues
<1>6. GpuTypes'
  <2>1. h \in Hosts
    BY <1>4, <1>5 DEF Hosts
  <2>2. host' \in [GpuRanks -> Hosts]
    BY <2>1, <1>4 DEF GpuInv, GpuTypes
  <2>3. QED
    BY <1>1, <1>2, <2>2 DEF GpuInv, GpuTypes, Blocks
<1>7. ASSUME NEW m \in Messages PROVE (Packed(m) /\ Drained(m) /\ InOrder(m))'
  <2>1. From(m) \in GpuRanks /\ To(m) \in GpuRanks
    BY MessageTypes DEF GpuInv
  <2>2. Packed(m) /\ Drained(m) /\ InOrder(m)
    BY DEF GpuInv
  <2>3. /\ host'[From(m)] = IF From(m) = r THEN h ELSE host[From(m)]
        /\ host'[To(m)] = IF To(m) = r THEN h ELSE host[To(m)]
    BY <2>1, <1>4 DEF GpuInv, GpuTypes
  <2>4. From(m)' = From(m) /\ To(m)' = To(m) /\ Blocks(m)' = Blocks(m)
    BY <1>1 DEF From, To, Blocks
  <2>5. To(m) = r /\ host[r] = "waiting" => m \in unpacked
    BY DEF AllUnpacked, AwaitSends, Synchronize, ReceivedBy, To
  <2>6. From(m) = r /\ host[r] = "sending" => m \notin flying
    BY DEF AllUnpacked, AwaitSends, Synchronize, SentBy, From
  <2>7. To(m) = r /\ host[r] = "syncing" => streams[m].recv = <<>>
    BY DEF AllUnpacked, AwaitSends, Synchronize, ReceivedBy, To
  <2>8. Packed(m)'
    BY <1>1, <1>4, <1>5, <2>2, <2>3, <2>4, <2>6 DEF Packed
  <2>9. Drained(m)'
    <3>1. CASE To(m) = r
      BY <3>1, <1>1, <1>4, <1>5, <2>2, <2>3, <2>4, <2>5, <2>7 DEF Drained, Got
    <3>2. CASE To(m) # r
      BY <3>2, <1>1, <2>2, <2>3, <2>4 DEF Drained, Got
    <3>3. QED
      BY <3>1, <3>2
  <2>10. InOrder(m)'
    <3>1. Expected(m)' = Expected(m)
      <4>1. To(m) = r => Got(m)
        BY <1>4, <2>2, <2>5 DEF Drained, Got
      <4>2. QED
        BY <4>1, <1>1, <2>3, <2>4 DEF Expected, Got
    <3>2. Taken(m)' = Taken(m) /\ Unsent(m)' = Unsent(m)
      BY <3>1, <1>1, <1>4, <1>5, <2>3, <2>4 DEF Taken, Unsent
    <3>3. QED
      BY <3>2, <1>1, <2>2, OrderKept
  <2>11. QED
    BY <2>8, <2>9, <2>10
<1>8. QED
  BY <1>2, <1>6, <1>7 DEF GpuInv

----------------------------------------------------------------------------
(***************************************************************************)
(* Steps of the devices and of MPI.                                        *)
(***************************************************************************)

\* A kernel packs what the sender has computed for its exchange.
LEMMA RunPackKeeps ==
  ASSUME GpuInv, NEW w \in Messages, RunPack(w) PROVE GpuInv'
<1> USE DEF RunPack
<1>1. ex' = ex /\ Messages' = Messages
  BY DEF Messages
<1>2. PICK s : s = streams[w].send
  OBVIOUS
<1>3. s \in Seq(SUBSET Nat) /\ s # <<>>
  BY <1>2, MessageTypes DEF GpuInv
<1>4. /\ DOMAIN streams' = Messages
      /\ \A m \in Messages : m # w => streams'[m] = streams[m]
      /\ streams'[w] = [send |-> Tail(s), recv |-> streams[w].recv]
  <2>1. Tail(s) \in Seq(SUBSET Nat)
    BY <1>3, TailCovers
  <2>2. PICK g : g = [streams[w] EXCEPT !.send = Tail(s)]
    OBVIOUS
  <2>3. g = [send |-> Tail(s), recv |-> streams[w].recv]
    BY <2>1, <2>2, MessageTypes, StreamOf DEF GpuInv
  <2>4. streams' = [streams EXCEPT ![w] = g] /\ DOMAIN streams = Messages
    BY <1>2, <2>2 DEF GpuInv, GpuTypes
  <2>5. QED
    BY <2>3, <2>4
<1>5. w \in packing /\ host[From(w)] = "packing" /\ computed[From(w)] = grounds[From(w)]
  BY DEF GpuInv, Packed
<1>6. /\ DOMAIN send_mem' = Messages
      /\ \A m \in Messages : m # w => send_mem'[m] = send_mem[m]
      /\ send_mem'[w] = [b \in Blocks(w) |-> IF b \in Head(s) THEN grounds[From(w)] ELSE send_mem[w][b]]
  <2>1. DOMAIN send_mem[w] = Blocks(w) /\ DOMAIN send_mem = Messages
    BY DEF GpuInv, GpuTypes
  <2>2. QED
    BY <2>1, <1>2, <1>5 DEF From
<1>7. GpuTypes'
  <2>1. streams' \in [Messages -> [send : Seq(SUBSET Nat), recv : Seq(SUBSET Nat)]]
    <3>1. \A m \in Messages : streams'[m] \in [send : Seq(SUBSET Nat), recv : Seq(SUBSET Nat)]
      <4>1. Tail(s) \in Seq(SUBSET Nat)
        BY <1>3, TailCovers
      <4>2. streams'[w] \in [send : Seq(SUBSET Nat), recv : Seq(SUBSET Nat)]
        BY <4>1, <1>4, MessageTypes DEF GpuInv
      <4>3. QED
        BY <4>2, <1>4, MessageTypes DEF GpuInv
    <3>2. streams' = [m \in Messages |-> streams'[m]]
      BY <1>4 DEF GpuInv, GpuTypes
    <3>3. QED
      BY <3>1, <3>2
  <2>2. \A m \in Messages : send_mem'[m] \in [Blocks(m) -> Nat]
    <3>1. grounds[From(w)] \in Nat /\ send_mem[w] \in [Blocks(w) -> Nat]
      BY MessageTypes DEF GpuInv, GpuTypes
    <3>2. send_mem'[w] \in [Blocks(w) -> Nat]
      BY <3>1, <1>6
    <3>3. QED
      BY <3>2, <1>6 DEF GpuInv, GpuTypes
  <2>3. QED
    BY <2>1, <2>2, <1>1, <1>6 DEF GpuInv, GpuTypes, Blocks
<1>8. ASSUME NEW m \in Messages PROVE (Packed(m) /\ Drained(m) /\ InOrder(m))'
  <2>1. Packed(m) /\ Drained(m) /\ InOrder(m)
    BY DEF GpuInv
  <2>2. From(m)' = From(m) /\ To(m)' = To(m) /\ Blocks(m)' = Blocks(m)
    BY <1>1 DEF From, To, Blocks
  <2>3. streams'[m].recv = streams[m].recv
    BY <1>4
  <2>4. Packed(m)'
    <3>1. CASE m = w
      <4>1. streams'[w].send = Tail(s)
        BY <1>4
      <4>2. Tail(s) # <<>> => Tail(s)[Len(Tail(s))] = {}
        BY <1>2, <1>3, <1>5, <2>1, <3>1, TailCovers DEF Packed
      <4>3. \A b \in Blocks(w) : send_mem'[w][b] = grounds[From(w)] \/ Covers(Tail(s), b)
        BY <1>2, <1>3, <1>5, <1>6, <2>1, <3>1, TailCovers DEF Packed
      <4>4. w \notin flying
        BY <1>5, <2>1, <3>1 DEF Packed
      <4>5. QED
        BY <4>1, <4>2, <4>3, <4>4, <1>1, <1>5, <2>2, <3>1 DEF Packed
    <3>2. CASE m # w
      BY <3>2, <1>1, <1>4, <1>6, <2>1, <2>2 DEF Packed
    <3>3. QED
      BY <3>1, <3>2
  <2>5. Drained(m)'
    BY <1>1, <2>1, <2>2, <2>3 DEF Drained, Got
  <2>6. InOrder(m)'
    BY <1>1, <2>1, <2>2, OrderKept DEF Taken, Unsent, Expected, Got
  <2>7. QED
    BY <2>4, <2>5, <2>6
<1>9. QED
  BY <1>1, <1>7, <1>8 DEF GpuInv

\* A kernel unpacks what arrived in the round of the receiver.
LEMMA RunUnpackKeeps ==
  ASSUME GpuInv, NEW w \in Messages, RunUnpack(w) PROVE GpuInv'
<1> USE DEF RunUnpack
<1>1. ex' = ex /\ Messages' = Messages
  BY DEF Messages
<1>2. PICK s : s = streams[w].recv
  OBVIOUS
<1>3. s \in Seq(SUBSET Nat) /\ s # <<>>
  BY <1>2, MessageTypes DEF GpuInv
<1>4. /\ DOMAIN streams' = Messages
      /\ \A m \in Messages : m # w => streams'[m] = streams[m]
      /\ streams'[w] = [send |-> streams[w].send, recv |-> Tail(s)]
  <2>1. Tail(s) \in Seq(SUBSET Nat)
    BY <1>3, TailCovers
  <2>2. PICK g : g = [streams[w] EXCEPT !.recv = Tail(s)]
    OBVIOUS
  <2>3. g = [send |-> streams[w].send, recv |-> Tail(s)]
    BY <2>1, <2>2, MessageTypes, StreamOf DEF GpuInv
  <2>4. streams' = [streams EXCEPT ![w] = g] /\ DOMAIN streams = Messages
    BY <1>2, <2>2 DEF GpuInv, GpuTypes
  <2>5. QED
    BY <2>3, <2>4
<1>5. /\ w \in unpacked /\ host[To(w)] # "compute" /\ ~(host[To(w)] = "sending" /\ ex.variant = "u")
      /\ \A b \in Blocks(w) : recv_mem[w][b] = grounds[To(w)]
  BY DEF GpuInv, Drained, Got
<1>6. /\ DOMAIN filled' = Messages
      /\ \A m \in Messages : m # w => filled'[m] = filled[m]
      /\ filled'[w] = [b \in Blocks(w) |-> IF b \in Head(s) THEN recv_mem[w][b] ELSE filled[w][b]]
  <2>1. DOMAIN filled[w] = Blocks(w) /\ DOMAIN filled = Messages
    BY DEF GpuInv, GpuTypes
  <2>2. QED
    BY <2>1, <1>2
<1>7. GpuTypes'
  <2>1. streams' \in [Messages -> [send : Seq(SUBSET Nat), recv : Seq(SUBSET Nat)]]
    <3>1. \A m \in Messages : streams'[m] \in [send : Seq(SUBSET Nat), recv : Seq(SUBSET Nat)]
      <4>1. Tail(s) \in Seq(SUBSET Nat)
        BY <1>3, TailCovers
      <4>2. streams'[w] \in [send : Seq(SUBSET Nat), recv : Seq(SUBSET Nat)]
        BY <4>1, <1>4, MessageTypes DEF GpuInv
      <4>3. QED
        BY <4>2, <1>4, MessageTypes DEF GpuInv
    <3>2. streams' = [m \in Messages |-> streams'[m]]
      BY <1>4 DEF GpuInv, GpuTypes
    <3>3. QED
      BY <3>1, <3>2
  <2>2. \A m \in Messages : filled'[m] \in [Blocks(m) -> Nat]
    <3>1. recv_mem[w] \in [Blocks(w) -> Nat] /\ filled[w] \in [Blocks(w) -> Nat]
      BY DEF GpuInv, GpuTypes
    <3>2. filled'[w] \in [Blocks(w) -> Nat]
      BY <3>1, <1>6
    <3>3. QED
      BY <3>2, <1>6 DEF GpuInv, GpuTypes
  <2>3. QED
    BY <2>1, <2>2, <1>1, <1>6 DEF GpuInv, GpuTypes, Blocks
<1>8. ASSUME NEW m \in Messages PROVE (Packed(m) /\ Drained(m) /\ InOrder(m))'
  <2>1. Packed(m) /\ Drained(m) /\ InOrder(m)
    BY DEF GpuInv
  <2>2. From(m)' = From(m) /\ To(m)' = To(m) /\ Blocks(m)' = Blocks(m)
    BY <1>1 DEF From, To, Blocks
  <2>3. streams'[m].send = streams[m].send
    BY <1>4
  <2>4. Packed(m)'
    BY <1>1, <2>1, <2>2, <2>3 DEF Packed
  <2>5. Drained(m)'
    <3>1. CASE m = w
      <4>1. streams'[w].recv = Tail(s)
        BY <1>4
      <4>2. \A b \in Blocks(w) : filled'[w][b] = grounds[To(w)] \/ Covers(Tail(s), b)
        BY <1>2, <1>3, <1>5, <1>6, <2>1, <3>1, TailCovers DEF Drained
      <4>3. QED
        BY <4>1, <4>2, <1>1, <1>5, <2>1, <2>2, <3>1 DEF Drained, Got
    <3>2. CASE m # w
      BY <3>2, <1>1, <1>4, <1>6, <2>1, <2>2 DEF Drained, Got
    <3>3. QED
      BY <3>1, <3>2
  <2>6. InOrder(m)'
    BY <1>1, <2>1, <2>2, OrderKept DEF Taken, Unsent, Expected, Got
  <2>7. QED
    BY <2>4, <2>5, <2>6
<1>9. QED
  BY <1>1, <1>7, <1>8 DEF GpuInv

\* MPI copies the message of the sender's round behind those it has.
LEMMA BufferSendKeeps ==
  ASSUME GpuInv, NEW w \in Messages, BufferSend(w) PROVE GpuInv'
<1> USE DEF BufferSend
<1>1. ex' = ex /\ Messages' = Messages
  BY DEF Messages
<1>2. w \notin packing /\ host[From(w)] # "posting" /\ \A b \in Blocks(w) : send_mem[w][b] = grounds[From(w)]
  BY DEF GpuInv, Packed
<1>3. PICK s, v : s = buffered[w] /\ v = send_mem[w]
  OBVIOUS
<1>4. s \in Seq([Blocks(w) -> Nat]) /\ v \in [Blocks(w) -> Nat]
  BY <1>3, MessageTypes DEF GpuInv
<1>5. /\ DOMAIN buffered' = Messages
      /\ \A m \in Messages : m # w => buffered'[m] = buffered[m]
      /\ buffered'[w] = Append(s, v)
  BY <1>3 DEF GpuInv, GpuTypes
<1>6. GpuTypes'
  <2>1. \A m \in Messages : buffered'[m] \in Seq([Blocks(m) -> Nat])
    BY <1>4, <1>5, QueueSteps DEF GpuInv, GpuTypes
  <2>2. flying' \subseteq Messages
    BY DEF GpuInv, GpuTypes
  <2>3. UNCHANGED <<host, grounds, computed, send_mem, recv_mem, filled, streams, packing, arrived, unpacked>>
    OBVIOUS
  <2>4. QED
    BY <1>1, <1>5, <2>1, <2>2, <2>3 DEF GpuInv, GpuTypes, Blocks
<1>7. ASSUME NEW m \in Messages PROVE (Packed(m) /\ Drained(m) /\ InOrder(m))'
  <2>1. Packed(m) /\ Drained(m) /\ InOrder(m)
    BY DEF GpuInv
  <2>2. From(m)' = From(m) /\ To(m)' = To(m) /\ Blocks(m)' = Blocks(m)
    BY <1>1 DEF From, To, Blocks
  <2>3. Packed(m)'
    BY <1>1, <2>1, <2>2 DEF Packed
  <2>4. Drained(m)'
    BY <1>1, <2>1, <2>2 DEF Drained, Got
  <2>5. Taken(m)' = Taken(m)
    BY <2>2 DEF Taken, Expected, Got
  <2>6. InOrder(m)'
    <3>1. CASE m = w
      <4>1. grounds[From(w)] \in Nat /\ grounds[To(w)] \in Nat /\ Len(s) \in Nat
        BY <1>3, MessageTypes DEF GpuInv
      <4>2. Taken(w) \in Int
        BY <4>1 DEF Taken
      <4>3. Unsent(w) = 1 /\ Unsent(w)' = 0
        BY <1>2, <2>2, <3>1 DEF Unsent
      <4>4. grounds[From(w)] = Taken(w) + Len(s) + 1
        BY <1>3, <2>1, <3>1, <4>3 DEF InOrder
      <4>5. Len(buffered'[w]) = Len(s) + 1
            /\ \A k \in 1 .. Len(s) + 1 : buffered'[w][k] = IF k = Len(s) + 1 THEN v ELSE s[k]
        <5>1. PICK S : S = [Blocks(w) -> Nat]
          OBVIOUS
        <5>2. s \in Seq(S) /\ v \in S
          BY <1>4, <5>1
        <5>3. Len(Append(s, v)) = Len(s) + 1
              /\ \A k \in 1 .. Len(s) + 1 : Append(s, v)[k] = IF k = Len(s) + 1 THEN v ELSE s[k]
          BY <5>2, QueueSteps
        <5>4. QED
          BY <1>5, <5>3
      <4>6. \A b \in Blocks(w) : v[b] = Taken(w) + (Len(s) + 1)
        BY <1>2, <1>3, <4>1, <4>2, <4>4
      <4>7. \A k \in 1 .. Len(s) : \A b \in Blocks(w) : s[k][b] = Taken(w) + k
        BY <1>3, <2>1, <3>1 DEF InOrder
      <4>8. \A k \in 1 .. Len(s) + 1 : \A b \in Blocks(w) : buffered'[w][k][b] = Taken(w) + k
        <5>1. SUFFICES ASSUME NEW k \in 1 .. Len(s) + 1, NEW b \in Blocks(w)
                       PROVE  buffered'[w][k][b] = Taken(w) + k
          OBVIOUS
        <5>2. CASE k = Len(s) + 1
          BY <5>2, <4>5, <4>6
        <5>3. CASE k # Len(s) + 1
          <6>1. k \in 1 .. Len(s)
            BY <5>3, <4>1
          <6>2. QED
            BY <5>3, <6>1, <4>5, <4>7
        <5>4. QED
          BY <5>2, <5>3
      <4>9. grounds[From(w)] = Taken(w) + Len(buffered'[w]) + Unsent(w)'
        BY <4>1, <4>2, <4>3, <4>4, <4>5
      <4>10. QED
        BY <2>2, <2>5, <3>1, <4>5, <4>8, <4>9 DEF InOrder
    <3>2. CASE m # w
      <4>1. Unsent(m)' = Unsent(m)
        BY <2>2, <3>2 DEF Unsent
      <4>2. QED
        BY <1>5, <2>1, <2>2, <2>5, <3>2, <4>1 DEF InOrder
    <3>3. QED
      BY <3>1, <3>2
  <2>7. QED
    BY <2>3, <2>4, <2>6
<1>8. QED
  BY <1>1, <1>6, <1>7 DEF GpuInv

\* A receive has got the message of its round.
LEMMA ArrivalDrains ==
  ASSUME GpuInv, NEW w \in Messages, NEW m \in Messages, Posted(w),
         UNCHANGED <<ex, host, grounds, filled, streams, unpacked>>, arrived' = arrived \cup {w},
         m # w => recv_mem'[m] = recv_mem[m],
         \A b \in Blocks(w) : recv_mem'[w][b] = grounds[To(w)]
  PROVE  Drained(m)'
<1>1. Drained(m) /\ From(m)' = From(m) /\ To(m)' = To(m) /\ Blocks(m)' = Blocks(m)
  BY DEF GpuInv, From, To, Blocks
<1>2. host[To(w)] # "compute" /\ w \notin arrived /\ w \notin unpacked
  BY DEF Posted, To
<1>3. CASE m = w
  BY <1>1, <1>2, <1>3 DEF Drained, Got
<1>4. CASE m # w
  BY <1>1, <1>4 DEF Drained, Got
<1>5. QED
  BY <1>3, <1>4

\* The oldest message that MPI has is that of the receiver's round.
LEMMA DeliverBufferedKeeps ==
  ASSUME GpuInv, NEW w \in Messages, DeliverBuffered(w) PROVE GpuInv'
<1> USE DEF DeliverBuffered
<1>1. ex' = ex /\ Messages' = Messages
  BY DEF Messages
<1>2. Expected(w) /\ w \notin arrived
  BY DEF Posted, Expected, Got, To
<1>3. PICK s : s = buffered[w]
  OBVIOUS
<1>4. s \in Seq([Blocks(w) -> Nat]) /\ s # <<>> /\ grounds[To(w)] \in Nat
  BY <1>3, MessageTypes DEF GpuInv
<1>5. /\ Tail(s) \in Seq([Blocks(w) -> Nat]) /\ Head(s) = s[1] /\ Head(s) \in [Blocks(w) -> Nat]
      /\ Len(s) \in Nat /\ Len(s) > 0 /\ Len(Tail(s)) = Len(s) - 1
      /\ \A k \in 1 .. Len(s) - 1 : Tail(s)[k] = s[k + 1]
  BY <1>4, QueueSteps
<1>6. /\ DOMAIN buffered' = Messages /\ DOMAIN recv_mem' = Messages
      /\ \A m \in Messages : m # w => buffered'[m] = buffered[m] /\ recv_mem'[m] = recv_mem[m]
      /\ buffered'[w] = Tail(s) /\ recv_mem'[w] = Head(s)
  BY <1>3 DEF GpuInv, GpuTypes
<1>7. Taken(w) = grounds[To(w)] - 1
  BY <1>2 DEF Taken
<1>8. \A k \in 1 .. Len(s) : \A b \in Blocks(w) : s[k][b] = Taken(w) + k
  BY <1>3 DEF GpuInv, InOrder
<1>9. \A b \in Blocks(w) : recv_mem'[w][b] = grounds[To(w)]
  <2>1. 1 \in 1 .. Len(s) /\ Taken(w) + 1 = grounds[To(w)]
    BY <1>4, <1>5, <1>7
  <2>2. QED
    BY <2>1, <1>5, <1>6, <1>8
<1>10. GpuTypes'
  <2>1. \A m \in Messages : buffered'[m] \in Seq([Blocks(m) -> Nat]) /\ recv_mem'[m] \in [Blocks(m) -> Nat]
    BY <1>5, <1>6 DEF GpuInv, GpuTypes
  <2>2. arrived' \subseteq Messages
    BY DEF GpuInv, GpuTypes
  <2>3. UNCHANGED <<host, grounds, computed, send_mem, filled, streams, packing, flying, unpacked>>
    OBVIOUS
  <2>4. QED
    BY <1>1, <1>6, <2>1, <2>2, <2>3 DEF GpuInv, GpuTypes, Blocks
<1>11. ASSUME NEW m \in Messages PROVE (Packed(m) /\ Drained(m) /\ InOrder(m))'
  <2>1. Packed(m) /\ InOrder(m)
    BY DEF GpuInv
  <2>2. From(m)' = From(m) /\ To(m)' = To(m) /\ Blocks(m)' = Blocks(m)
    BY <1>1 DEF From, To, Blocks
  <2>3. Packed(m)'
    BY <1>1, <2>1, <2>2 DEF Packed
  <2>4. Drained(m)'
    BY <1>6, <1>9, ArrivalDrains
  <2>5. Unsent(m)' = Unsent(m)
    BY <2>2 DEF Unsent
  <2>6. InOrder(m)'
    <3>1. CASE m = w
      <4>1. Taken(w)' = Taken(w) + 1 /\ Taken(w) \in Int
        BY <1>1, <1>4, <1>7 DEF Taken, Expected, Got, To
      <4>2. \A k \in 1 .. Len(s) - 1 : \A b \in Blocks(w) : Tail(s)[k][b] = Taken(w)' + k
        <5>1. SUFFICES ASSUME NEW k \in 1 .. Len(s) - 1, NEW b \in Blocks(w)
                       PROVE  Tail(s)[k][b] = Taken(w)' + k
          OBVIOUS
        <5>2. k + 1 \in 1 .. Len(s) /\ Taken(w) + (k + 1) = Taken(w)' + k
          BY <1>5, <4>1
        <5>3. QED
          BY <5>2, <1>5, <1>8
      <4>3. Unsent(w) \in Int
        BY DEF Unsent
      <4>4. grounds[From(w)] = Taken(w)' + Len(Tail(s)) + Unsent(w)
        BY <1>3, <1>5, <2>1, <3>1, <4>1, <4>3 DEF InOrder
      <4>5. /\ grounds' = grounds /\ buffered'[w] = Tail(s) /\ Len(Tail(s)) = Len(s) - 1
            /\ From(w)' = From(w) /\ Blocks(w)' = Blocks(w) /\ Unsent(w)' = Unsent(w)
        BY <1>5, <1>6, <2>2, <2>5, <3>1
      <4> HIDE DEF DeliverBuffered
      <4>6. InOrder(w)'
        BY <4>2, <4>4, <4>5 DEF InOrder
      <4>7. QED
        BY <3>1, <4>6
    <3>2. CASE m # w
      <4>1. Taken(m)' = Taken(m)
        BY <2>2, <3>2 DEF Taken, Expected, Got
      <4>2. QED
        BY <1>6, <2>1, <2>2, <2>5, <3>2, <4>1 DEF InOrder
    <3>3. QED
      BY <3>1, <3>2
  <2>7. QED
    BY <2>3, <2>4, <2>6
<1>12. QED
  BY <1>1, <1>10, <1>11 DEF GpuInv

\* With none in MPI's buffers, that which the sender still has is.
LEMMA TransmitKeeps ==
  ASSUME GpuInv, NEW w \in Messages, Transmit(w) PROVE GpuInv'
<1> USE DEF Transmit
<1>1. ex' = ex /\ Messages' = Messages
  BY DEF Messages
<1>2. Expected(w) /\ w \notin arrived /\ w \notin packing /\ host[From(w)] # "posting"
  BY DEF Posted, Expected, Got, To, GpuInv, Packed
<1>3. grounds[From(w)] = grounds[To(w)] /\ Unsent(w) = 1 /\ Taken(w) = grounds[To(w)] - 1
      /\ grounds[To(w)] \in Nat /\ Len(buffered[w]) = 0
  <2>1. Unsent(w) = 1 /\ Taken(w) = grounds[To(w)] - 1
    BY <1>2 DEF Unsent, Taken
  <2>2. Len(buffered[w]) = 0
    OBVIOUS
  <2>3. grounds[To(w)] \in Nat
    BY MessageTypes DEF GpuInv
  <2>4. grounds[From(w)] = Taken(w) + Len(buffered[w]) + Unsent(w)
    BY DEF GpuInv, InOrder
  <2>5. QED
    BY <2>1, <2>2, <2>3, <2>4
<1>4. /\ DOMAIN recv_mem' = Messages
      /\ \A m \in Messages : m # w => recv_mem'[m] = recv_mem[m]
      /\ recv_mem'[w] = send_mem[w]
  BY DEF GpuInv, GpuTypes
<1>5. \A b \in Blocks(w) : recv_mem'[w][b] = grounds[To(w)]
  BY <1>3, <1>4 DEF GpuInv, Packed
<1>6. GpuTypes'
  <2>1. flying' \subseteq Messages /\ arrived' \subseteq Messages
    BY DEF GpuInv, GpuTypes
  <2>2. \A m \in Messages : recv_mem'[m] \in [Blocks(m) -> Nat]
    BY <1>4 DEF GpuInv, GpuTypes
  <2>3. UNCHANGED <<host, grounds, computed, send_mem, filled, streams, packing, buffered, unpacked>>
    OBVIOUS
  <2>4. QED
    BY <1>1, <1>4, <2>1, <2>2, <2>3 DEF GpuInv, GpuTypes, Blocks
<1>7. ASSUME NEW m \in Messages PROVE (Packed(m) /\ Drained(m) /\ InOrder(m))'
  <2>1. Packed(m) /\ InOrder(m)
    BY DEF GpuInv
  <2>2. From(m)' = From(m) /\ To(m)' = To(m) /\ Blocks(m)' = Blocks(m)
    BY <1>1 DEF From, To, Blocks
  <2>3. Packed(m)'
    BY <1>1, <2>1, <2>2 DEF Packed
  <2>4. Drained(m)'
    BY <1>4, <1>5, ArrivalDrains
  <2>5. InOrder(m)'
    <3>1. CASE m = w
      <4>1. Taken(w)' = grounds[To(w)] /\ Unsent(w)' = 0
        BY <1>1, <1>2 DEF Taken, Unsent, Expected, Got, To, From
      <4>2. QED
        BY <1>3, <2>2, <3>1, <4>1 DEF InOrder
    <3>2. CASE m # w
      <4>1. Taken(m)' = Taken(m) /\ Unsent(m)' = Unsent(m)
        BY <2>2, <3>2 DEF Taken, Unsent, Expected, Got
      <4>2. QED
        BY <1>1, <2>1, <4>1, OrderKept
    <3>3. QED
      BY <3>1, <3>2
  <2>6. QED
    BY <2>3, <2>4, <2>5
<1>8. QED
  BY <1>1, <1>6, <1>7 DEF GpuInv

LEMMA LaunchUnpackKeeps ==
  ASSUME GpuInv, NEW w \in Messages, LaunchUnpack(w) PROVE GpuInv'
<1> USE DEF LaunchUnpack
<1>1. ex' = ex /\ Messages' = Messages
  BY DEF Messages
<1>2. w \in arrived /\ host[To(w)] # "compute" /\ w \notin unpacked /\ streams[w].recv = <<>>
  BY DEF To, GpuInv, Drained
<1>3. PICK s : s = Kernels("unpack", ex.messages[w].blocks)
  OBVIOUS
<1>4. s \in Seq(SUBSET Nat) /\ \A b \in Blocks(w) : Covers(s, b)
  BY <1>3, MessageTypes, KernelsCover DEF GpuInv, Blocks
<1>5. host' = host
  <2>1. Fit(s)
    BY <1>3, MessageTypes, KernelsFit DEF GpuInv
  <2>2. QED
    BY <1>3, <2>1 DEF GpuInv, GpuTypes
<1>6. /\ DOMAIN streams' = Messages
      /\ \A m \in Messages : m # w => streams'[m] = streams[m]
      /\ streams'[w] = [send |-> streams[w].send, recv |-> s]
  <2>1. <<>> \o s = s
    BY <1>4
  <2>2. PICK g : g = [streams[w] EXCEPT !.recv = s]
    OBVIOUS
  <2>3. g = [send |-> streams[w].send, recv |-> s]
    BY <1>4, <2>2, MessageTypes, StreamOf DEF GpuInv
  <2>4. streams' = [streams EXCEPT ![w] = g] /\ DOMAIN streams = Messages
    BY <1>2, <1>3, <2>1, <2>2 DEF GpuInv, GpuTypes
  <2>5. QED
    BY <2>3, <2>4
<1>7. GpuTypes'
  <2>1. streams' \in [Messages -> [send : Seq(SUBSET Nat), recv : Seq(SUBSET Nat)]]
    <3>1. \A m \in Messages : streams'[m] \in [send : Seq(SUBSET Nat), recv : Seq(SUBSET Nat)]
      <4>1. streams'[w] \in [send : Seq(SUBSET Nat), recv : Seq(SUBSET Nat)]
        BY <1>4, <1>6, MessageTypes DEF GpuInv
      <4>2. QED
        BY <4>1, <1>6, MessageTypes DEF GpuInv
    <3>2. streams' = [m \in Messages |-> streams'[m]]
      BY <1>6 DEF GpuInv, GpuTypes
    <3>3. QED
      BY <3>1, <3>2
  <2>2. QED
    BY <2>1, <1>1, <1>5 DEF GpuInv, GpuTypes, Blocks
<1>8. ASSUME NEW m \in Messages PROVE (Packed(m) /\ Drained(m) /\ InOrder(m))'
  <2>1. Packed(m) /\ Drained(m) /\ InOrder(m)
    BY DEF GpuInv
  <2>2. From(m)' = From(m) /\ To(m)' = To(m) /\ Blocks(m)' = Blocks(m)
    BY <1>1 DEF From, To, Blocks
  <2>3. arrived' = arrived \ {w} /\ unpacked' = unpacked \cup {w}
    OBVIOUS
  <2>4. streams'[m].send = streams[m].send
    BY <1>6
  <2>5. Packed(m)'
    BY <1>1, <1>5, <2>1, <2>2, <2>4 DEF Packed
  <2>6. Drained(m)'
    <3>1. CASE m = w
      <4>1. streams'[w].recv = s
        BY <1>6
      <4>2. QED
        BY <3>1, <4>1, <1>1, <1>2, <1>4, <1>5, <2>1, <2>2, <2>3 DEF Drained, Got
    <3>2. CASE m # w
      BY <3>2, <1>1, <1>6, <1>5, <2>1, <2>2, <2>3 DEF Drained, Got
    <3>3. QED
      BY <3>1, <3>2
  <2>7. InOrder(m)'
    <3>1. Taken(m)' = Taken(m) /\ Unsent(m)' = Unsent(m)
      BY <1>2, <1>5, <2>2, <2>3 DEF Taken, Unsent, Expected, Got
    <3>2. QED
      BY <3>1, <1>1, <2>1, OrderKept
  <2>8. QED
    BY <2>5, <2>6, <2>7
<1>9. QED
  BY <1>1, <1>7, <1>8 DEF GpuInv

----------------------------------------------------------------------------
LEMMA GpuStuttering ==
  ASSUME GpuInv, UNCHANGED gvars PROVE GpuInv'
<1>1. /\ UNCHANGED <<ex, host, grounds, computed, send_mem, recv_mem, filled>>
      /\ UNCHANGED <<streams, packing, flying, buffered, arrived, unpacked>>
  BY DEF gvars
<1>2. Messages' = Messages
  BY <1>1 DEF Messages
<1>3. GpuTypes'
  BY <1>1, <1>2 DEF GpuInv, GpuTypes, Blocks
<1>4. ASSUME NEW m \in Messages PROVE (Packed(m) /\ Drained(m) /\ InOrder(m))'
  <2>1. Packed(m) /\ Drained(m) /\ InOrder(m)
    BY DEF GpuInv
  <2>2. From(m)' = From(m) /\ To(m)' = To(m) /\ Blocks(m)' = Blocks(m)
    BY <1>1 DEF From, To, Blocks
  <2>3. Packed(m)' /\ Drained(m)'
    BY <1>1, <2>1, <2>2 DEF Packed, Drained, Got
  <2>4. InOrder(m)'
    BY <1>1, <2>1, <2>2, OrderKept DEF Taken, Unsent, Expected, Got
  <2>5. QED
    BY <2>3, <2>4
<1>5. QED
  BY <1>2, <1>3, <1>4 DEF GpuInv

(***************************************************************************)
(* For any exchanges, of any number of messages and blocks, the invariant  *)
(* holds of every state (communication_object_2.hpp:515-568,               *)
(* packer.hpp:127-396).                                                    *)
(***************************************************************************)
THEOREM GpuInvariant == GpuSpec => []GpuInv
<1>1. GpuInit => GpuInv
  BY GpuInitial
<1>2. GpuInv /\ [GpuNext]_gvars => GpuInv'
  <2>1. SUFFICES ASSUME GpuInv, [GpuNext]_gvars PROVE GpuInv'
    OBVIOUS
  <2>2. ASSUME NEW r \in GpuRanks, ComputeInner(r) PROVE GpuInv'
    BY <2>1, <2>2, ComputeInnerKeeps
  <2>3. ASSUME NEW r \in GpuRanks, PostRecvs(r) PROVE GpuInv'
    BY <2>1, <2>3, PostRecvsKeeps
  <2>4. ASSUME NEW r \in GpuRanks, LaunchPack(r) PROVE GpuInv'
    BY <2>1, <2>4, LaunchPackKeeps
  <2>5. ASSUME NEW r \in GpuRanks, CallWait(r) PROVE GpuInv'
    BY <2>1, <2>5, CallWaitKeeps
  <2>6. ASSUME NEW r \in GpuRanks, AllUnpacked(r) \/ AwaitSends(r) \/ Synchronize(r) PROVE GpuInv'
    BY <2>1, <2>6, WaitPassesKeeps
  <2>7. ASSUME NEW m \in Messages, SendPacked(m) PROVE GpuInv'
    BY <2>1, <2>7, SendPackedKeeps
  <2>8. ASSUME NEW m \in Messages, RunPack(m) PROVE GpuInv'
    BY <2>1, <2>8, RunPackKeeps
  <2>9. ASSUME NEW m \in Messages, BufferSend(m) PROVE GpuInv'
    BY <2>1, <2>9, BufferSendKeeps
  <2>10. ASSUME NEW m \in Messages, DeliverBuffered(m) PROVE GpuInv'
    BY <2>1, <2>10, DeliverBufferedKeeps
  <2>11. ASSUME NEW m \in Messages, Transmit(m) PROVE GpuInv'
    BY <2>1, <2>11, TransmitKeeps
  <2>12. ASSUME NEW m \in Messages, LaunchUnpack(m) PROVE GpuInv'
    BY <2>1, <2>12, LaunchUnpackKeeps
  <2>13. ASSUME NEW m \in Messages, RunUnpack(m) PROVE GpuInv'
    BY <2>1, <2>13, RunUnpackKeeps
  <2>14. QED
    BY <2>1, <2>2, <2>3, <2>4, <2>5, <2>6, <2>7, <2>8, <2>9, <2>10, <2>11, <2>12, <2>13, GpuStuttering
       DEF GpuNext
<1>3. QED
  BY <1>1, <1>2, PTL DEF GpuSpec

(***************************************************************************)
(* However the streams of the devices, MPI and the two ranks interleave,   *)
(* the halos hold the neighbor's data of the same round whenever wait has  *)
(* returned, in each way through the code (packer.hpp:127-396,             *)
(* communication_object_2.hpp:515-568).                                    *)
(***************************************************************************)
THEOREM GpuFresh == GpuSpec => []GpuHalosFresh
<1>1. GpuInv => GpuHalosFresh
  <2> SUFFICES ASSUME GpuInv PROVE GpuHalosFresh
    OBVIOUS
  <2>0. \A r \in DOMAIN host : host[r] # "thrown"
    BY DEF GpuInv, GpuTypes, Hosts
  <2>1. SUFFICES ASSUME NEW m \in Messages, host[To(m)] = "compute", NEW b \in DOMAIN filled[m]
                 PROVE  filled[m][b] = grounds[To(m)]
    BY <2>0 DEF GpuHalosFresh, To
  <2>2. b \in Blocks(m)
    BY <2>1 DEF GpuInv, GpuTypes
  <2>3. streams[m].recv = <<>> /\ ~Covers(streams[m].recv, b)
    BY <2>1 DEF GpuInv, Drained, Covers
  <2>4. QED
    BY <2>1, <2>2, <2>3 DEF GpuInv, Drained
<1>2. QED
  BY <1>1, GpuInvariant, PTL
=============================================================================
