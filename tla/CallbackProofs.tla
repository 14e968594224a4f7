--------------------------- MODULE CallbackProofs ---------------------------
(***************************************************************************)
(* The callback queues keep CallbackInv, for every set of operations and   *)
(* for callers that test a request before they cancel it; so the requests  *)
(* keep track of their elements, every callback is reported once, and the  *)
(* queues implement Completions step by step.                              *)
(***************************************************************************)
EXTENDS CallbackQueue, SequenceTheorems, FiniteSetTheorems, TLAPS

\* The queue of an operation is one of the two.
LEMMA QueueOfType == \A op \in Ops : QueueOf(op) \in Queues
BY DEF QueueOf, Queues

\* Removing element k of a sequence puts the last one in its place.
LEMMA SwapOutProperties ==
  ASSUME NEW S, NEW s \in Seq(S), NEW k \in 1 .. Len(s)
  PROVE  /\ SwapOut(s, k) \in Seq(S)
         /\ Len(SwapOut(s, k)) = Len(s) - 1
         /\ \A j \in 1 .. Len(s) - 1 :
               SwapOut(s, k)[j] = IF j = k THEN s[Len(s)] ELSE s[j]
<1> DEFINE t == SwapOut(s, k)
           e == [s EXCEPT ![k] = s[Len(s)]]
<1>0. Len(s) \in Nat /\ Len(s) \in 1 .. Len(s)
  OBVIOUS
<1>1. s[Len(s)] \in S
  BY <1>0, ElementOfSeq
<1>2. /\ e \in Seq(S)
      /\ Len(e) = Len(s)
      /\ \A j \in 1 .. Len(s) : e[j] = IF j = k THEN s[Len(s)] ELSE s[j]
  BY <1>1, ExceptSeq
<1>3. t = SubSeq(e, 1, Len(s) - 1)
  BY DEF SwapOut
<1> HIDE DEF e, t
<1>4. \A j \in 1 .. Len(s) - 1 : e[j] \in S
  BY <1>0, <1>2, ElementOfSeq
<1>5. /\ t \in Seq(S)
      /\ Len(t) = IF 1 <= Len(s) - 1 THEN Len(s) - 1 - 1 + 1 ELSE 0
      /\ \A j \in 1 .. Len(s) - 1 - 1 + 1 : t[j] = e[1 + j - 1]
  BY <1>0, <1>3, <1>4, SubSeqProperties
<1> QED
  BY <1>0, <1>2, <1>5 DEF t

\* Remove takes one operation from its queue; the others stay, and know
\* where they are.
LEMMA RemoveTracks ==
  ASSUME TypeOK, IndexInv, NEW q \in Queues, NEW k \in 1 .. Len(m_queue[q]),
         Remove(q, k)
  PROVE  /\ m_queue' \in [Queues -> Seq(Ops)]
         /\ m_index' \in [Ops -> Nat]
         /\ IndexInv'
         /\ \A op \in Ops : Queued(op)' <=> Queued(op) /\ op # m_queue[q][k]
<1> DEFINE s == m_queue[q]
           t == m_queue'[q]
           n == Len(s)
<1>0. /\ m_queue \in [Queues -> Seq(Ops)]
      /\ m_index \in [Ops -> Nat]
      /\ s \in Seq(Ops)
  BY DEF TypeOK
<1>1. /\ n \in Nat /\ n > 0 /\ k \in Nat /\ 1 <= k /\ k <= n
      /\ s[n] \in Ops
  BY <1>0, ElementOfSeq
<1>2. /\ m_queue' = [m_queue EXCEPT ![q] = SwapOut(s, k)]
      /\ m_index' = IF k < n THEN [m_index EXCEPT ![s[n]] = k] ELSE m_index
  BY DEF Remove
<1>3. /\ t = SwapOut(s, k)
      /\ \A p \in Queues : p # q => m_queue'[p] = m_queue[p]
  BY <1>0, <1>2
<1>4. /\ t \in Seq(Ops)
      /\ Len(t) = n - 1
      /\ \A j \in 1 .. n - 1 : t[j] = IF j = k THEN s[n] ELSE s[j]
  BY <1>0, <1>3, SwapOutProperties
<1>5. m_queue' \in [Queues -> Seq(Ops)]
  BY <1>0, <1>2, <1>3, <1>4
<1>6. m_index' \in [Ops -> Nat]
  BY <1>0, <1>1, <1>2
<1>7. \A op \in Ops : m_index'[op] = IF k < n /\ op = s[n] THEN k ELSE m_index[op]
  BY <1>0, <1>1, <1>2
<1>8. \A j \in 1 .. n : s[j] \in Ops /\ QueueOf(s[j]) = q /\ m_index[s[j]] = j
  BY <1>0, ElementOfSeq DEF IndexInv
<1> HIDE DEF s, t, n
<1>9. \A j \in 1 .. n - 1 : QueueOf(t[j]) = q /\ m_index'[t[j]] = j
  <2> TAKE j \in 1 .. n - 1
  <2>1. CASE j = k
    BY <1>1, <1>4, <1>7, <1>8, <2>1
  <2>2. CASE j # k
    <3>1. t[j] = s[j] /\ j \in 1 .. n /\ j # n
      BY <1>1, <1>4, <2>2
    <3>2. s[j] # s[n]
      BY <1>1, <1>8, <3>1
    <3> QED
      BY <1>7, <1>8, <3>1, <3>2
  <2> QED
    BY <2>1, <2>2
<1>10. IndexInv'
  <2> SUFFICES ASSUME NEW p \in Queues, NEW j \in 1 .. Len(m_queue'[p])
               PROVE  QueueOf(m_queue'[p][j]) = p /\ m_index'[m_queue'[p][j]] = j
    BY DEF IndexInv
  <2>1. CASE p = q
    BY <1>4, <1>9, <2>1 DEF t
  <2>2. CASE p # q
    <3>1. m_queue'[p] = m_queue[p]
      BY <1>3, <2>2
    <3>2. /\ m_queue[p][j] \in Ops
          /\ QueueOf(m_queue[p][j]) = p
          /\ m_index[m_queue[p][j]] = j
      <4>1. m_queue[p] \in Seq(Ops) /\ j \in 1 .. Len(m_queue[p])
        BY <1>0, <3>1
      <4>2. m_queue[p][j] \in Ops
        BY <4>1, ElementOfSeq
      <4> QED
        BY <4>1, <4>2 DEF IndexInv
    <3>3. m_queue[p][j] # s[n]
      BY <1>1, <1>8, <2>2, <3>2
    <3> QED
      BY <1>7, <3>1, <3>2, <3>3
  <2> QED
    BY <2>1, <2>2
<1>11. ASSUME NEW op \in Ops
       PROVE  Queued(op)' <=> Queued(op) /\ op # s[k]
  <2>1. CASE QueueOf(op) # q
    <3>1. QueueOf(op) \in Queues /\ m_queue'[QueueOf(op)] = m_queue[QueueOf(op)]
      BY <1>3, <2>1, QueueOfType
    <3>2. op # s[k]
      BY <1>1, <1>8, <2>1
    <3> QED
      BY <3>1, <3>2 DEF Queued
  <2>2. CASE QueueOf(op) = q
    <3>1. Queued(op) <=> \E j \in 1 .. n : s[j] = op
      BY <2>2 DEF Queued, s, n
    <3>2. Queued(op)' <=> \E j \in 1 .. n - 1 : t[j] = op
      BY <1>4, <2>2 DEF Queued, t
    <3>3. ASSUME Queued(op)'  PROVE Queued(op) /\ op # s[k]
      <4>1. PICK j \in 1 .. n - 1 : t[j] = op
        BY <3>2, <3>3
      <4>2. CASE j = k
        BY <1>1, <1>4, <1>8, <3>1, <4>1, <4>2
      <4>3. CASE j # k
        BY <1>1, <1>4, <1>8, <3>1, <4>1, <4>3
      <4> QED
        BY <4>2, <4>3
    <3>4. ASSUME Queued(op), op # s[k]  PROVE Queued(op)'
      <4>1. PICK j \in 1 .. n : s[j] = op
        BY <3>1, <3>4
      <4>2. CASE j = n
        <5>1. k \in 1 .. n - 1 /\ t[k] = s[n]
          BY <1>1, <1>4, <3>4, <4>1, <4>2
        <5> QED
          BY <3>2, <4>1, <4>2, <5>1
      <4>3. CASE j # n
        <5>1. j \in 1 .. n - 1 /\ t[j] = s[j]
          BY <1>1, <1>4, <3>4, <4>1, <4>3
        <5> QED
          BY <3>2, <4>1, <5>1
      <4> QED
        BY <4>2, <4>3
    <3> QED
      BY <3>3, <3>4
  <2> QED
    BY <2>1, <2>2
<1> QED
  BY <1>5, <1>6, <1>10, <1>11 DEF s

\* Enqueue adds one operation at the end of its queue.
LEMMA EnqueueTracks ==
  ASSUME TypeOK, IndexInv, NEW op \in Ops, ~Queued(op), Enqueue(op)
  PROVE  /\ m_queue' \in [Queues -> Seq(Ops)]
         /\ m_index' \in [Ops -> Nat]
         /\ IndexInv'
         /\ \A o \in Ops : Queued(o)' <=> Queued(o) \/ o = op
         /\ \A p \in Queues : \A j \in 1 .. Len(m_queue[p]) :
               j \in 1 .. Len(m_queue'[p]) /\ m_queue'[p][j] = m_queue[p][j]
<1> DEFINE q == QueueOf(op)
           s == m_queue[q]
           t == m_queue'[q]
           n == Len(s)
<1>0. /\ q \in Queues
      /\ m_queue \in [Queues -> Seq(Ops)]
      /\ m_index \in [Ops -> Nat]
      /\ s \in Seq(Ops)
      /\ n \in Nat
  BY QueueOfType DEF TypeOK
<1>1. /\ m_queue' = [m_queue EXCEPT ![q] = Append(s, op)]
      /\ m_index' = [m_index EXCEPT ![op] = n + 1]
  BY DEF Enqueue
<1>2. t = Append(s, op) /\ \A p \in Queues : p # q => m_queue'[p] = m_queue[p]
  BY <1>0, <1>1
<1>3. /\ t \in Seq(Ops)
      /\ Len(t) = n + 1
      /\ \A j \in 1 .. n : t[j] = s[j]
      /\ t[n + 1] = op
  BY <1>0, <1>2, AppendProperties
<1>4. m_queue' \in [Queues -> Seq(Ops)] /\ m_index' \in [Ops -> Nat]
  BY <1>0, <1>1, <1>2, <1>3
<1>5. \A o \in Ops : m_index'[o] = IF o = op THEN n + 1 ELSE m_index[o]
  BY <1>0, <1>1
<1>6. \A p \in Queues : \A j \in 1 .. Len(m_queue[p]) :
         /\ m_queue[p][j] \in Ops
         /\ m_queue[p][j] # op
         /\ QueueOf(m_queue[p][j]) = p
         /\ m_index[m_queue[p][j]] = j
  <2> TAKE p \in Queues
  <2> TAKE j \in 1 .. Len(m_queue[p])
  <2>1. m_queue[p][j] \in Ops
    BY <1>0, ElementOfSeq
  <2>2. QueueOf(m_queue[p][j]) = p /\ m_index[m_queue[p][j]] = j
    BY DEF IndexInv
  <2> QED
    BY <2>1, <2>2 DEF Queued
<1> HIDE DEF s, t, n
<1>7. \A p \in Queues : \A j \in 1 .. Len(m_queue[p]) :
         j \in 1 .. Len(m_queue'[p]) /\ m_queue'[p][j] = m_queue[p][j]
  <2> TAKE p \in Queues
  <2>1. CASE p = q
    BY <1>0, <1>3, <2>1 DEF s, t, n
  <2>2. CASE p # q
    BY <1>2, <2>2
  <2> QED
    BY <2>1, <2>2
<1>8. IndexInv'
  <2> SUFFICES ASSUME NEW p \in Queues, NEW j \in 1 .. Len(m_queue'[p])
               PROVE  QueueOf(m_queue'[p][j]) = p /\ m_index'[m_queue'[p][j]] = j
    BY DEF IndexInv
  <2>1. CASE j \in 1 .. Len(m_queue[p])
    BY <1>5, <1>6, <1>7, <2>1
  <2>2. CASE j \notin 1 .. Len(m_queue[p])
    <3>1. p = q /\ j = n + 1
      <4>1. p = q
        BY <1>2, <2>2
      <4> QED
        BY <1>0, <1>3, <2>2, <4>1 DEF s, t, n
    <3> QED
      BY <1>3, <1>5, <3>1 DEF t
  <2> QED
    BY <2>1, <2>2
<1>9. ASSUME NEW o \in Ops  PROVE Queued(o)' <=> Queued(o) \/ o = op
  <2>0. QueueOf(o) \in Queues
    BY QueueOfType
  <2>1. ASSUME Queued(o)  PROVE Queued(o)'
    BY <1>7, <2>0, <2>1 DEF Queued
  <2>2. Queued(op)'
    BY <1>0, <1>3 DEF Queued, t
  <2>3. ASSUME Queued(o)', o # op  PROVE Queued(o)
    <3>1. PICK j \in 1 .. Len(m_queue'[QueueOf(o)]) : m_queue'[QueueOf(o)][j] = o
      BY <2>3 DEF Queued
    <3>2. j \in 1 .. Len(m_queue[QueueOf(o)])
      <4>1. CASE QueueOf(o) = q
        BY <1>0, <1>3, <2>3, <3>1, <4>1 DEF s, t, n
      <4>2. CASE QueueOf(o) # q
        BY <1>2, <2>0, <3>1, <4>2
      <4> QED
        BY <4>1, <4>2
    <3> QED
      BY <1>7, <2>0, <3>1, <3>2 DEF Queued
  <2> QED
    BY <2>1, <2>2, <2>3
<1> QED
  BY <1>4, <1>7, <1>8, <1>9

\* Steps that leave the queues alone leave the positions alone.
LEMMA QueuesUnchanged ==
  ASSUME UNCHANGED queues
  PROVE  /\ IndexInv' <=> IndexInv
         /\ \A op \in Ops : Queued(op)' <=> Queued(op)
BY DEF queues, IndexInv, Queued

\* The operation whose callback runs is one that is queued.
LEMMA RunningQueued ==
  ASSUME CallbackInv, pc = "callback"
  PROVE  /\ m_queue[now][i] \in Ops
         /\ QueueOf(m_queue[now][i]) = now
         /\ Queued(m_queue[now][i])
         /\ calls[m_queue[now][i]] = 1
<1>1. now \in Queues /\ m_queue[now] \in Seq(Ops) /\ i \in 1 .. Len(m_queue[now])
  BY DEF CallbackInv, TypeOK, RunningInv
<1>2. m_queue[now][i] \in Ops
  BY <1>1, ElementOfSeq
<1> QED
  BY <1>1, <1>2 DEF CallbackInv, IndexInv, RunningInv, Queued

\* A request that is held and not ready finds its own operation.
LEMMA HeldFinds ==
  ASSUME CallbackInv, NEW op \in Ops, Queued(op)
  PROVE  /\ m_index[op] \in 1 .. Len(m_queue[QueueOf(op)])
         /\ m_queue[QueueOf(op)][m_index[op]] = op
<1>1. PICK k \in 1 .. Len(m_queue[QueueOf(op)]) : m_queue[QueueOf(op)][k] = op
  BY DEF Queued
<1> QED
  BY <1>1, QueueOfType DEF CallbackInv, IndexInv

\* MPI completes an operation.
LEMMA MatchInv == ASSUME CallbackInv, NEW op \in Ops, Match(op)  PROVE CallbackInv'
<1> USE DEF Match, counters
<1>0. TypeOK /\ OpInv(op)
  BY DEF CallbackInv
<1>1. TypeOK'
  BY <1>0 DEF TypeOK, queues
<1>2. IndexInv' /\ \A o \in Ops : Queued(o)' <=> Queued(o)
  BY QueuesUnchanged DEF CallbackInv
<1>3. ASSUME NEW o \in Ops  PROVE OpInv(o)'
  <2>1. OpInv(o)
    BY DEF CallbackInv
  <2>2. /\ Running' = Running
        /\ req'[o] = req[o] \/ (o = op /\ req[o] = "active" /\ req'[o] = "complete")
    BY <1>0 DEF Running, queues, TypeOK
  <2> QED
    BY <1>2, <2>1, <2>2 DEF OpInv
<1>4. RunningInv'
  BY DEF CallbackInv, RunningInv, queues
<1> QED
  BY <1>1, <1>2, <1>3, <1>4 DEF CallbackInv

\* An operation is complete when it is posted.
LEMMA PostReadyInv == ASSUME CallbackInv, NEW op \in Ops, PostReady(op)  PROVE CallbackInv'
<1> USE DEF PostReady, Invoke
<1>0. TypeOK /\ OpInv(op) /\ QueueOf(op) \in Kinds
  BY QueueOfType DEF CallbackInv, Kinds
<1>1. TypeOK'
  BY <1>0 DEF TypeOK, queues
<1>2. IndexInv' /\ \A o \in Ops : Queued(o)' <=> Queued(o)
  BY QueuesUnchanged DEF CallbackInv
<1>3. \A o \in Ops : /\ o # op => calls'[o] = calls[o] /\ req'[o] = req[o]
                     /\ o = op => calls'[o] = 1 /\ req'[o] = "null"
  BY <1>0 DEF TypeOK, OpInv
<1>4. ASSUME NEW o \in Ops  PROVE OpInv(o)'
  <2>1. OpInv(o)
    BY DEF CallbackInv
  <2>2. Running' = Running
    BY DEF Running, queues
  <2> QED
    BY <1>0, <1>2, <1>3, <2>1, <2>2 DEF OpInv
<1>5. RunningInv'
  <2> SUFFICES ASSUME pc = "callback"
               PROVE  i \in 1 .. Len(m_queue[now]) /\ calls'[m_queue[now][i]] = 1
    BY DEF RunningInv, queues
  <2> QED
    BY <1>3, RunningQueued DEF CallbackInv, RunningInv
<1> QED
  BY <1>1, <1>2, <1>4, <1>5 DEF CallbackInv

\* An operation is put into its queue.
LEMMA EnqueueInv == ASSUME CallbackInv, NEW op \in Ops, Enqueue(op)  PROVE CallbackInv'
<1>0. TypeOK /\ IndexInv /\ OpInv(op) /\ req[op] = "none" /\ ~Queued(op)
  BY DEF CallbackInv, OpInv, Enqueue
<1>1. /\ m_queue' \in [Queues -> Seq(Ops)]
      /\ m_index' \in [Ops -> Nat]
      /\ IndexInv'
      /\ \A o \in Ops : Queued(o)' <=> Queued(o) \/ o = op
      /\ \A p \in Queues : \A j \in 1 .. Len(m_queue[p]) :
            j \in 1 .. Len(m_queue'[p]) /\ m_queue'[p][j] = m_queue[p][j]
  BY <1>0, EnqueueTracks
<1> USE DEF Enqueue, counters
<1>2. TypeOK'
  BY <1>0, <1>1 DEF TypeOK
<1>3. \A o \in Ops : req'[o] = IF o = op THEN "active" ELSE req[o]
  BY <1>0 DEF TypeOK
<1>4. pc = "callback" => /\ i \in 1 .. Len(m_queue'[now])
                         /\ m_queue'[now][i] = m_queue[now][i]
  BY <1>0, <1>1 DEF CallbackInv, RunningInv, TypeOK
<1>5. Running' = Running
  BY <1>4 DEF Running
<1> HIDE DEF Enqueue
<1>6. held' = held \cup {op} /\ UNCHANGED <<m_ready, calls, cancelled, pc, now, i>>
  BY DEF Enqueue
<1>7. ASSUME NEW o \in Ops  PROVE OpInv(o)'
  <2>1. OpInv(o)
    BY DEF CallbackInv
  <2> QED
    BY <1>0, <1>1, <1>3, <1>5, <1>6, <2>1 DEF OpInv
<1>8. RunningInv'
  BY <1>4, <1>6 DEF CallbackInv, RunningInv
<1> QED
  BY <1>1, <1>2, <1>7, <1>8 DEF CallbackInv

\* A request tests true.
LEMMA TestInv == ASSUME CallbackInv, NEW op \in Ops, Test(op)  PROVE CallbackInv'
<1> USE DEF Test, counters
<1>1. TypeOK'
  BY DEF CallbackInv, TypeOK, queues
<1>2. IndexInv' /\ \A o \in Ops : Queued(o)' <=> Queued(o)
  BY QueuesUnchanged DEF CallbackInv
<1>3. ASSUME NEW o \in Ops  PROVE OpInv(o)'
  <2>1. OpInv(o)
    BY DEF CallbackInv
  <2>2. Running' = Running
    BY DEF Running, queues
  <2> QED
    BY <1>2, <2>1, <2>2 DEF OpInv
<1>4. RunningInv'
  BY DEF CallbackInv, RunningInv, queues
<1> QED
  BY <1>1, <1>2, <1>3, <1>4 DEF CallbackInv

\* A caller that has tested its request cancels its own operation.
LEMMA CancelsOwn ==
  ASSUME CallbackInv, ~CancelsUntested, NEW op \in Ops, Cancel(op)
  PROVE  /\ QueueOf(op) = "recv"
         /\ Queued(op)
         /\ m_index[op] \in 1 .. Len(m_queue["recv"])
         /\ m_queue["recv"][m_index[op]] = op
<1>1. QueueOf(op) = "recv"
  BY OpsAssumption DEF Cancel, QueueOf
<1>2. Queued(op)
  BY DEF Cancel, CallbackInv, OpInv
<1> QED
  BY <1>1, <1>2, HeldFinds

\* A receive is cancelled, or MPI refuses to.
LEMMA CancelInv ==
  ASSUME CallbackInv, ~CancelsUntested, NEW op \in Ops, Cancel(op)
  PROVE  CallbackInv'
<1>0. /\ TypeOK /\ IndexInv /\ OpInv(op)
      /\ Queued(op)
      /\ m_index[op] \in 1 .. Len(m_queue["recv"])
      /\ m_queue["recv"][m_index[op]] = op
      /\ "recv" \in Queues
  BY CancelsOwn DEF CallbackInv, Queues
<1>1. /\ pc = "caller"
      /\ req[op] # "null"
      /\ req' = [req EXCEPT ![op] = "null"]
      /\ IF req[op] = "active"
           THEN /\ Remove("recv", m_index[op])
                /\ held' = held \ {op}
                /\ cancelled' = cancelled \cup {op}
                /\ m_progressed' = [m_progressed EXCEPT !["cancel"] = @ + 1]
           ELSE UNCHANGED <<queues, held, cancelled, m_progressed>>
      /\ UNCHANGED <<m_ready, pc, now, i, completed, reported, calls>>
  BY <1>0 DEF Cancel
<1>2. calls[op] = 0 /\ op \notin m_ready
  BY <1>0, <1>1 DEF OpInv
<1>3. \A o \in Ops : req'[o] = IF o = op THEN "null" ELSE req[o]
  BY <1>0, <1>1 DEF TypeOK
<1>4. Running = {} /\ Running' = {} /\ RunningInv'
  BY <1>1 DEF Running, RunningInv
<1>5. CASE req[op] = "active"
  <2>1. /\ m_queue' \in [Queues -> Seq(Ops)]
        /\ m_index' \in [Ops -> Nat]
        /\ IndexInv'
        /\ \A o \in Ops : Queued(o)' <=> Queued(o) /\ o # op
    BY <1>0, <1>1, <1>5, RemoveTracks
  <2>2. TypeOK'
    <3>1. held' \subseteq Ops /\ cancelled' \subseteq Ops /\ m_progressed' \in [Kinds -> Nat]
      BY SMTT(20), <1>0, <1>1, <1>5 DEF TypeOK, Kinds
    <3>2. req' \in [Ops -> {"none", "active", "complete", "null"}]
      BY <1>0, <1>1 DEF TypeOK
    <3>3. UNCHANGED <<m_ready, pc, now, i, completed, reported, calls>>
      BY <1>1
    <3> QED
      BY <1>0, <2>1, <3>1, <3>2, <3>3 DEF TypeOK
  <2>3. ASSUME NEW o \in Ops  PROVE OpInv(o)'
    <3>1. OpInv(o)
      BY DEF CallbackInv
    <3> QED
      BY <1>1, <1>2, <1>3, <1>4, <1>5, <2>1, <3>1 DEF OpInv
  <2> QED
    BY <1>4, <2>1, <2>2, <2>3 DEF CallbackInv
<1>6. CASE req[op] # "active"
  <2>1. UNCHANGED <<queues, held, cancelled, m_progressed>>
    BY <1>1, <1>6
  <2>2. IndexInv' /\ \A o \in Ops : Queued(o)' <=> Queued(o)
    BY <1>0, <2>1, QueuesUnchanged
  <2>3. TypeOK'
    BY <1>0, <1>1, <2>1 DEF TypeOK, queues
  <2>4. ASSUME NEW o \in Ops  PROVE OpInv(o)'
    <3>1. OpInv(o)
      BY DEF CallbackInv
    <3> QED
      BY <1>1, <1>2, <1>3, <1>4, <2>1, <2>2, <3>1 DEF OpInv
  <2> QED
    BY <1>4, <2>2, <2>3, <2>4 DEF CallbackInv
<1> QED
  BY <1>5, <1>6

\* The callback of a complete operation is invoked.
LEMMA InvokeCallbackInv ==
  ASSUME CallbackInv, NEW q \in Queues, InvokeCallback(q)
  PROVE  CallbackInv'
<1>0. TypeOK /\ IndexInv
  BY DEF CallbackInv
<1>1. PICK k \in 1 .. Len(m_queue[q]) :
         /\ req[m_queue[q][k]] = "complete"
         /\ req' = [req EXCEPT ![m_queue[q][k]] = "null"]
         /\ i' = k
         /\ Invoke(m_queue[q][k])
  BY DEF InvokeCallback
<1>2. /\ pc = "scan" /\ now = q /\ pc' = "callback"
      /\ UNCHANGED <<queues, now, m_ready, held, counters, cancelled>>
  BY DEF InvokeCallback
<1> DEFINE op == m_queue[q][k]
<1>3. k \in 1 .. Len(m_queue[q]) /\ op \in Ops
  BY <1>0, ElementOfSeq DEF TypeOK
<1>4. OpInv(op) /\ calls[op] = 0 /\ op \notin cancelled
  BY <1>1, <1>3 DEF CallbackInv, OpInv
<1>5. Running = {} /\ Running' = {op}
  BY <1>1, <1>2 DEF Running, queues
<1>6. Queued(op)
  BY <1>0, <1>3 DEF Queued, IndexInv
<1> HIDE DEF op
<1>7. \A o \in Ops : /\ req'[o] = IF o = op THEN "null" ELSE req[o]
                     /\ calls'[o] = IF o = op THEN 1 ELSE calls[o]
  BY <1>0, <1>1, <1>4 DEF op, Invoke, TypeOK
<1>8. IndexInv' /\ \A o \in Ops : Queued(o)' <=> Queued(o)
  BY <1>0, <1>2, QueuesUnchanged
<1>9. TypeOK'
  BY SMTT(20), <1>0, <1>1, <1>2, <1>3 DEF TypeOK, Invoke, queues, counters, op
<1>10. ASSUME NEW o \in Ops  PROVE OpInv(o)'
  <2>1. OpInv(o)
    BY DEF CallbackInv
  <2>2. op \notin m_ready
    BY <1>4 DEF OpInv
  <2> QED
    BY <1>2, <1>4, <1>5, <1>6, <1>7, <1>8, <2>1, <2>2 DEF OpInv
<1>11. RunningInv'
  BY <1>1, <1>2, <1>3, <1>7 DEF RunningInv, queues, op
<1> QED
  BY <1>8, <1>9, <1>10, <1>11 DEF CallbackInv

\* The callback returns.
LEMMA CallbackReturnsInv ==
  ASSUME CallbackInv, NEW q \in Queues, CallbackReturns(q)
  PROVE  CallbackInv'
<1> DEFINE op == m_queue[q][i]
<1>0. TypeOK /\ IndexInv
  BY DEF CallbackInv
<1>1. /\ pc = "callback" /\ now = q /\ pc' = "scan" /\ i' = 0
      /\ completed' = completed + 1
      /\ m_ready' = m_ready \cup {op}
      /\ Remove(q, i)
      /\ UNCHANGED <<now, held, req, m_progressed, reported, calls, cancelled>>
  BY DEF CallbackReturns
<1>2. op \in Ops /\ Queued(op) /\ calls[op] = 1 /\ i \in 1 .. Len(m_queue[q])
  BY <1>1, RunningQueued DEF CallbackInv, RunningInv
<1>3. /\ m_queue' \in [Queues -> Seq(Ops)]
      /\ m_index' \in [Ops -> Nat]
      /\ IndexInv'
      /\ \A o \in Ops : Queued(o)' <=> Queued(o) /\ o # op
  BY <1>0, <1>1, <1>2, RemoveTracks
<1>4. Running = {op} /\ Running' = {} /\ RunningInv'
  BY <1>1 DEF Running, RunningInv
<1>5. OpInv(op)
  BY <1>2 DEF CallbackInv
<1> HIDE DEF op
<1>6. TypeOK'
  <2>1. m_ready' \subseteq Ops /\ completed' \in Nat /\ i' \in Nat /\ pc' = "scan"
    BY <1>0, <1>1, <1>2 DEF TypeOK
  <2>2. UNCHANGED <<now, held, req, m_progressed, reported, calls, cancelled>>
    BY <1>1
  <2> QED
    BY <1>0, <1>3, <2>1, <2>2 DEF TypeOK
<1>7. ASSUME NEW o \in Ops  PROVE OpInv(o)'
  <2>1. OpInv(o)
    BY DEF CallbackInv
  <2> QED
    BY <1>1, <1>2, <1>3, <1>4, <1>5, <2>1 DEF OpInv
<1> QED
  BY <1>3, <1>4, <1>6, <1>7 DEF CallbackInv

\* progress starts, goes on to the other queue, and returns.
LEMMA ScanInv ==
  ASSUME CallbackInv, StartProgress \/ SendsProgressed \/ ProgressReturns
  PROVE  CallbackInv'
<1> USE DEF StartProgress, SendsProgressed, ProgressReturns, Drained, counters
<1>1. /\ UNCHANGED <<queues, m_ready, held, req, i, calls, cancelled>>
      /\ pc # "callback" /\ pc' # "callback"
  BY DEF CallbackInv, TypeOK
<1>2. IndexInv' /\ \A o \in Ops : Queued(o)' <=> Queued(o)
  BY <1>1, QueuesUnchanged DEF CallbackInv
<1>3. Running = {} /\ Running' = {} /\ RunningInv'
  BY <1>1 DEF Running, RunningInv
<1>4. TypeOK'
  <2>1. TypeOK
    BY DEF CallbackInv
  <2>2. CASE StartProgress
    BY <2>1, <2>2 DEF TypeOK, queues
  <2>3. CASE SendsProgressed
    BY <2>1, <2>3 DEF TypeOK, queues, Queues, Kinds
  <2>4. CASE ProgressReturns
    <3> DEFINE status == [m_progressed EXCEPT !["recv"] = @ + completed]
    <3>1. status \in [Kinds -> Nat]
      BY <2>1 DEF TypeOK, Kinds, Queues
    <3>2. reported' = [k \in Kinds |-> reported[k] + status[k]]
      BY <2>4
    <3> HIDE DEF status
    <3>3. reported' \in [Kinds -> Nat]
      BY <2>1, <3>1, <3>2 DEF TypeOK
    <3>4. /\ m_progressed' = [k \in Kinds |-> 0]
          /\ completed' = 0 /\ pc' = "caller" /\ now' = "send"
      BY <2>4
    <3> HIDE DEF StartProgress, SendsProgressed, ProgressReturns, Drained
    <3> QED
      BY <1>1, <2>1, <3>3, <3>4 DEF TypeOK, queues, Queues
  <2> QED
    BY <2>2, <2>3, <2>4
<1> HIDE DEF StartProgress, SendsProgressed, ProgressReturns
<1>5. ASSUME NEW o \in Ops  PROVE OpInv(o)'
  <2>1. OpInv(o)
    BY DEF CallbackInv
  <2> QED
    BY <1>1, <1>2, <1>3, <2>1 DEF OpInv
<1> QED
  BY <1>2, <1>3, <1>4, <1>5 DEF CallbackInv

\* Every step preserves the invariant.
LEMMA CallbackNext ==
  ASSUME CallbackInv, ~CancelsUntested, [Next]_vars
  PROVE  CallbackInv'
<1>1. CASE Progress
  BY <1>1, ScanInv, InvokeCallbackInv, CallbackReturnsInv DEF Progress
<1>2. CASE Program
  BY <1>2, PostReadyInv, EnqueueInv, TestInv, CancelInv DEF Program
<1>3. CASE \E op \in Ops : Match(op)
  BY <1>3, MatchInv
<1>4. CASE UNCHANGED vars
  <2>1. TypeOK' /\ RunningInv' /\ Running' = Running
    BY <1>4 DEF vars, queues, counters, CallbackInv, TypeOK, RunningInv, Running
  <2>2. IndexInv' /\ \A o \in Ops : Queued(o)' <=> Queued(o)
    BY <1>4, QueuesUnchanged DEF vars, CallbackInv
  <2>3. ASSUME NEW o \in Ops  PROVE OpInv(o)'
    <3>1. OpInv(o)
      BY DEF CallbackInv
    <3> QED
      BY <1>4, <2>1, <2>2, <3>1 DEF OpInv, vars
  <2> QED
    BY <2>1, <2>2, <2>3 DEF CallbackInv
<1> QED
  BY <1>1, <1>2, <1>3, <1>4 DEF Next

\* A new communicator satisfies the invariant.
LEMMA CallbackInit == Init => CallbackInv
<1> SUFFICES ASSUME Init  PROVE CallbackInv
  OBVIOUS
<1> USE DEF Init
<1>1. TypeOK
  BY DEF TypeOK, Queues
<1>2. IndexInv /\ \A op \in Ops : ~Queued(op)
  BY QueueOfType DEF IndexInv, Queued
<1>3. RunningInv /\ \A op \in Ops : OpInv(op)
  BY <1>2 DEF RunningInv, OpInv
<1> QED
  BY <1>1, <1>2, <1>3 DEF CallbackInv

\* CallbackInv holds for callers that test before they cancel.
THEOREM CallbackInvariant == ASSUME ~CancelsUntested  PROVE Spec => []CallbackInv
<1>1. CallbackInv /\ [Next]_vars => CallbackInv'
  BY CallbackNext
<1> QED
  BY <1>1, CallbackInit, PTL DEF Spec

\* The index in a request is where its operation is, as long as it is queued
\* (callback_utils.hpp:192-197, 210-219, 231-244).
THEOREM CallbackTracksElements ==
  ASSUME ~CancelsUntested  PROVE Spec => []RequestTracksElement
<1>1. CallbackInv => RequestTracksElement
  BY DEF CallbackInv, OpInv, RequestTracksElement, TypeOK
<1> QED
  BY <1>1, CallbackInvariant, PTL

\* Only the holder of a request cancels its operation, if it tests first
\* (request_cb.hpp:50-60).
THEOREM CallbackCancelsOwn ==
  ASSUME ~CancelsUntested  PROVE Spec => []CancelsOwnOperation
<1>1. CallbackInv => CancelsOwnOperation
  BY DEF CallbackInv, OpInv, CancelsOwnOperation, TypeOK
<1> QED
  BY <1>1, CallbackInvariant, PTL
-----------------------------------------------------------------------------
\* The operations of queue q whose callback was invoked.
Called(q) == {op \in Ops : QueueOf(op) = q /\ calls[op] > 0}

\* progress starts to count at zero.
CountInv == pc = "caller" => completed = 0

\* The first call of an operation adds it to those called in its queue.
LEMMA CalledGrows ==
  ASSUME CallbackInv, NEW op \in Ops, calls[op] = 0, Invoke(op), NEW q \in Queues
  PROVE  /\ Cardinality(Called(q)) \in Nat
         /\ Cardinality(Called(q)')
              = IF q = QueueOf(op) THEN Cardinality(Called(q)) + 1 ELSE Cardinality(Called(q))
<1>1. \A o \in Ops : calls[o] \in Nat /\ calls'[o] = IF o = op THEN 1 ELSE calls[o]
  BY DEF Invoke, CallbackInv, TypeOK
<1>2. IsFiniteSet(Called(q)) /\ Cardinality(Called(q)) \in Nat
  BY OpsAssumption, FS_Subset, FS_CardinalityType DEF Called, Ops
<1>3. CASE q = QueueOf(op)
  <2>1. Called(q)' = Called(q) \cup {op} /\ op \notin Called(q)
    BY <1>1, <1>3 DEF Called
  <2> QED
    BY <1>2, <1>3, <2>1, FS_AddElement
<1>4. CASE q # QueueOf(op)
  <2>1. Called(q)' = Called(q)
    BY <1>1, <1>4 DEF Called
  <2> QED
    BY <1>2, <1>4, <2>1
<1> QED
  BY <1>3, <1>4

\* The counts are numbers.
LEMMA CountTypes ==
  ASSUME CallbackInv
  PROVE  /\ completed \in Nat
         /\ \A k \in Queues \cup {"cancel"} : reported[k] \in Nat /\ m_progressed[k] \in Nat
BY DEF CallbackInv, TypeOK, Kinds

\* ReportsEveryCallback in terms of Called.
LEMMA ReportsCalled ==
  ReportsEveryCallback <=>
    /\ \A q \in Queues : reported[q] + Unreported(q) = Cardinality(Called(q))
    /\ reported["cancel"] + m_progressed["cancel"] = Cardinality(cancelled)
BY DEF ReportsEveryCallback, Called

\* A step that calls nobody and leaves each sum as it is keeps the count.
LEMMA CountKept ==
  ASSUME ReportsEveryCallback, UNCHANGED <<calls, cancelled>>,
         \A q \in Queues : reported'[q] + Unreported(q)' = reported[q] + Unreported(q),
         reported'["cancel"] + m_progressed'["cancel"]
           = reported["cancel"] + m_progressed["cancel"]
  PROVE  ReportsEveryCallback'
BY DEF ReportsEveryCallback

\* A post that is complete at once is counted where it is called.
LEMMA PostReadyCounts ==
  ASSUME CallbackInv, ReportsEveryCallback, NEW op \in Ops, PostReady(op)
  PROVE  ReportsEveryCallback'
<1>1. calls[op] = 0 /\ Invoke(op) /\ QueueOf(op) \in Queues
  BY QueueOfType DEF PostReady, CallbackInv, OpInv
<1>2. \A k \in Kinds : m_progressed'[k] = IF k = QueueOf(op) THEN m_progressed[k] + 1
                                                            ELSE m_progressed[k]
  BY <1>1 DEF PostReady, CallbackInv, TypeOK
<1>3. UNCHANGED <<reported, pc, now, completed, cancelled>>
  BY DEF PostReady
<1>4. \A q \in Queues : Unreported(q)' = IF q = QueueOf(op) THEN Unreported(q) + 1
                                                           ELSE Unreported(q)
  BY <1>2, <1>3, CountTypes DEF Unreported, Kinds
<1>5. \A q \in Queues : Unreported(q) \in Nat
  BY CountTypes DEF Unreported
<1>6. m_progressed'["cancel"] = m_progressed["cancel"]
  BY <1>1, <1>2 DEF Kinds, Queues
<1>7. \A q \in Queues : reported'[q] + Unreported(q)' = Cardinality(Called(q)')
  BY <1>1, <1>3, <1>4, <1>5, CountTypes, CalledGrows, ReportsCalled
<1> QED
  BY <1>3, <1>6, <1>7, ReportsCalled DEF ReportsEveryCallback, Called

\* So is a callback that progress invokes.
LEMMA InvokeCallbackCounts ==
  ASSUME CallbackInv, ReportsEveryCallback, NEW p \in Queues, InvokeCallback(p)
  PROVE  ReportsEveryCallback'
<1>1. PICK k \in 1 .. Len(m_queue[p]) :
         req[m_queue[p][k]] = "complete" /\ Invoke(m_queue[p][k])
  BY DEF InvokeCallback
<1> DEFINE op == m_queue[p][k]
<1>2. op \in Ops /\ QueueOf(op) = p /\ calls[op] = 0
  <2>1. op \in Ops
    BY <1>1, ElementOfSeq DEF CallbackInv, TypeOK
  <2> QED
    BY <1>1, <2>1 DEF CallbackInv, IndexInv, OpInv
<1>3. /\ pc = "scan" /\ pc' = "callback" /\ now = p
      /\ UNCHANGED <<now, m_progressed, reported, completed, cancelled>>
  BY DEF InvokeCallback, counters
<1>4. \A q \in Queues : /\ Unreported(q) \in Nat
                        /\ Unreported(q)' = IF q = p THEN Unreported(q) + 1 ELSE Unreported(q)
  BY <1>3, CountTypes DEF Unreported
<1>5. Invoke(op)
  BY <1>1
<1> HIDE DEF op
<1>6. ASSUME NEW q \in Queues
      PROVE  reported'[q] + Unreported(q)' = Cardinality(Called(q)')
  <2>1. reported[q] + Unreported(q) = Cardinality(Called(q))
    BY ReportsCalled
  <2>2. Cardinality(Called(q)')
          = IF q = p THEN Cardinality(Called(q)) + 1 ELSE Cardinality(Called(q))
    BY <1>2, <1>5, CalledGrows
  <2> QED
    BY <1>3, <1>4, <2>1, <2>2, CountTypes
<1> QED
  BY <1>3, <1>6, ReportsCalled DEF ReportsEveryCallback, Called

\* And a cancel that MPI grants.
LEMMA CancelCounts ==
  ASSUME CallbackInv, ReportsEveryCallback, ~CancelsUntested, NEW op \in Ops, Cancel(op)
  PROVE  ReportsEveryCallback'
<1>1. /\ op \in held
      /\ m_queue["recv"][m_index[op]] = op
      /\ UNCHANGED <<pc, now, completed, reported, calls>>
  BY CancelsOwn DEF Cancel
<1>2. CASE req[op] = "active"
  <2>1. /\ cancelled' = cancelled \cup {op}
        /\ m_progressed' = [m_progressed EXCEPT !["cancel"] = @ + 1]
    BY <1>1, <1>2 DEF Cancel
  <2>2. op \notin cancelled /\ cancelled \subseteq Ops
    BY <1>1 DEF CallbackInv, OpInv, TypeOK
  <2>3. /\ Cardinality(cancelled) \in Nat
        /\ Cardinality(cancelled') = Cardinality(cancelled) + 1
    BY <2>1, <2>2, OpsAssumption, FS_Subset, FS_CardinalityType, FS_AddElement DEF Ops
  <2>4. /\ m_progressed'["cancel"] = m_progressed["cancel"] + 1
        /\ \A q \in Queues : m_progressed'[q] = m_progressed[q]
    BY <2>1 DEF CallbackInv, TypeOK, Kinds, Queues
  <2>5. \A q \in Queues : Unreported(q)' = Unreported(q)
    BY <1>1, <2>4 DEF Unreported
  <2>6. reported'["cancel"] + m_progressed'["cancel"] = Cardinality(cancelled')
    BY <1>1, <2>3, <2>4, CountTypes DEF ReportsEveryCallback
  <2> QED
    BY <1>1, <2>5, <2>6 DEF ReportsEveryCallback
<1>3. CASE req[op] # "active"
  <2>1. UNCHANGED <<cancelled, m_progressed>>
    BY <1>1, <1>3 DEF Cancel
  <2> QED
    BY <1>1, <2>1 DEF ReportsEveryCallback, Unreported
<1> QED
  BY <1>2, <1>3

\* progress carries its count over, from variable to variable.
LEMMA ProgressCounts ==
  ASSUME CallbackInv, CountInv, ReportsEveryCallback,
         \/ StartProgress
         \/ \E q \in Queues : CallbackReturns(q)
         \/ SendsProgressed
         \/ ProgressReturns
  PROVE  ReportsEveryCallback' /\ CountInv'
<1>1. CASE StartProgress
  <2>1. /\ pc = "caller" /\ pc' = "scan" /\ completed = 0
        /\ UNCHANGED <<now, m_progressed, reported, completed, calls, cancelled>>
    BY <1>1 DEF StartProgress, counters, CountInv
  <2>2. \A q \in Queues : Unreported(q)' = Unreported(q)
    BY <2>1, CountTypes DEF Unreported
  <2> QED
    BY <2>1, <2>2 DEF ReportsEveryCallback, CountInv
<1>2. ASSUME NEW p \in Queues, CallbackReturns(p)
      PROVE  ReportsEveryCallback' /\ CountInv'
  <2>1. /\ pc = "callback" /\ pc' = "scan" /\ completed' = completed + 1
        /\ UNCHANGED <<now, m_progressed, reported, calls, cancelled>>
    BY <1>2 DEF CallbackReturns
  <2>2. \A q \in Queues : Unreported(q)' = Unreported(q)
    BY <2>1, CountTypes DEF Unreported
  <2> QED
    BY <2>1, <2>2 DEF ReportsEveryCallback, CountInv
<1>3. CASE SendsProgressed
  <2>1. /\ pc = "scan" /\ now = "send" /\ now' = "recv" /\ completed' = 0
        /\ UNCHANGED <<pc, reported, calls, cancelled>>
    BY <1>3 DEF SendsProgressed, Drained
  <2>2. \A k \in Kinds : m_progressed'[k] = IF k = "send" THEN m_progressed[k] + completed
                                                           ELSE m_progressed[k]
    BY <1>3 DEF SendsProgressed, CallbackInv, TypeOK
  <2>3. \A q \in Queues : Unreported(q)' = Unreported(q)
    BY <2>1, <2>2, CountTypes DEF Unreported, Kinds, Queues
  <2>4. m_progressed'["cancel"] = m_progressed["cancel"]
    BY <2>2 DEF Kinds
  <2> QED
    BY <2>1, <2>3, <2>4 DEF ReportsEveryCallback, CountInv
<1>4. CASE ProgressReturns
  <2> DEFINE status == [m_progressed EXCEPT !["recv"] = @ + completed]
  <2>1. /\ pc = "scan" /\ now = "recv" /\ now' = "send" /\ pc' = "caller" /\ completed' = 0
        /\ m_progressed' = [k \in Kinds |-> 0]
        /\ reported' = [k \in Kinds |-> reported[k] + status[k]]
        /\ UNCHANGED <<calls, cancelled>>
    BY <1>4 DEF ProgressReturns, Drained
  <2>2. \A k \in Kinds : status[k] = IF k = "recv" THEN m_progressed[k] + completed
                                                   ELSE m_progressed[k]
    BY DEF CallbackInv, TypeOK
  <2> HIDE DEF status
  <2>3. \A k \in Kinds : m_progressed'[k] = 0 /\ reported'[k] = reported[k] + status[k]
    BY <2>1
  <2>4. \A q \in Queues : reported'[q] + Unreported(q)' = reported[q] + Unreported(q)
    BY <2>1, <2>2, <2>3, CountTypes DEF Unreported, Kinds, Queues
  <2>5. reported'["cancel"] + m_progressed'["cancel"]
          = reported["cancel"] + m_progressed["cancel"]
    BY <2>2, <2>3, CountTypes DEF Kinds
  <2> QED
    BY <2>1, <2>4, <2>5, CountKept DEF CountInv
<1> QED
  BY <1>1, <1>2, <1>3, <1>4

\* Every callback and every cancel is in one progress_status
\* (mpi/communicator_state.hpp:66-73, mpi/communicator.hpp:125-164).
THEOREM CallbackReports == ASSUME ~CancelsUntested  PROVE Spec => []ReportsEveryCallback
<1>1. Init => ReportsEveryCallback /\ CountInv
  <2> SUFFICES ASSUME Init  PROVE ReportsEveryCallback
    BY DEF Init, CountInv
  <2>1. \A q \in Queues : Called(q) = {} /\ reported[q] = 0 /\ Unreported(q) = 0
    BY DEF Init, Called, Unreported, Kinds
  <2>2. cancelled = {} /\ reported["cancel"] = 0 /\ m_progressed["cancel"] = 0
    BY DEF Init, Kinds
  <2> QED
    BY <2>1, <2>2, ReportsCalled, FS_EmptySet
<1>2. CallbackInv /\ ReportsEveryCallback /\ CountInv /\ [Next]_vars
        => ReportsEveryCallback' /\ CountInv'
  <2> SUFFICES ASSUME CallbackInv, ReportsEveryCallback, CountInv, [Next]_vars
               PROVE  ReportsEveryCallback' /\ CountInv'
    OBVIOUS
  <2>1. CASE Progress
    <3>1. ASSUME NEW q \in Queues, InvokeCallback(q)  PROVE CountInv'
      BY <3>1 DEF InvokeCallback, CountInv
    <3> QED
      BY <2>1, <3>1, InvokeCallbackCounts, ProgressCounts DEF Progress
  <2>2. ASSUME NEW op \in Ops, Enqueue(op) \/ Test(op) \/ Match(op)
        PROVE  ReportsEveryCallback' /\ CountInv'
    <3>1. UNCHANGED <<pc, now, m_progressed, reported, completed, calls, cancelled>>
      BY <2>2 DEF Enqueue, Test, Match, counters
    <3> QED
      BY <3>1 DEF ReportsEveryCallback, Unreported, CountInv
  <2>3. ASSUME NEW op \in Ops, PostReady(op) \/ Cancel(op)
        PROVE  ReportsEveryCallback' /\ CountInv'
    <3>1. UNCHANGED <<pc, completed>>
      BY <2>3 DEF PostReady, Cancel
    <3> QED
      BY <2>3, <3>1, PostReadyCounts, CancelCounts DEF CountInv
  <2>4. CASE UNCHANGED vars
    BY <2>4 DEF vars, counters, ReportsEveryCallback, Unreported, CountInv
  <2> QED
    BY <2>1, <2>2, <2>3, <2>4 DEF Next, Program
<1> QED
  BY <1>1, <1>2, CallbackInvariant, PTL DEF Spec
-----------------------------------------------------------------------------
\* Every step of the communicator is a step of Completions, or none: the safety
\* part of ImplementsCompletions.
THEOREM CallbackRefines ==
  ASSUME ~CancelsUntested  PROVE Spec => C!Init /\ [][C!Next]_(C!vars)
<1>1. Init => C!Init
  BY DEF Init, C!Init, posted
<1>2. CallbackInv /\ [Next]_vars => [C!Next]_(C!vars)
  <2> SUFFICES ASSUME CallbackInv, [Next]_vars  PROVE [C!Next]_(C!vars)
    OBVIOUS
  <2>0. TypeOK
    BY DEF CallbackInv
  <2>1. ASSUME NEW op \in Ops, PostReady(op) \/ Enqueue(op)  PROVE C!Post(op)
    <3>1. \A o \in Ops : o # op => req'[o] = req[o]
      BY <2>0, <2>1 DEF PostReady, Enqueue, TypeOK
    <3>2. req[op] = "none" /\ req'[op] # "none" /\ calls[op] = 0 /\ op \notin cancelled
      BY <2>0, <2>1 DEF PostReady, Enqueue, TypeOK, CallbackInv, OpInv
    <3>3. op \notin posted /\ posted' = posted \cup {op}
      BY <3>1, <3>2 DEF posted
    <3>4. CASE PostReady(op)
      <4>1. calls' = [calls EXCEPT ![op] = 1] /\ UNCHANGED <<held, cancelled>>
        BY <3>2, <3>4 DEF PostReady, Invoke
      <4> QED
        BY <3>2, <3>3, <4>1 DEF C!Post, C!Call
    <3>5. CASE Enqueue(op)
      <4>1. held' = held \cup {op} /\ UNCHANGED <<calls, cancelled>>
        BY <3>5 DEF Enqueue, counters
      <4> QED
        BY <3>3, <4>1 DEF C!Post
    <3> QED
      BY <2>1, <3>4, <3>5
  <2>2. ASSUME NEW op \in Ops, Test(op)  PROVE C!Test(op)
    <3>1. /\ op \in held /\ op \in m_ready
          /\ held' = held \ {op}
          /\ UNCHANGED <<req, calls, cancelled>>
      BY <2>2 DEF Test
    <3>2. calls[op] = 1
      BY <3>1 DEF CallbackInv, OpInv
    <3> QED
      BY <3>1, <3>2 DEF C!Test, posted
  <2>3. ASSUME NEW op \in Ops, Cancel(op)  PROVE [C!Next]_(C!vars)
    <3>1. /\ op \in held
          /\ m_queue["recv"][m_index[op]] = op
          /\ req[op] # "null" /\ calls[op] = 0
          /\ req' = [req EXCEPT ![op] = "null"]
          /\ UNCHANGED calls
      BY <2>3, CancelsOwn DEF Cancel, CallbackInv, OpInv
    <3>2. posted' = posted
      <4>1. req[op] # "none"
        BY <3>1 DEF CallbackInv, OpInv
      <4>2. \A o \in Ops : req'[o] = IF o = op THEN "null" ELSE req[o]
        BY <2>0, <3>1 DEF TypeOK
      <4> QED
        BY <4>1, <4>2 DEF posted
    <3>3. CASE req[op] = "active"
      <4>1. held' = held \ {op} /\ cancelled' = cancelled \cup {op}
        BY <2>3, <3>1, <3>3 DEF Cancel
      <4>2. C!Cancel(op)
        BY <3>1, <3>2, <4>1 DEF C!Cancel
      <4> QED
        BY <4>2 DEF C!Next
    <3>4. CASE req[op] # "active"
      <4>1. UNCHANGED <<held, cancelled>>
        BY <2>3, <3>1, <3>4 DEF Cancel
      <4> QED
        BY <3>1, <3>2, <4>1 DEF C!vars
    <3> QED
      BY <3>3, <3>4
  <2>4. ASSUME NEW q \in Queues, InvokeCallback(q)  PROVE C!Next
    <3>1. PICK k \in 1 .. Len(m_queue[q]) :
             /\ req[m_queue[q][k]] = "complete"
             /\ req' = [req EXCEPT ![m_queue[q][k]] = "null"]
             /\ Invoke(m_queue[q][k])
      BY <2>4 DEF InvokeCallback
    <3> DEFINE op == m_queue[q][k]
    <3>2. op \in Ops
      BY <2>0, <3>1, ElementOfSeq DEF TypeOK
    <3>3. calls[op] = 0 /\ op \notin cancelled
      <4>1. OpInv(op) /\ calls[op] = 0
        BY <3>1, <3>2 DEF CallbackInv, OpInv
      <4>2. Queued(op)
        BY <3>1 DEF Queued, CallbackInv, IndexInv
      <4> QED
        BY <4>1, <4>2 DEF OpInv
    <3> HIDE DEF op
    <3>4. calls' = [calls EXCEPT ![op] = 1] /\ UNCHANGED <<held, cancelled>>
      <4>1. calls' = [calls EXCEPT ![op] = calls[op] + 1]
        BY <3>1 DEF Invoke, op
      <4> QED
        BY <2>4, <3>3, <4>1 DEF InvokeCallback
    <3>5. \A o \in Ops : req'[o] = IF o = op THEN "null" ELSE req[o]
      BY <2>0, <3>1 DEF TypeOK, op
    <3>6. op \in posted /\ posted' = posted
      BY <3>1, <3>2, <3>5 DEF posted, op
    <3>7. C!Complete(op)
      BY <3>3, <3>4, <3>6 DEF C!Complete, C!Call
    <3> QED
      BY <3>2, <3>7 DEF C!Next
  <2>5. ASSUME NEW op \in Ops, Match(op)  PROVE UNCHANGED C!vars
    <3>1. /\ req[op] = "active"
          /\ \A o \in Ops : req'[o] = IF o = op THEN "complete" ELSE req[o]
          /\ UNCHANGED <<held, calls, cancelled>>
      BY <2>0, <2>5 DEF Match, TypeOK, counters
    <3>2. posted' = posted
      BY <3>1 DEF posted
    <3> QED
      BY <3>1, <3>2 DEF C!vars
  <2>6. CASE \/ StartProgress \/ SendsProgressed \/ ProgressReturns
             \/ \E q \in Queues : CallbackReturns(q)
             \/ UNCHANGED vars
    <3>1. UNCHANGED <<req, held, calls, cancelled>>
      BY <2>6 DEF StartProgress, SendsProgressed, ProgressReturns, CallbackReturns, vars
    <3> QED
      BY <3>1 DEF C!vars, posted
  <2> QED
    BY <2>1, <2>2, <2>3, <2>4, <2>5, <2>6 DEF Next, Progress, Program, C!Next
<1> QED
  BY <1>1, <1>2, CallbackInvariant, PTL DEF Spec
=============================================================================
