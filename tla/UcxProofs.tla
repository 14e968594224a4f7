----------------------------- MODULE UcxProofs -----------------------------
(***************************************************************************)
(* The communicators over UCX, for every number of threads, every set of   *)
(* operations and every call of send_multi: who is inside the lock, what   *)
(* is in the storage of requests, what is counted and when send_multi      *)
(* notifies; and that the communicators implement Completions step by      *)
(* step.  First, the life of the contexts, for every number of ranks.      *)
(*                                                                         *)
(* The invariants stand on each other: LockInv gives the stacks and the    *)
(* lock, LifeInv what each call on a stack may rely on, CountInv and       *)
(* MultiInv add the counters.                                              *)
(***************************************************************************)
EXTENDS UcxCommunicator, UcxContext, FiniteSetTheorems, SequenceTheorems,
        NaturalsInduction, WellFoundedInduction, TLAPS

\* A rank leaves the exchange of addresses only when every rank has published its
\* own, whatever the order of the broadcasts; and a worker is destroyed after every
\* endpoint that ends in it, and after every rank has closed its own.
PublishedFirst ==
  /\ use_pmi => \A r \in Ranks : root[r] = 0
  /\ ~use_pmi => \A r \in Ranks : phase[r] # "fence"
  /\ ~use_pmi => \A r \in Ranks : phase[r] \in {"worker", "init"}
                  => \A d \in Ranks : d < root[r] => d \in db[r]
  /\ \A r, d \in Ranks : d < root[r] => phase[d] # "worker"
  /\ \A r \in Ranks : phase[r] \notin {"worker", "init", "fence"}
                        => \A d \in Ranks : phase[d] # "worker"
  /\ \A r \in Ranks : phase[r] = "up" => db[r] = Ranks

WorkersLast ==
  /\ \A d \in Ranks : phase[d] \notin {"worker", "gone"} => Shared \in alive[d]
  /\ \A e \in eps : phase[e.rank] \in {"up", "drain", "close"} /\ e.worker \in alive[e.rank]
  /\ \A d \in Ranks : phase[d] = "gone" => \A q \in Ranks : phase[q] \in {"barrier", "gone"}

ContextInv == ContextTypeOK /\ PublishedFirst /\ WorkersLast

\* ContextInv holds for every number of ranks: no rank finds a context up before
\* every address is published, and no worker goes before the endpoints to it
\* (context.hpp:61-82, worker.hpp:109-118).
THEOREM ContextInvariant == ContextSpec => []ContextInv
<1> USE NAssumption DEF Ranks, Workers, Shared, Phases, Enter, Reached
<1>1. ContextInit => ContextInv
  BY DEF ContextInit, ContextInv, ContextTypeOK, PublishedFirst, WorkersLast
<1>2. ASSUME ContextInv, [ContextNext]_cvars
      PROVE  ContextInv'
  <2> USE <1>2 DEF ContextInv
  <2>1. ASSUME NEW r \in Ranks, MakeSharedWorker(r)
        PROVE  ContextInv'
    <3>1. ContextTypeOK'
      BY <2>1 DEF MakeSharedWorker, ContextTypeOK
    <3>2. /\ phase[r] = "worker" /\ UNCHANGED <<use_pmi, root, db, eps>>
          /\ phase' = [phase EXCEPT ![r] = "init"]
          /\ alive' = [alive EXCEPT ![r] = {Shared}]
      BY <2>1 DEF MakeSharedWorker
    <3>4. PublishedFirst'
      BY <3>2 DEF ContextTypeOK, PublishedFirst
    <3>5. WorkersLast'
      BY <3>2 DEF ContextTypeOK, PublishedFirst, WorkersLast, Endpoints
    <3> QED
      BY <3>1, <3>4, <3>5
  <2>2. ASSUME NEW r \in Ranks, Broadcast(r)
        PROVE  ContextInv'
    <3> DEFINE d == root[r]
    <3>1. /\ ~use_pmi /\ phase[r] = "init" /\ d < N
          /\ d = r \/ root[d] > d
          /\ db' = [db EXCEPT ![r] = @ \cup {d}]
          /\ root' = [root EXCEPT ![r] = d + 1]
          /\ UNCHANGED <<use_pmi, phase, alive, eps, under_way>>
      BY <2>2 DEF Broadcast
    <3>2. d \in Ranks
      BY <3>1 DEF ContextTypeOK
    <3>3. phase[d] # "worker"
      BY <3>1, <3>2 DEF PublishedFirst
    <3> HIDE DEF d
    <3>4. /\ root'[r] = d + 1
          /\ \A q \in Ranks \ {r} : root'[q] = root[q]
          /\ db'[r] = db[r] \cup {d}
          /\ \A q \in Ranks \ {r} : db'[q] = db[q]
      BY <3>1 DEF ContextTypeOK
    <3>5. ContextTypeOK'
      BY <3>1, <3>2 DEF ContextTypeOK
    <3>6. PublishedFirst'
      BY <3>1, <3>2, <3>3, <3>4 DEF ContextTypeOK, PublishedFirst, d
    <3>7. WorkersLast'
      BY <3>1 DEF WorkersLast
    <3> QED
      BY <3>5, <3>6, <3>7
  <2>3. ASSUME NEW r \in Ranks, InitReturns(r)
        PROVE  ContextInv'
    <3>1. ContextTypeOK'
      BY <2>3 DEF InitReturns, ContextTypeOK
    <3>2. /\ phase[r] = "init" /\ root[r] = N /\ UNCHANGED <<use_pmi, root, db, alive, eps>>
          /\ phase' = [phase EXCEPT ![r] = "up"]
      BY <2>3 DEF InitReturns
    <3>3. ~use_pmi
      BY <3>2 DEF PublishedFirst
    <3>4. db[r] = Ranks
      <4>1. \A d \in Ranks : d < root[r]
        BY <3>2
      <4>2. \A d \in Ranks : d \in db[r]
        BY <3>2, <3>3, <4>1 DEF PublishedFirst
      <4> QED
        BY <4>2 DEF ContextTypeOK
    <3>5. \A d \in Ranks : phase[d] # "worker"
      BY <3>2 DEF PublishedFirst
    <3>6. PublishedFirst'
      BY <3>2, <3>3, <3>4, <3>5 DEF ContextTypeOK, PublishedFirst
    <3>7. WorkersLast'
      BY <3>2 DEF ContextTypeOK, WorkersLast, Endpoints
    <3> QED
      BY <3>1, <3>6, <3>7
  <2>4. ASSUME NEW r \in Ranks, Publish(r)
        PROVE  ContextInv'
    BY <2>4 DEF Publish, ContextTypeOK, PublishedFirst, WorkersLast
  <2>5. ASSUME NEW r \in Ranks, Fence(r)
        PROVE  ContextInv'
    <3>1. ContextTypeOK'
      BY <2>5 DEF Fence, ContextTypeOK
    <3>2. /\ phase[r] = "fence" /\ UNCHANGED <<use_pmi, root, alive, eps>>
          /\ phase' = [phase EXCEPT ![r] = "up"]
          /\ db' = [db EXCEPT ![r] = Ranks]
          /\ \A d \in Ranks : phase[d] # "worker"
      BY <2>5 DEF Fence
    <3>3. use_pmi
      BY <3>2 DEF PublishedFirst
    <3>4. PublishedFirst'
      BY <3>2, <3>3 DEF ContextTypeOK, PublishedFirst
    <3>5. WorkersLast'
      BY <3>2 DEF ContextTypeOK, WorkersLast, Endpoints
    <3> QED
      BY <3>1, <3>4, <3>5
  <2>6. ASSUME NEW r \in Ranks, GetCommunicator(r)
        PROVE  ContextInv'
    BY <2>6 DEF GetCommunicator, ContextTypeOK, PublishedFirst, WorkersLast
  <2>7. ASSUME NEW r \in Ranks, NEW w \in Workers, NEW d \in Ranks, SendTo(r, w, d)
        PROVE  ContextInv'
    <3> DEFINE e == [rank |-> r, worker |-> w, to |-> d]
    <3>1. /\ phase[r] = "up" /\ w \in alive[r] /\ d # r
          /\ eps' = eps \cup {e} /\ under_way' = under_way \cup {e}
          /\ UNCHANGED <<use_pmi, phase, root, db, alive>>
      BY <2>7 DEF SendTo
    <3>2. e \in Endpoints /\ e.rank = r /\ e.worker = w
      BY <3>1 DEF Endpoints
    <3> HIDE DEF e
    <3>3. ContextTypeOK' /\ PublishedFirst'
      BY <3>1, <3>2 DEF ContextTypeOK, PublishedFirst
    <3>4. WorkersLast'
      BY <3>1, <3>2 DEF ContextTypeOK, WorkersLast
    <3> QED
      BY <3>3, <3>4
  <2>8. ASSUME NEW e \in eps, Arrive(e)
        PROVE  ContextInv'
    BY <2>8 DEF Arrive, ContextTypeOK, PublishedFirst, WorkersLast
  <2>9. ASSUME NEW r \in Ranks, Destruct(r)
        PROVE  ContextInv'
    BY <2>9 DEF Destruct, ContextTypeOK, PublishedFirst, WorkersLast
  <2>10. ASSUME NEW r \in Ranks, Drained(r)
         PROVE  ContextInv'
    BY <2>10 DEF Drained, ContextTypeOK, PublishedFirst, WorkersLast
  <2>11. ASSUME NEW r \in Ranks, NEW e \in eps, CloseEndpoint(r, e)
         PROVE  ContextInv'
    BY <2>11 DEF CloseEndpoint, ContextTypeOK, PublishedFirst, WorkersLast
  <2>12. ASSUME NEW r \in Ranks, EndpointsClosed(r)
         PROVE  ContextInv'
    BY <2>12 DEF EndpointsClosed, ContextTypeOK, PublishedFirst, WorkersLast, Endpoints
  <2>13. ASSUME NEW r \in Ranks, DestroyWorkers(r)
         PROVE  ContextInv'
    BY <2>13 DEF DestroyWorkers, ContextTypeOK, PublishedFirst, WorkersLast, Endpoints
  <2>14. CASE UNCHANGED cvars
    BY <2>14 DEF cvars, ContextTypeOK, PublishedFirst, WorkersLast
  <2> QED
    BY <2>1, <2>2, <2>3, <2>4, <2>5, <2>6, <2>7, <2>8, <2>9, <2>10, <2>11, <2>12, <2>13,
       <2>14 DEF ContextNext, ContextStep
<1> QED
  BY <1>1, <1>2, PTL DEF ContextSpec

\* All addresses are found once a context is constructed, and an endpoint joins
\* two workers that exist, until the contexts are destroyed (context.hpp:61-82).
THEOREM EndpointsSafe == ContextSpec => [](ContextTypeOK /\ EndpointsValid)
<1>1. ContextInv => ContextTypeOK /\ EndpointsValid
  BY NAssumption DEF ContextInv, ContextTypeOK, PublishedFirst, WorkersLast, EndpointsValid,
     Endpoints, Phases, Shared
<1> QED
  BY <1>1, ContextInvariant, PTL

-----------------------------------------------------------------------------
(* The call stacks and the lock                                            *)

\* The calls between lock and unlock, and how many of them are on a stack.
Inside == {"post", "early", "recvs", "cancel", "unlock"}
Depth(s) == Cardinality({k \in DOMAIN s : s[k].at \in Inside})
One(f) == IF f.at \in Inside THEN 1 ELSE 0

\* A call more on the stack of a thread is one more inside, or none.
LEMMA DepthOfLonger ==
  ASSUME NEW s \in Seq(Frames), NEW u \in Seq(Frames), Len(u) = Len(s) + 1,
         \A k \in 1 .. Len(s) : u[k] = s[k]
  PROVE  Depth(s) \in Nat /\ Depth(u) = Depth(s) + One(u[Len(u)])
<1> DEFINE S == {k \in DOMAIN s : s[k].at \in Inside}
           U == {k \in DOMAIN u : u[k].at \in Inside}
<1>1. /\ Len(s) \in Nat /\ Len(u) \in Nat
      /\ DOMAIN s = 1 .. Len(s) /\ DOMAIN u = 1 .. Len(u)
  BY LenProperties
<1>0. Depth(s) = Cardinality(S) /\ Depth(u) = Cardinality(U)
  BY DEF Depth
<1>2. IsFiniteSet(S) /\ Cardinality(S) \in Nat
  <2>1. IsFiniteSet(1 .. Len(s))
    BY <1>1, FS_Interval
  <2>2. S \subseteq 1 .. Len(s)
    BY <1>1
  <2> QED
    BY <2>1, <2>2, FS_Subset, FS_CardinalityType
<1>3. U = IF u[Len(u)].at \in Inside THEN S \cup {Len(u)} ELSE S
  BY <1>1
<1>4. Len(u) \notin S
  BY <1>1
<1> HIDE DEF S, U
<1>5. CASE u[Len(u)].at \in Inside
  BY <1>0, <1>2, <1>3, <1>4, <1>5, FS_AddElement DEF One
<1>6. CASE u[Len(u)].at \notin Inside
  BY <1>0, <1>2, <1>3, <1>6 DEF One
<1> QED
  BY <1>5, <1>6

\* Calling, returning, and going on with a call.
LEMMA PushProperties ==
  ASSUME NEW s \in Seq(Frames), NEW f \in Frames
  PROVE  LET u == s \o <<f>>
         IN  /\ u \in Seq(Frames) /\ Len(u) = Len(s) + 1
             /\ \A k \in 1 .. Len(s) : u[k] = s[k]
             /\ u[Len(u)] = f
             /\ Depth(u) = Depth(s) + One(f)
<1> DEFINE u == s \o <<f>>
<1>1. /\ u \in Seq(Frames) /\ Len(u) = Len(s) + 1
      /\ \A k \in 1 .. Len(s) : u[k] = s[k]
      /\ u[Len(u)] = f
  OBVIOUS
<1> HIDE DEF u
<1>2. Depth(u) = Depth(s) + One(f)
  BY <1>1, DepthOfLonger
<1> QED
  BY <1>1, <1>2 DEF u

LEMMA PopProperties ==
  ASSUME NEW s \in Seq(Frames), s # << >>
  PROVE  LET u == Front(s)
         IN  /\ Last(s) = s[Len(s)] /\ s[Len(s)] \in Frames /\ Len(s) \in Nat \ {0}
             /\ u \in Seq(Frames) /\ Len(u) = Len(s) - 1
             /\ \A k \in 1 .. Len(s) - 1 : u[k] = s[k]
             /\ Depth(s) = Depth(u) + One(s[Len(s)])
             /\ Depth(u) \in Nat
<1> DEFINE u == Front(s)
<1>0. Len(s) \in Nat \ {0} /\ Len(s) \in 1 .. Len(s)
  OBVIOUS
<1>1. /\ u \in Seq(Frames) /\ Len(u) = Len(s) - 1
      /\ \A k \in 1 .. Len(s) - 1 : u[k] = s[k]
  <2>1. u = SubSeq(s, 1, Len(s) - 1)
    BY DEF Front
  <2>2. \A k \in 1 .. Len(s) - 1 : s[k] \in Frames
    BY <1>0, ElementOfSeq
  <2> HIDE DEF u
  <2>3. /\ u \in Seq(Frames)
        /\ Len(u) = IF 1 <= Len(s) - 1 THEN Len(s) - 1 - 1 + 1 ELSE 0
        /\ \A k \in 1 .. Len(s) - 1 - 1 + 1 : u[k] = s[1 + k - 1]
    BY <1>0, <2>1, <2>2, SubSeqProperties
  <2>4. \A k \in 1 .. Len(s) - 1 : k \in 1 .. Len(s) - 1 - 1 + 1 /\ 1 + k - 1 = k
    BY <1>0
  <2>5. Len(u) = Len(s) - 1
    <3> DEFINE n == Len(s)
    <3>1. n \in Nat /\ n >= 1
      BY <1>0
    <3>2. Len(u) = IF 1 <= n - 1 THEN n - 1 - 1 + 1 ELSE 0
      BY <2>3
    <3> HIDE DEF n
    <3>3. CASE n = 1
      BY <3>2, <3>3 DEF n
    <3>4. CASE n > 1
      BY <3>1, <3>2, <3>4 DEF n
    <3> QED
      BY <3>1, <3>3, <3>4
  <2> QED
    BY <2>3, <2>4, <2>5
<1>2. Last(s) = s[Len(s)] /\ s[Len(s)] \in Frames
  BY <1>0, ElementOfSeq DEF Last
<1> HIDE DEF u
<1>3. Depth(s) = Depth(u) + One(s[Len(s)]) /\ Depth(u) \in Nat
  BY <1>0, <1>1, DepthOfLonger
<1> QED
  BY <1>0, <1>1, <1>2, <1>3 DEF u

LEMMA ReplaceProperties ==
  ASSUME NEW s \in Seq(Frames), s # << >>, NEW f \in Frames
  PROVE  LET u == Append(Front(s), f)
         IN  /\ u \in Seq(Frames) /\ Len(u) = Len(s)
             /\ \A k \in 1 .. Len(s) - 1 : u[k] = s[k]
             /\ u[Len(s)] = f
             /\ Depth(u) = Depth(s) - One(s[Len(s)]) + One(f)
<1> DEFINE v == Front(s)
           u == Append(v, f)
<1>1. /\ v \in Seq(Frames) /\ Len(v) = Len(s) - 1 /\ Len(s) \in Nat \ {0}
      /\ \A k \in 1 .. Len(s) - 1 : v[k] = s[k]
      /\ Depth(s) = Depth(v) + One(s[Len(s)])
      /\ Depth(v) \in Nat
  BY PopProperties
<1> HIDE DEF v
<1>2. /\ u \in Seq(Frames) /\ Len(u) = Len(s)
      /\ \A k \in 1 .. Len(v) : u[k] = v[k]
      /\ u[Len(s)] = f
  BY <1>1
<1>3. Depth(u) = Depth(v) + One(u[Len(u)])
  <2>1. Len(u) = Len(v) + 1
    BY <1>1, <1>2
  <2> HIDE DEF u
  <2> QED
    BY <1>1, <1>2, <2>1, DepthOfLonger
<1>4. One(s[Len(s)]) \in Nat /\ One(f) \in Nat
  BY DEF One
<1>5. Depth(u) = Depth(s) - One(s[Len(s)]) + One(f)
  <2> HIDE DEF u
  <2> QED
    BY <1>1, <1>2, <1>3, <1>4
<1> QED
  BY <1>1, <1>2, <1>5 DEF v

LockTypeOK == /\ style \in Styles
              /\ m_lock \in Threads \cup {None}
              /\ level \in [Threads -> Nat]
              /\ stack \in [Threads -> Seq(Frames)]

\* A thread is at the level of its calls between lock and unlock, and the lock is
\* closed by the one thread that has such calls.
LockInv == /\ LockTypeOK
           /\ \A t \in Threads : /\ level[t] = Depth(stack[t])
                                 /\ m_lock = t <=> Depth(stack[t]) > 0

\* The calls of the model.
LEMMA FrameType ==
  ASSUME NEW l \in {"lockRecv", "lockWorker", "lockCancel", "post", "early", "recvs", "cancel",
                    "unlock", "multi", "sends", "wait", "received", "callback"},
         NEW o \in Ops \cup Groups \cup {None}
  PROVE  Frame(l, o) \in Frames /\ Frame(l, o).at = l /\ Frame(l, o).op = o
BY DEF Frame, Frames

\* The call a thread is in.
LEMMA TopOfStack ==
  ASSUME LockTypeOK, NEW t \in Threads, ~InProgram(t)
  PROVE  LET s == stack[t]
         IN  /\ s \in Seq(Frames) /\ s # << >> /\ Len(s) \in Nat \ {0}
             /\ Last(s) = s[Len(s)] /\ s[Len(s)] \in Frames
             /\ OpOf(t) = s[Len(s)].op
             /\ \A l : At(t, l) <=> s[Len(s)].at = l
             /\ \A l : [Last(s) EXCEPT !.at = l] = Frame(l, OpOf(t))
             /\ OpOf(t) \in Ops \cup Groups \cup {None}
<1>1. stack[t] \in Seq(Frames) /\ stack[t] # << >>
  BY DEF LockTypeOK, InProgram
<1>2. /\ Last(stack[t]) = stack[t][Len(stack[t])] /\ stack[t][Len(stack[t])] \in Frames
      /\ Len(stack[t]) \in Nat \ {0}
  BY <1>1, PopProperties
<1> QED
  BY <1>1, <1>2 DEF OpOf, At, InProgram, Frame, Frames

\* A step that neither locks nor unlocks, and leaves as many calls inside.
LEMMA LockKept ==
  ASSUME LockInv, NEW t \in Threads, NEW s \in Seq(Frames),
         UNCHANGED mutex, stack' = [stack EXCEPT ![t] = s],
         Depth(s) = Depth(stack[t])
  PROVE  LockInv'
BY DEF LockInv, LockTypeOK, mutex

\* Calling something, and returning, outside of the lock.
LEMMA PushKeepsLock ==
  ASSUME LockInv, NEW t \in Threads, NEW f \in Frames, f.at \notin Inside,
         UNCHANGED mutex, Push(t, <<f>>)
  PROVE  LockInv'
<1> DEFINE s == stack[t] \o <<f>>
<1>1. stack[t] \in Seq(Frames)
  BY DEF LockInv, LockTypeOK
<1>2. s \in Seq(Frames) /\ Depth(s) = Depth(stack[t]) + One(f)
  BY <1>1, PushProperties
<1>3. One(f) = 0 /\ Depth(stack[t]) \in Nat
  BY DEF One, LockInv, LockTypeOK
<1>4. stack' = [stack EXCEPT ![t] = s]
  BY DEF Push
<1> HIDE DEF s
<1>5. Depth(s) = Depth(stack[t])
  BY <1>2, <1>3
<1> QED
  BY <1>2, <1>4, <1>5, LockKept

LEMMA ReturnKeepsLock ==
  ASSUME LockInv, NEW t \in Threads, ~InProgram(t),
         Last(stack[t]).at \notin Inside,
         UNCHANGED mutex, Return(t)
  PROVE  LockInv'
<1> DEFINE s == Front(stack[t])
<1>1. stack[t] \in Seq(Frames) /\ stack[t] # << >>
  BY DEF LockInv, LockTypeOK, InProgram
<1>2. /\ s \in Seq(Frames) /\ Depth(stack[t]) = Depth(s) + One(Last(stack[t]))
      /\ Depth(s) \in Nat
  BY <1>1, PopProperties
<1>3. One(Last(stack[t])) = 0
  BY DEF One
<1>4. stack' = [stack EXCEPT ![t] = s]
  BY DEF Return
<1> HIDE DEF s
<1>5. Depth(s) = Depth(stack[t])
  BY <1>2, <1>3
<1> QED
  BY <1>2, <1>4, <1>5, LockKept

\* Going on with the same call, or with a callback on top of it.
LEMMA GotoKeepsLock ==
  ASSUME LockInv, NEW t \in Threads, ~InProgram(t),
         NEW l \in {"lockRecv", "lockWorker", "lockCancel", "post", "early", "recvs", "cancel",
                    "unlock", "multi", "sends", "wait", "received", "callback"},
         Last(stack[t]).at \in Inside <=> l \in Inside,
         UNCHANGED mutex,
         \/ Goto(t, l)
         \/ \E f \in Frames : f.at \notin Inside /\ GotoAndPush(t, l, <<f>>)
  PROVE  LockInv'
<1> DEFINE s == stack[t]
           g == Frame(l, OpOf(t))
           u == Append(Front(s), g)
<1>0. LockTypeOK
  BY DEF LockInv
<1>1. /\ s \in Seq(Frames) /\ s # << >> /\ Last(s) = s[Len(s)]
      /\ [Last(s) EXCEPT !.at = l] = g
      /\ OpOf(t) \in Ops \cup Groups \cup {None}
  BY <1>0, TopOfStack
<1>2. g \in Frames /\ g.at = l
  BY <1>1, FrameType
<1> HIDE DEF g
<1>3. u \in Seq(Frames) /\ Depth(u) = Depth(s) - One(s[Len(s)]) + One(g)
  BY <1>1, <1>2, ReplaceProperties
<1>4. One(s[Len(s)]) = One(g) /\ One(g) \in Nat /\ Depth(s) \in Nat
  BY <1>0, <1>1, <1>2 DEF One, LockInv, LockTypeOK
<1>5. Depth(u) = Depth(s)
  BY <1>3, <1>4
<1>6. CASE Goto(t, l)
  <2>1. stack' = [stack EXCEPT ![t] = u]
    BY <1>1, <1>6 DEF Goto
  <2> HIDE DEF u, s
  <2> QED
    BY <1>3, <1>5, <2>1, LockKept DEF s
<1>7. ASSUME NEW f \in Frames, f.at \notin Inside, GotoAndPush(t, l, <<f>>)
      PROVE  LockInv'
  <2> DEFINE v == u \o <<f>>
  <2>1. stack' = [stack EXCEPT ![t] = v]
    BY <1>1, <1>7 DEF GotoAndPush
  <2> HIDE DEF u, s
  <2>2. v \in Seq(Frames) /\ Depth(v) = Depth(u) + One(f)
    BY <1>3, <1>7, PushProperties
  <2>3. One(f) = 0
    BY <1>7 DEF One
  <2> HIDE DEF v
  <2>4. Depth(v) = Depth(s)
    BY <1>4, <1>5, <2>2, <2>3
  <2> QED
    BY <2>1, <2>2, <2>4, LockKept DEF s
<1> QED
  BY <1>6, <1>7

\* Every step keeps the lock with the thread that is inside.
LEMMA LockStep == LockInv /\ [Next]_vars => LockInv'
<1> SUFFICES ASSUME LockInv, [Next]_vars
             PROVE  LockInv'
  OBVIOUS
<1>0. LockTypeOK
  BY DEF LockInv
<1>1. ASSUME NEW t \in Threads, CallbackReturns(t)
      PROVE  LockInv'
  BY <1>1, ReturnKeepsLock DEF CallbackReturns, At, Inside
<1>2. ASSUME NEW t \in Threads, Lock(t)
      PROVE  LockInv'
  <2> DEFINE s == stack[t]
             l == Labels[Last(s).at]
             g == Frame(l, OpOf(t))
             u == Append(Front(s), g)
  <2>1. /\ s \in Seq(Frames) /\ s # << >> /\ Last(s) = s[Len(s)]
        /\ [Last(s) EXCEPT !.at = l] = g
        /\ OpOf(t) \in Ops \cup Groups \cup {None}
    BY <1>0, <1>2, TopOfStack DEF Lock
  <2>2. Last(s).at \notin Inside /\ l \in {"post", "recvs", "cancel"}
    BY <1>2 DEF Lock, Labels, Inside
  <2>3. g \in Frames /\ g.at = l
    BY <2>1, <2>2, FrameType
  <2>4. stack' = [stack EXCEPT ![t] = u]
    BY <1>2, <2>1 DEF Lock, Goto
  <2> HIDE DEF l, g
  <2>5. u \in Seq(Frames) /\ Depth(u) = Depth(s) - One(s[Len(s)]) + One(g)
    BY <2>1, <2>3, ReplaceProperties
  <2>6. One(s[Len(s)]) = 0 /\ One(g) = 1 /\ Depth(s) \in Nat
    BY <1>0, <2>1, <2>2, <2>3 DEF One, Inside, LockInv, LockTypeOK
  <2>7. Depth(u) = Depth(s) + 1
    BY <2>5, <2>6
  <2> HIDE DEF u
  <2>8. /\ level' = [level EXCEPT ![t] = @ + 1] /\ style' = style
        /\ \/ level[t] = 0 /\ m_lock = None /\ m_lock' = t
           \/ level[t] > 0 /\ m_lock' = m_lock
    BY <1>2 DEF Lock
  <2> QED
    BY <2>4, <2>5, <2>6, <2>7, <2>8, OpsDisjoint DEF LockInv, LockTypeOK
<1>3. ASSUME NEW t \in Threads, Unlock(t)
      PROVE  LockInv'
  <2> DEFINE s == stack[t]
             u == Front(s)
  <2>1. /\ s \in Seq(Frames) /\ s # << >> /\ Last(s) = s[Len(s)]
        /\ s[Len(s)].at = "unlock"
    BY <1>0, <1>3, TopOfStack DEF Unlock, At
  <2>2. u \in Seq(Frames) /\ Depth(s) = Depth(u) + One(s[Len(s)]) /\ Depth(u) \in Nat
    BY <2>1, PopProperties
  <2>3. One(s[Len(s)]) = 1
    BY <2>1 DEF One, Inside
  <2>4. stack' = [stack EXCEPT ![t] = u]
    BY <1>3 DEF Unlock, Return
  <2> HIDE DEF u
  <2>5. /\ level' = [level EXCEPT ![t] = @ - 1] /\ style' = style
        /\ m_lock' = IF level[t] = 1 THEN None ELSE m_lock
    BY <1>3 DEF Unlock
  <2>6. level[t] = Depth(u) + 1 /\ m_lock = t
    BY <2>2, <2>3 DEF LockInv
  <2> QED
    BY <2>2, <2>4, <2>5, <2>6, OpsDisjoint DEF LockInv, LockTypeOK
<1>4. ASSUME NEW t \in Threads, NEW op \in Recvs, PostRecv(t, op)
      PROVE  LockInv'
  BY <1>4, FrameType, PushKeepsLock DEF PostRecv, Ops, Inside
<1>5. ASSUME NEW t \in Threads, RecvEarly(t)
      PROVE  LockInv'
  <2>0. /\ ~InProgram(t) /\ Last(stack[t]).at = "post" /\ UNCHANGED mutex
        /\ OpOf(t) \in Ops \cup Groups \cup {None}
    BY <1>0, <1>5, TopOfStack DEF RecvEarly, At
  <2>1. CASE OpOf(t) \in Futures
    <3>1. Goto(t, "unlock")
      BY <1>5, <2>1 DEF RecvEarly
    <3> QED
      BY <2>0, <3>1, GotoKeepsLock DEF Inside
  <2>2. CASE OpOf(t) \notin Futures
    <3>1. GotoAndPush(t, "early", <<Frame("callback", OpOf(t))>>)
      BY <1>5, <2>2 DEF RecvEarly, Callback
    <3>2. Frame("callback", OpOf(t)) \in Frames /\ Frame("callback", OpOf(t)).at \notin Inside
      BY <2>0, FrameType DEF Inside
    <3> QED
      BY <2>0, <3>1, <3>2, GotoKeepsLock DEF Inside
  <2> QED
    BY <2>1, <2>2
<1>6. ASSUME NEW t \in Threads, RecvEarlyDone(t)
      PROVE  LockInv'
  BY <1>6, GotoKeepsLock DEF RecvEarlyDone, At, Inside
<1>7. ASSUME NEW t \in Threads, RecvPending(t)
      PROVE  LockInv'
  BY <1>7, GotoKeepsLock DEF RecvPending, At, Inside
<1>8. ASSUME NEW t \in Threads, NEW g \in Groups, SendMulti(t, g)
      PROVE  LockInv'
  BY <1>8, FrameType, PushKeepsLock DEF SendMulti, Inside
<1>9. ASSUME NEW t \in Threads, SendMultiReturns(t)
      PROVE  LockInv'
  BY <1>9, ReturnKeepsLock DEF SendMultiReturns, At, Inside
<1>10. ASSUME NEW t \in Threads, Progress(t)
       PROVE  LockInv'
  BY <1>10, FrameType, PushKeepsLock DEF Progress, Inside
<1>11. ASSUME NEW t \in Threads, SendsDrained(t)
       PROVE  LockInv'
  BY <1>11, GotoKeepsLock DEF SendsDrained, At, Inside
<1>12. ASSUME NEW t \in Threads, CompleteRecv(t)
       PROVE  LockInv'
  <2>1. PICK op \in Recvs :
          IF op \in Futures THEN UNCHANGED stack
          ELSE Push(t, <<Frame("received", op)>> \o Callback(op))
    BY <1>12 DEF CompleteRecv
  <2>2. UNCHANGED mutex
    BY <1>12 DEF CompleteRecv
  <2>3. CASE op \in Futures
    BY <2>1, <2>2, <2>3 DEF LockInv, LockTypeOK, mutex
  <2>4. CASE op \notin Futures
    <3> DEFINE s == stack[t]
               f == Frame("received", op)
               c == Frame("callback", op)
               u == s \o <<f>>
               v == u \o <<c>>
    <3>1. /\ f \in Frames /\ f.at = "received" /\ c \in Frames /\ c.at = "callback"
          /\ s \in Seq(Frames) /\ Depth(s) \in Nat
      BY FrameType DEF Ops, LockInv, LockTypeOK
    <3>2. stack' = [stack EXCEPT ![t] = s \o (<<f>> \o <<c>>)]
      BY <2>1, <2>4 DEF Push, Callback
    <3> HIDE DEF f, c, s
    <3>3. s \o (<<f>> \o <<c>>) = v
      BY <3>1
    <3> HIDE DEF u
    <3>4. u \in Seq(Frames) /\ Depth(u) = Depth(s) + One(f)
      BY <3>1, PushProperties DEF u
    <3>5. v \in Seq(Frames) /\ Depth(v) = Depth(u) + One(c)
      BY <3>1, <3>4, PushProperties
    <3>6. One(f) = 0 /\ One(c) = 0
      BY <3>1 DEF One, Inside
    <3> HIDE DEF v
    <3>7. Depth(v) = Depth(s)
      BY <3>1, <3>4, <3>5, <3>6
    <3> QED
      BY <2>2, <3>2, <3>3, <3>5, <3>7, LockKept DEF s
  <2> QED
    BY <2>3, <2>4
<1>13. ASSUME NEW t \in Threads, RecvDone(t)
       PROVE  LockInv'
  BY <1>13, ReturnKeepsLock DEF RecvDone, At, Inside
<1>14. ASSUME NEW t \in Threads, RecvsDrained(t)
       PROVE  LockInv'
  BY <1>14, GotoKeepsLock DEF RecvsDrained, At, Inside
<1>15. ASSUME NEW t \in Threads, NEW op \in Ops, Wait(t, op)
       PROVE  LockInv'
  BY <1>15, FrameType, PushKeepsLock DEF Wait, Inside
<1>16. ASSUME NEW t \in Threads, WaitRound(t)
       PROVE  LockInv'
  <2>0. /\ ~InProgram(t) /\ Last(stack[t]).at = "wait" /\ UNCHANGED mutex
        /\ OpOf(t) \in Ops \cup Groups \cup {None}
    BY <1>0, <1>16, TopOfStack DEF WaitRound, At
  <2>1. CASE OpOf(t) \in held
    BY <1>16, <2>0, <2>1, FrameType, PushKeepsLock DEF WaitRound, Inside
  <2>2. CASE OpOf(t) \notin held
    BY <1>16, <2>0, <2>2, ReturnKeepsLock DEF WaitRound, Inside
  <2> QED
    BY <2>1, <2>2
<1>17. ASSUME NEW t \in Threads, NEW op \in Recvs, Cancel(t, op)
       PROVE  LockInv'
  <2> DEFINE s == stack[t]
             f == Frame("wait", op)
             c == Frame("lockCancel", op)
             u == s \o <<f>>
  <2>1. /\ f \in Frames /\ f.at = "wait" /\ c \in Frames /\ c.at = "lockCancel"
        /\ s \in Seq(Frames) /\ Depth(s) \in Nat
    BY FrameType DEF Ops, LockInv, LockTypeOK
  <2>2. UNCHANGED mutex
    BY <1>17 DEF Cancel
  <2>3. CASE op \in Futures
    <3> DEFINE v == u \o <<c>>
    <3>1. stack' = [stack EXCEPT ![t] = s \o (<<f>> \o <<c>>)]
      BY <1>17, <2>3 DEF Push, Cancel
    <3> HIDE DEF f, c, s
    <3>2. s \o (<<f>> \o <<c>>) = v
      BY <2>1
    <3> HIDE DEF u
    <3>3. u \in Seq(Frames) /\ Depth(u) = Depth(s) + One(f)
      BY <2>1, PushProperties DEF u
    <3>4. v \in Seq(Frames) /\ Depth(v) = Depth(u) + One(c)
      BY <2>1, <3>3, PushProperties
    <3>5. One(f) = 0 /\ One(c) = 0
      BY <2>1 DEF One, Inside
    <3> HIDE DEF v
    <3>6. Depth(v) = Depth(s)
      BY <2>1, <3>3, <3>4, <3>5
    <3> QED
      BY <2>2, <3>1, <3>2, <3>4, <3>6, LockKept DEF s
  <2>4. CASE op \notin Futures
    <3>1. stack' = [stack EXCEPT ![t] = @ \o (<< >> \o <<c>>)]
      BY <1>17, <2>4 DEF Push, Cancel
    <3> HIDE DEF c
    <3>2. << >> \o <<c>> = <<c>>
      BY <2>1
    <3>3. Push(t, <<c>>)
      BY <3>1, <3>2 DEF Push
    <3> QED
      BY <2>1, <2>2, <3>3, PushKeepsLock DEF Inside
  <2> QED
    BY <2>3, <2>4
<1>18. ASSUME NEW t \in Threads, CancelRecv(t)
       PROVE  LockInv'
  BY <1>18, GotoKeepsLock DEF CancelRecv, At, Inside
<1>19. CASE UNCHANGED <<mutex, stack>>
  BY <1>19 DEF mutex, LockInv, LockTypeOK
<1>20. /\ \A t \in Threads : SendNow(t) \/ SendPending(t) \/ CompleteSend(t)
                               => UNCHANGED <<mutex, stack>>
       /\ \A t \in Threads, op \in Ops : Test(t, op) => UNCHANGED <<mutex, stack>>
       /\ \A op \in Ops : SendReady(op) \/ Match(op) => UNCHANGED <<mutex, stack>>
       /\ UNCHANGED vars => UNCHANGED <<mutex, stack>>
  BY DEF SendNow, SendPending, CompleteSend, Test, SendReady, Match, vars
<1> QED
  BY <1>1, <1>2, <1>3, <1>4, <1>5, <1>6, <1>7, <1>8, <1>9, <1>10, <1>11, <1>12, <1>13, <1>14,
     <1>15, <1>16, <1>17, <1>18, <1>19, <1>20 DEF Next, Program, Step, Ops

\* LockInv holds for every program and every number of threads.
THEOREM LockInvariant == Spec => []LockInv
<1>1. Init => LockInv
  <2> SUFFICES ASSUME Init PROVE LockInv
    OBVIOUS
  <2>1. Depth(<< >>) = 0
    BY FS_EmptySet DEF Depth
  <2> QED
    BY <2>1, OpsDisjoint DEF Init, LockInv, LockTypeOK
<1> QED
  BY <1>1, LockStep, PTL DEF Spec

\* Only the thread that has the recursive spin lock is between lock and unlock,
\* and its level is the number of its calls there (pthread_spin_mutex.hpp:54-68).
THEOREM LockSafe == Spec => []OneInWorker
<1>1. LockInv => OneInWorker
  BY DEF LockInv, OneInWorker, InWorker, Depth, Inside
<1> QED
  BY <1>1, LockInvariant, PTL

-----------------------------------------------------------------------------
(* Requests, their storage, and the calls that rely on them                *)

\* Calls that wait for others on top of them, and calls that a receive has alone.
Covered == {"callback", "early", "recvs", "received", "wait"}
Owning == {"lockRecv", "post", "early", "received"}

RequestTypeOK ==
  /\ storage \in [Slots -> [op : Recvs \cup {None}, kind : {"none", "recv"}]]
  /\ place \in [Recvs -> Slots \cup {None}]
  /\ held \subseteq Ops /\ m_completed \subseteq Ops /\ cancelled \subseteq Recvs
  /\ ucp \in [Ops -> {"none", "active", "ready", "over"}]
  /\ wire \in [Range(Tag) -> Nat]
  /\ calls \in [Ops -> Nat]

\* The storage behind m_req of a receive.
Stored(op, kind) == place[op] \in Slots /\ storage[place[op]] = [op |-> op, kind |-> kind]

\* What a call relies on while it is on the stack of thread t.
CallOK(t, f) ==
  /\ f.at \in {"lockRecv", "post"} => f.op \in Recvs /\ ucp[f.op] = "none"
  /\ f.at \in {"early", "received"} =>
       /\ f.op \in Recvs \ Futures /\ ucp[f.op] = "over" /\ f.op \notin m_completed \cup cancelled
       /\ Stored(f.op, IF f.at = "early" THEN "none" ELSE "recv")
  /\ f.at = "early" => f.op \notin held
  /\ f.at = "callback" => f.op \in Recvs \ Futures
  /\ f.at \in {"lockCancel", "cancel"} => f.op \in held \cap Recvs /\ Poster[f.op] = t
  /\ f.at = "wait" => f.op \in Futures /\ Poster[f.op] = t
  /\ f.at \in {"sends", "lockWorker", "recvs"} =>
       f.op = None \/ (f.op \in Futures /\ Poster[f.op] = t)
  /\ f.at = "multi" => f.op \in Groups /\ Poster[Multi[f.op][1]] = t

CallsOK == \A t \in Threads : \A k \in 1 .. Len(stack[t]) : CallOK(t, stack[t][k])
CallsNest == \A t \in Threads : \A k \in 1 .. Len(stack[t]) :
               /\ k < Len(stack[t]) => stack[t][k].at \in Covered
               /\ stack[t][k].at = "multi" => k = 1
CallsOwn == \A t, u \in Threads : \A k \in 1 .. Len(stack[t]), n \in 1 .. Len(stack[u]) :
              /\ stack[t][k].op = stack[u][n].op
              /\ stack[t][k].at \in Owning /\ stack[u][n].at \in Owning
              => t = u /\ k = n
StackInv == CallsOK /\ CallsNest /\ CallsOwn

\* The calls that a step which keeps n calls of thread t leaves on the stacks.
Kept(t, n, q, k) == k \in 1 .. Len(stack[q]) /\ (q = t => k <= n)

\* A step keeps the first n calls of a thread and puts others on top.
LEMMA StackKept ==
  ASSUME LockTypeOK, StackInv, NEW t \in Threads, NEW u \in Seq(Frames),
         NEW n \in 0 .. Len(stack[t]), n <= Len(u),
         stack' = [stack EXCEPT ![t] = u],
         \A k \in 1 .. n : u[k] = stack[t][k],
         \A q \in Threads : \A k \in 1 .. Len(stack[q]) :
            Kept(t, n, q, k) => \A f : f = stack[q][k] => CallOK(q, f)',
         \A k \in n + 1 .. Len(u) : CallOK(t, u[k])',
         \A k \in 1 .. Len(u) - 1 : n <= k => u[k].at \in Covered,
         \A k \in n + 1 .. Len(u) : u[k].at = "multi" => k = 1,
         \A k \in n + 1 .. Len(u) : u[k].at \in Owning =>
            /\ \A j \in n + 1 .. Len(u) : u[j].at \in Owning => j = k
            /\ \A q \in Threads : \A j \in 1 .. Len(stack[q]) :
                 Kept(t, n, q, j) /\ stack[q][j].at \in Owning => stack[q][j].op # u[k].op
  PROVE  StackInv'
<1>0. /\ Len(u) \in Nat /\ \A q \in Threads : Len(stack[q]) \in Nat
      /\ stack'[t] = u /\ \A q \in Threads \ {t} : stack'[q] = stack[q]
      /\ \A k \in 1 .. Len(u) : k \in 1 .. n \/ k \in n + 1 .. Len(u)
  BY DEF LockTypeOK
<1>1. \A q \in Threads : \A k \in 1 .. Len(stack'[q]) :
        \/ Kept(t, n, q, k) /\ stack'[q][k] = stack[q][k]
        \/ q = t /\ k \in n + 1 .. Len(u) /\ stack'[q][k] = u[k]
  BY <1>0 DEF Kept
<1>2. CallsOK'
  <2> SUFFICES ASSUME NEW q \in Threads, NEW k \in 1 .. Len(stack'[q])
               PROVE  CallOK(q, stack[q][k])'
    BY DEF CallsOK
  <2>1. CASE Kept(t, n, q, k) /\ stack'[q][k] = stack[q][k]
    <3>1. PICK f : f = stack[q][k]
      OBVIOUS
    <3>2. CallOK(q, f)'
      BY <2>1, <3>1 DEF Kept
    <3> QED
      BY <2>1, <3>1, <3>2 DEF CallOK, Stored
  <2>2. CASE q = t /\ k \in n + 1 .. Len(u) /\ stack'[q][k] = u[k]
    BY <2>2 DEF CallOK, Stored
  <2> QED
    BY <1>1, <2>1, <2>2
<1>3. CallsNest'
  <2> SUFFICES ASSUME NEW q \in Threads, NEW k \in 1 .. Len(stack'[q])
               PROVE  /\ k < Len(stack'[q]) => stack'[q][k].at \in Covered
                      /\ stack'[q][k].at = "multi" => k = 1
    BY DEF CallsNest
  <2>1. CASE q # t
    BY <1>0, <2>1 DEF StackInv, CallsNest
  <2>2. CASE q = t /\ k <= n
    <3>1. k \in 1 .. Len(stack[t]) /\ stack'[t][k] = stack[t][k] /\ stack'[t][k] = u[k]
      BY <1>0, <2>2
    <3>2. CASE k < n
      BY <1>0, <2>2, <3>1, <3>2 DEF StackInv, CallsNest
    <3>3. CASE k = n
      BY <1>0, <2>2, <3>1, <3>3 DEF StackInv, CallsNest
    <3> QED
      BY <1>0, <2>2, <3>2, <3>3
  <2>3. CASE q = t /\ k > n
    BY <1>0, <2>3
  <2> QED
    BY <1>0, <2>1, <2>2, <2>3
<1>4. CallsOwn'
  <2> SUFFICES ASSUME NEW p \in Threads, NEW q \in Threads,
                      NEW k \in 1 .. Len(stack'[p]), NEW j \in 1 .. Len(stack'[q]),
                      stack'[p][k].op = stack'[q][j].op,
                      stack'[p][k].at \in Owning, stack'[q][j].at \in Owning
               PROVE  p = q /\ k = j
    BY DEF CallsOwn
  <2>1. CASE Kept(t, n, p, k) /\ Kept(t, n, q, j)
             /\ stack'[p][k] = stack[p][k] /\ stack'[q][j] = stack[q][j]
    BY <2>1 DEF Kept, StackInv, CallsOwn
  <2>2. CASE /\ Kept(t, n, p, k) /\ stack'[p][k] = stack[p][k]
             /\ q = t /\ j \in n + 1 .. Len(u) /\ stack'[q][j] = u[j]
    BY <2>2 DEF Kept
  <2>3. CASE /\ Kept(t, n, q, j) /\ stack'[q][j] = stack[q][j]
             /\ p = t /\ k \in n + 1 .. Len(u) /\ stack'[p][k] = u[k]
    BY <2>3 DEF Kept
  <2>4. CASE /\ p = t /\ k \in n + 1 .. Len(u) /\ stack'[p][k] = u[k]
             /\ q = t /\ j \in n + 1 .. Len(u) /\ stack'[q][j] = u[j]
    BY <2>4
  <2> QED
    BY <1>1, <2>1, <2>2, <2>3, <2>4
<1> QED
  BY <1>2, <1>3, <1>4 DEF StackInv

\* The four ways in which a step changes the stack of a thread.
LEMMA SameStack ==
  ASSUME LockTypeOK, StackInv, UNCHANGED stack,
         \A q \in Threads : \A k \in 1 .. Len(stack[q]) :
            \A f : f = stack[q][k] => CallOK(q, f)'
  PROVE  StackInv'
<1>1. CallsOK'
  <2> SUFFICES ASSUME NEW q \in Threads, NEW k \in 1 .. Len(stack'[q])
               PROVE  CallOK(q, stack[q][k])'
    BY DEF CallsOK
  <2>1. PICK f : f = stack[q][k]
    OBVIOUS
  <2>2. CallOK(q, f)'
    BY <2>1
  <2> QED
    BY <2>1, <2>2 DEF CallOK, Stored
<1>2. CallsNest' /\ CallsOwn'
  BY DEF StackInv, CallsNest, CallsOwn
<1> QED
  BY <1>1, <1>2 DEF StackInv

LEMMA PushStack ==
  ASSUME LockTypeOK, StackInv, NEW t \in Threads, NEW f \in Frames, Push(t, <<f>>),
         \A q \in Threads : \A k \in 1 .. Len(stack[q]) :
            \A g : g = stack[q][k] => CallOK(q, g)',
         CallOK(t, f)',
         InProgram(t) \/ (Last(stack[t]).at \in Covered /\ f.at # "multi"),
         f.at \in Owning => \A q \in Threads : \A k \in 1 .. Len(stack[q]) :
            stack[q][k].at \in Owning => stack[q][k].op # f.op
  PROVE  StackInv'
<1>1. PICK s : s = stack[t]
  OBVIOUS
<1>2. PICK u : u = s \o <<f>>
  OBVIOUS
<1>3. /\ s \in Seq(Frames) /\ Len(s) \in Nat
      /\ InProgram(t) <=> Len(s) = 0
  BY <1>1 DEF LockTypeOK, InProgram
<1>4. /\ u \in Seq(Frames) /\ Len(u) = Len(s) + 1
      /\ \A k \in 1 .. Len(s) : u[k] = s[k]
      /\ u[Len(u)] = f
  BY <1>2, <1>3, PushProperties
<1>5. stack' = [stack EXCEPT ![t] = u]
  BY <1>1, <1>2 DEF Push
<1>6. Len(s) > 0 => Last(s) = s[Len(s)]
  BY <1>3, PopProperties
<1>7. \A k \in Len(s) + 1 .. Len(u) : k = Len(u) /\ u[k] = f
  BY <1>3, <1>4
<1>8. \A k \in 1 .. Len(u) - 1 : Len(s) <= k => u[k].at \in Covered
  BY <1>1, <1>3, <1>4, <1>6
<1>9. \A k \in Len(s) + 1 .. Len(u) : u[k].at = "multi" => k = 1
  BY <1>3, <1>4, <1>7
<1>10. PICK n : n = Len(s)
  OBVIOUS
<1>11. \A k \in n + 1 .. Len(u) : CallOK(t, u[k])'
  BY <1>7, <1>10
<1>12. \A k \in n + 1 .. Len(u) : u[k].at \in Owning =>
          /\ \A j \in n + 1 .. Len(u) : u[j].at \in Owning => j = k
          /\ \A q \in Threads : \A j \in 1 .. Len(stack[q]) :
               Kept(t, n, q, j) /\ stack[q][j].at \in Owning => stack[q][j].op # u[k].op
  BY <1>7, <1>10
<1>13. /\ n \in 0 .. Len(stack[t]) /\ n <= Len(u)
       /\ \A k \in 1 .. n : u[k] = stack[t][k]
       /\ \A k \in 1 .. Len(u) - 1 : n <= k => u[k].at \in Covered
       /\ \A k \in n + 1 .. Len(u) : u[k].at = "multi" => k = 1
       /\ \A q \in Threads : \A k \in 1 .. Len(stack[q]) :
            Kept(t, n, q, k) => \A g : g = stack[q][k] => CallOK(q, g)'
  BY <1>1, <1>3, <1>4, <1>8, <1>9, <1>10
<1> QED
  BY <1>4, <1>5, <1>11, <1>12, <1>13, StackKept

LEMMA ReturnStack ==
  ASSUME LockTypeOK, StackInv, NEW t \in Threads, ~InProgram(t), Return(t),
         \A q \in Threads : \A k \in 1 .. Len(stack[q]) :
            Kept(t, Len(stack[t]) - 1, q, k) => \A g : g = stack[q][k] => CallOK(q, g)'
  PROVE  StackInv'
<1>1. PICK s : s = stack[t]
  OBVIOUS
<1>2. PICK u : u = Front(s)
  OBVIOUS
<1>3. /\ s \in Seq(Frames) /\ s # << >>
  BY <1>1 DEF LockTypeOK, InProgram
<1>4. /\ u \in Seq(Frames) /\ Len(u) = Len(s) - 1 /\ Len(s) \in Nat \ {0}
      /\ \A k \in 1 .. Len(s) - 1 : u[k] = s[k]
  BY <1>2, <1>3, PopProperties
<1>5. stack' = [stack EXCEPT ![t] = u]
  BY <1>1, <1>2 DEF Return
<1>6. /\ Len(s) - 1 \in 0 .. Len(s) /\ Len(s) - 1 <= Len(u)
      /\ \A k \in Len(s) - 1 + 1 .. Len(u) : FALSE
      /\ \A k \in 1 .. Len(u) - 1 : ~(Len(s) - 1 <= k)
  BY <1>4
<1> QED
  BY <1>1, <1>4, <1>5, <1>6, StackKept

LEMMA GotoStack ==
  ASSUME LockTypeOK, StackInv, NEW t \in Threads, ~InProgram(t),
         NEW l \in {"lockRecv", "lockWorker", "lockCancel", "post", "early", "recvs", "cancel",
                    "unlock", "sends", "wait", "received", "callback"},
         Goto(t, l),
         \A q \in Threads : \A k \in 1 .. Len(stack[q]) :
            Kept(t, Len(stack[t]) - 1, q, k) => \A g : g = stack[q][k] => CallOK(q, g)',
         \A g : g = Frame(l, OpOf(t)) => CallOK(t, g)',
         l \in Owning => Last(stack[t]).at \in Owning
  PROVE  StackInv'
<1>1. PICK s : s = stack[t]
  OBVIOUS
<1>2. PICK f : f = Frame(l, OpOf(t))
  OBVIOUS
<1>3. PICK u : u = Append(Front(s), f)
  OBVIOUS
<1>4. /\ s \in Seq(Frames) /\ s # << >> /\ Last(s) = s[Len(s)] /\ Len(s) \in Nat \ {0}
      /\ [Last(s) EXCEPT !.at = l] = f /\ OpOf(t) = s[Len(s)].op
      /\ f \in Frames /\ f.at = l /\ f.op = OpOf(t)
  BY <1>1, <1>2, TopOfStack, FrameType
<1>5. /\ u \in Seq(Frames) /\ Len(u) = Len(s)
      /\ \A k \in 1 .. Len(s) - 1 : u[k] = s[k]
      /\ u[Len(s)] = f
  BY <1>3, <1>4, ReplaceProperties
<1>6. stack' = [stack EXCEPT ![t] = u]
  BY <1>1, <1>2, <1>3, <1>4 DEF Goto
<1>7. /\ Len(s) - 1 \in 0 .. Len(s) /\ Len(s) - 1 <= Len(u)
      /\ \A k \in Len(s) - 1 + 1 .. Len(u) : k = Len(s) /\ u[k] = f
      /\ \A k \in 1 .. Len(u) - 1 : Len(s) - 1 <= k => k = Len(s) - 1 /\ u[k] = s[k]
  BY <1>4, <1>5
<1>8. \A k \in 1 .. Len(u) - 1 : Len(s) - 1 <= k => u[k].at \in Covered
  BY <1>1, <1>4, <1>5, <1>7 DEF StackInv, CallsNest
<1>9. f.at \in Owning =>
        \A q \in Threads : \A j \in 1 .. Len(stack[q]) :
          Kept(t, Len(s) - 1, q, j) /\ stack[q][j].at \in Owning => stack[q][j].op # f.op
  <2> SUFFICES ASSUME f.at \in Owning, NEW q \in Threads, NEW j \in 1 .. Len(stack[q]),
                      Kept(t, Len(s) - 1, q, j), stack[q][j].at \in Owning,
                      stack[q][j].op = f.op
               PROVE  FALSE
    OBVIOUS
  <2>1. s[Len(s)].at \in Owning /\ s[Len(s)].op = f.op /\ Len(s) \in 1 .. Len(s)
    BY <1>1, <1>4
  <2>2. q = t /\ j = Len(s)
    BY <1>1, <2>1 DEF StackInv, CallsOwn
  <2> QED
    BY <1>4, <2>2 DEF Kept
<1> HIDE DEF Frame
<1>10. CallOK(t, f)'
  BY <1>2
<1>11. PICK n : n = Len(s) - 1
  OBVIOUS
<1>12. \A k \in n + 1 .. Len(u) : CallOK(t, u[k])'
  BY <1>7, <1>10, <1>11
<1>13. \A k \in n + 1 .. Len(u) : u[k].at \in Owning =>
          /\ \A j \in n + 1 .. Len(u) : u[j].at \in Owning => j = k
          /\ \A q \in Threads : \A j \in 1 .. Len(stack[q]) :
               Kept(t, n, q, j) /\ stack[q][j].at \in Owning => stack[q][j].op # u[k].op
  BY <1>7, <1>9, <1>11
<1>14. /\ n \in 0 .. Len(stack[t]) /\ n <= Len(u)
       /\ \A k \in 1 .. n : u[k] = stack[t][k]
       /\ \A k \in 1 .. Len(u) - 1 : n <= k => u[k].at \in Covered
       /\ \A k \in n + 1 .. Len(u) : u[k].at = "multi" => k = 1
       /\ \A q \in Threads : \A k \in 1 .. Len(stack[q]) :
            Kept(t, n, q, k) => \A g : g = stack[q][k] => CallOK(q, g)'
  BY <1>1, <1>4, <1>5, <1>7, <1>8, <1>11
<1> QED
  BY <1>5, <1>6, <1>12, <1>13, <1>14, StackKept

LEMMA PushTwoStack ==
  ASSUME LockTypeOK, StackInv, NEW t \in Threads, NEW f \in Frames, NEW c \in Frames,
         Push(t, <<f>> \o <<c>>),
         \A q \in Threads : \A k \in 1 .. Len(stack[q]) :
            \A g : g = stack[q][k] => CallOK(q, g)',
         CallOK(t, f)', CallOK(t, c)',
         InProgram(t) \/ Last(stack[t]).at \in Covered,
         f.at \in Covered, c.at \notin Owning, f.at # "multi", c.at # "multi",
         f.at \in Owning => \A q \in Threads : \A k \in 1 .. Len(stack[q]) :
            stack[q][k].at \in Owning => stack[q][k].op # f.op
  PROVE  StackInv'
<1>1. PICK s : s = stack[t]
  OBVIOUS
<1>2. PICK v : v = s \o <<f>>
  OBVIOUS
<1>3. PICK u : u = v \o <<c>>
  OBVIOUS
<1>4. /\ s \in Seq(Frames) /\ Len(s) \in Nat
      /\ InProgram(t) <=> Len(s) = 0
  BY <1>1 DEF LockTypeOK, InProgram
<1>5. /\ v \in Seq(Frames) /\ Len(v) = Len(s) + 1
      /\ \A k \in 1 .. Len(s) : v[k] = s[k]
      /\ v[Len(v)] = f
  BY <1>2, <1>4, PushProperties
<1>6. /\ u \in Seq(Frames) /\ Len(u) = Len(v) + 1
      /\ \A k \in 1 .. Len(v) : u[k] = v[k]
      /\ u[Len(u)] = c
  BY <1>3, <1>5, PushProperties
<1>7. s \o (<<f>> \o <<c>>) = u
  BY <1>2, <1>3, <1>4
<1>8. stack' = [stack EXCEPT ![t] = u]
  BY <1>1, <1>7 DEF Push
<1>9. Len(s) > 0 => Last(s) = s[Len(s)]
  BY <1>4, PopProperties
<1>10. PICK n : n = Len(s)
  OBVIOUS
<1>11. /\ n \in Nat /\ Len(u) = n + 2 /\ u[n + 1] = f /\ u[n + 2] = c
       /\ \A k \in 1 .. n : u[k] = s[k]
  BY <1>4, <1>5, <1>6, <1>10
<1>12. \A k \in n + 1 .. Len(u) : (k = n + 1 /\ u[k] = f) \/ (k = n + 2 /\ u[k] = c)
  BY <1>11
<1>13. \A k \in n + 1 .. Len(u) : CallOK(t, u[k])'
  BY <1>12
<1>14. \A k \in n + 1 .. Len(u) : u[k].at \in Owning =>
          /\ \A j \in n + 1 .. Len(u) : u[j].at \in Owning => j = k
          /\ \A q \in Threads : \A j \in 1 .. Len(stack[q]) :
               Kept(t, n, q, j) /\ stack[q][j].at \in Owning => stack[q][j].op # u[k].op
  BY <1>12
<1>15. \A k \in 1 .. Len(u) - 1 : n <= k => u[k].at \in Covered
  <2> SUFFICES ASSUME NEW k \in 1 .. Len(u) - 1, n <= k
               PROVE  u[k].at \in Covered
    OBVIOUS
  <2>1. k = n \/ k = n + 1
    BY <1>11
  <2>2. CASE k = n
    BY <1>1, <1>4, <1>9, <1>10, <1>11, <2>2
  <2>3. CASE k = n + 1
    BY <1>11, <2>3
  <2> QED
    BY <2>1, <2>2, <2>3
<1>16. /\ n \in 0 .. Len(stack[t]) /\ n <= Len(u)
       /\ \A k \in 1 .. n : u[k] = stack[t][k]
       /\ \A k \in n + 1 .. Len(u) : u[k].at = "multi" => k = 1
       /\ \A q \in Threads : \A k \in 1 .. Len(stack[q]) :
            Kept(t, n, q, k) => \A g : g = stack[q][k] => CallOK(q, g)'
  BY <1>1, <1>4, <1>10, <1>11, <1>12
<1> QED
  BY <1>6, <1>8, <1>13, <1>14, <1>15, <1>16, StackKept

LEMMA GotoAndPushStack ==
  ASSUME LockTypeOK, StackInv, NEW t \in Threads, ~InProgram(t),
         NEW l \in {"early"}, NEW c \in Frames, c.at \notin Owning, c.at # "multi",
         GotoAndPush(t, l, <<c>>),
         \A q \in Threads : \A k \in 1 .. Len(stack[q]) :
            Kept(t, Len(stack[t]) - 1, q, k) => \A g : g = stack[q][k] => CallOK(q, g)',
         \A g : g = Frame(l, OpOf(t)) => CallOK(t, g)', CallOK(t, c)',
         Last(stack[t]).at \in Owning
  PROVE  StackInv'
<1>1. PICK s : s = stack[t]
  OBVIOUS
<1>2. PICK f : f = Frame(l, OpOf(t))
  OBVIOUS
<1>3. PICK v : v = Append(Front(s), f)
  OBVIOUS
<1>4. PICK u : u = v \o <<c>>
  OBVIOUS
<1>5. /\ s \in Seq(Frames) /\ s # << >> /\ Last(s) = s[Len(s)] /\ Len(s) \in Nat \ {0}
      /\ [Last(s) EXCEPT !.at = l] = f /\ OpOf(t) = s[Len(s)].op
      /\ f \in Frames /\ f.at = l /\ f.op = OpOf(t)
  BY <1>1, <1>2, TopOfStack, FrameType
<1>6. /\ v \in Seq(Frames) /\ Len(v) = Len(s)
      /\ \A k \in 1 .. Len(s) - 1 : v[k] = s[k]
      /\ v[Len(s)] = f
  BY <1>3, <1>5, ReplaceProperties
<1>7. /\ u \in Seq(Frames) /\ Len(u) = Len(v) + 1
      /\ \A k \in 1 .. Len(v) : u[k] = v[k]
      /\ u[Len(u)] = c
  BY <1>4, <1>6, PushProperties
<1>8. stack' = [stack EXCEPT ![t] = u]
  BY <1>1, <1>2, <1>3, <1>4, <1>5 DEF GotoAndPush
<1>9. PICK n : n = Len(s) - 1
  OBVIOUS
<1>10. /\ n \in Nat /\ Len(s) = n + 1 /\ Len(u) = n + 2 /\ u[n + 1] = f /\ u[n + 2] = c
       /\ \A k \in 1 .. n : u[k] = s[k]
  BY <1>5, <1>6, <1>7, <1>9
<1>11. \A k \in n + 1 .. Len(u) : (k = n + 1 /\ u[k] = f) \/ (k = n + 2 /\ u[k] = c)
  BY <1>10
<1>12. CallOK(t, f)'
  BY <1>2
<1>13. \A k \in n + 1 .. Len(u) : CallOK(t, u[k])'
  BY <1>11, <1>12
<1>14. \A q \in Threads : \A j \in 1 .. Len(stack[q]) :
          Kept(t, n, q, j) /\ stack[q][j].at \in Owning => stack[q][j].op # f.op
  <2> SUFFICES ASSUME NEW q \in Threads, NEW j \in 1 .. Len(stack[q]),
                      Kept(t, n, q, j), stack[q][j].at \in Owning, stack[q][j].op = f.op
               PROVE  FALSE
    OBVIOUS
  <2>1. s[Len(s)].at \in Owning /\ s[Len(s)].op = f.op /\ Len(s) \in 1 .. Len(s)
    BY <1>1, <1>5
  <2>2. q = t /\ j = Len(s)
    BY <1>1, <2>1 DEF StackInv, CallsOwn
  <2> QED
    BY <1>10, <2>2 DEF Kept
<1>15. \A k \in n + 1 .. Len(u) : u[k].at \in Owning =>
          /\ \A j \in n + 1 .. Len(u) : u[j].at \in Owning => j = k
          /\ \A q \in Threads : \A j \in 1 .. Len(stack[q]) :
               Kept(t, n, q, j) /\ stack[q][j].at \in Owning => stack[q][j].op # u[k].op
  BY <1>11, <1>14
<1>16. \A k \in 1 .. Len(u) - 1 : n <= k => u[k].at \in Covered
  <2> SUFFICES ASSUME NEW k \in 1 .. Len(u) - 1, n <= k
               PROVE  u[k].at \in Covered
    OBVIOUS
  <2>1. k = n \/ k = n + 1
    BY <1>10
  <2>2. CASE k = n
    BY <1>1, <1>10, <2>2 DEF StackInv, CallsNest
  <2>3. CASE k = n + 1
    BY <1>5, <1>10, <2>3 DEF Covered
  <2> QED
    BY <2>1, <2>2, <2>3
<1>17. /\ n \in 0 .. Len(stack[t]) /\ n <= Len(u)
       /\ \A k \in 1 .. n : u[k] = stack[t][k]
       /\ \A k \in n + 1 .. Len(u) : u[k].at = "multi" => k = 1
       /\ \A q \in Threads : \A k \in 1 .. Len(stack[q]) :
            Kept(t, n, q, k) => \A g : g = stack[q][k] => CallOK(q, g)'
  BY <1>1, <1>5, <1>9, <1>10, <1>11
<1> QED
  BY <1>7, <1>8, <1>13, <1>15, <1>16, <1>17, StackKept

\* A slot in use is the one its receive points to, and that receive is not complete.
StorageInv ==
  \A s \in Slots : /\ storage[s].op = None => storage[s].kind = "none"
                   /\ storage[s].op # None =>
                        /\ place[storage[s].op] = s
                        /\ ucp[storage[s].op] # "none"
                        /\ storage[s].op \notin m_completed

\* Where a receive is stored, called and cancelled, by what UCX has done with it.
RecvOK(op) ==
  /\ ucp[op] = "none" => op \notin held
  /\ ucp[op] # "over" => calls[op] = 0 /\ op \notin m_completed \cup cancelled
  /\ ucp[op] \in {"active", "ready"} => Stored(op, "recv")
  /\ op \in held \ m_completed => Stored(op, "recv")
  /\ op \in Futures => calls[op] = 0 /\ op \notin m_completed
  /\ op \in cancelled \ Futures => op \in m_completed /\ op \notin held
  /\ ucp[op] = "over" /\ op \notin Futures => calls[op] = IF op \in cancelled THEN 0 ELSE 1

SendOK(op) == /\ ucp[op] = "none" => op \notin held
              /\ calls[op] = IF ucp[op] = "over" /\ op \notin Futures THEN 1 ELSE 0

RecvInv == \A op \in Recvs : RecvOK(op)
SendInv == \A op \in Sends : SendOK(op)

RequestInv == RequestTypeOK /\ StorageInv /\ RecvInv /\ SendInv

\* The inductive invariant of stacks, requests and storage.
LifeInv == LockTypeOK /\ RequestInv /\ StackInv

\* All operations have callbacks, or all are futures.
LEMMA StyleCases ==
  /\ Futures = {} \/ Futures = Ops
  /\ UNCHANGED style => Futures' = Futures
BY DEF Futures

\* What a step relies on that goes on with the call of a thread.
LEMMA TopCall ==
  ASSUME LockTypeOK, StackInv, NEW t \in Threads, ~InProgram(t)
  PROVE  /\ CallOK(t, Last(stack[t]))
         /\ OpOf(t) = Last(stack[t]).op
         /\ OpOf(t) \in Ops \cup Groups \cup {None}
         /\ \A q \in Threads : \A k \in 1 .. Len(stack[q]) :
              Kept(t, Len(stack[t]) - 1, q, k) =>
                /\ q = t => stack[q][k].at \in Covered
                /\ stack[q][k].at \in Owning /\ Last(stack[t]).at \in Owning
                     => stack[q][k].op # OpOf(t)
<1>1. /\ Last(stack[t]) = stack[t][Len(stack[t])]
      /\ Len(stack[t]) \in Nat \ {0} /\ Len(stack[t]) \in 1 .. Len(stack[t])
      /\ OpOf(t) \in Ops \cup Groups \cup {None}
  BY TopOfStack
<1>2. CallOK(t, Last(stack[t]))
  BY <1>1 DEF StackInv, CallsOK
<1>3. ASSUME NEW q \in Threads, NEW k \in 1 .. Len(stack[q]),
             Kept(t, Len(stack[t]) - 1, q, k)
      PROVE  /\ q = t => stack[q][k].at \in Covered
             /\ stack[q][k].at \in Owning /\ Last(stack[t]).at \in Owning
                  => stack[q][k].op # OpOf(t)
  <2>1. q = t => k < Len(stack[t])
    BY <1>1, <1>3 DEF Kept
  <2>2. q = t => stack[q][k].at \in Covered
    BY <2>1 DEF StackInv, CallsNest
  <2>3. ASSUME stack[q][k].at \in Owning, Last(stack[t]).at \in Owning,
               stack[q][k].op = OpOf(t)
        PROVE  FALSE
    <3>1. q = t /\ k = Len(stack[t])
      BY <1>1, <2>3 DEF StackInv, CallsOwn, OpOf
    <3> QED
      BY <1>1, <2>1, <3>1
  <2> QED
    BY <2>2, <2>3
<1> QED
  BY <1>1, <1>2, <1>3 DEF OpOf

\* Steps that change no request keep what the calls rely on.
LEMMA SameRequests ==
  ASSUME LifeInv, UNCHANGED <<style, requests, calls>>
  PROVE  /\ RequestInv'
         /\ \A q \in Threads : \A g : CallOK(q, g)' <=> CallOK(q, g)
         /\ \A q \in Threads : \A k \in 1 .. Len(stack[q]) :
              \A g : g = stack[q][k] => CallOK(q, g)'
<1>1. Futures' = Futures
  BY StyleCases
<1>2. /\ storage' = storage /\ place' = place /\ held' = held /\ m_completed' = m_completed
      /\ ucp' = ucp /\ wire' = wire /\ cancelled' = cancelled /\ calls' = calls
  BY DEF requests
<1>3. RequestInv'
  BY <1>1, <1>2 DEF LifeInv, RequestInv, RequestTypeOK, StorageInv, RecvInv, SendInv, RecvOK, SendOK, Stored
<1>4. \A q \in Threads : \A g : CallOK(q, g)' <=> CallOK(q, g)
  BY <1>1, <1>2 DEF CallOK, Stored
<1> QED
  BY <1>3, <1>4 DEF LifeInv, StackInv, CallsOK

\* Steps that leave the requests alone.
LEMMA LifeStepCalls ==
  ASSUME LifeInv, LockTypeOK', NEW t \in Threads,
         \/ CallbackReturns(t) \/ Lock(t) \/ Unlock(t) \/ Progress(t)
         \/ \E op \in Recvs : PostRecv(t, op) \/ Cancel(t, op)
         \/ \E g \in Groups : SendMulti(t, g)
         \/ SendMultiReturns(t) \/ SendsDrained(t) \/ WaitRound(t)
         \/ \E op \in Ops : Wait(t, op)
  PROVE  LifeInv'
<1> USE DEF Owning, Covered
<1>0. /\ LockTypeOK /\ StackInv
      /\ UNCHANGED <<style, requests, calls>>
  BY DEF LifeInv, CallbackReturns, Lock, Unlock, Progress, PostRecv, Cancel, SendMulti,
         SendMultiReturns, SendsDrained, WaitRound, Wait, mutex
<1>1. /\ RequestInv'
      /\ \A q \in Threads : \A g : CallOK(q, g)' <=> CallOK(q, g)
      /\ \A q \in Threads : \A k \in 1 .. Len(stack[q]) :
           \A g : g = stack[q][k] => CallOK(q, g)'
  BY <1>0, SameRequests
<1> SUFFICES StackInv'
  BY <1>1 DEF LifeInv
<1>2. ~InProgram(t) => CallOK(t, Last(stack[t])) /\ OpOf(t) = Last(stack[t]).op
  BY <1>0, TopCall
<1>3. CASE \/ CallbackReturns(t) \/ Unlock(t) \/ SendMultiReturns(t)
           \/ (WaitRound(t) /\ OpOf(t) \notin held)
  BY <1>0, <1>1, <1>3, ReturnStack
     DEF CallbackReturns, Unlock, SendMultiReturns, WaitRound, At
<1>4. CASE Lock(t)
  <2> DEFINE l == Labels[Last(stack[t]).at]
  <2>1. /\ ~InProgram(t) /\ Goto(t, l)
        /\ Last(stack[t]).at \in {"lockRecv", "lockWorker", "lockCancel"}
    BY <1>4 DEF Lock, Labels
  <2>2. /\ l \in {"post", "recvs", "cancel"}
        /\ l = "post" => Last(stack[t]).at = "lockRecv"
        /\ l = "recvs" => Last(stack[t]).at = "lockWorker"
        /\ l = "cancel" => Last(stack[t]).at = "lockCancel"
    BY <2>1 DEF Labels
  <2> HIDE DEF l
  <2>3. ASSUME NEW g, g = Frame(l, OpOf(t))
        PROVE  CallOK(t, g)'
    <3>1. g.at = l /\ g.op = OpOf(t)
      BY <2>3 DEF Frame
    <3>2. CallOK(t, g)
      BY <1>2, <2>1, <2>2, <3>1 DEF CallOK
    <3> QED
      BY <1>1, <3>2
  <2>4. l \in Owning => Last(stack[t]).at \in Owning
    BY <2>1, <2>2
  <2> QED
    BY <1>0, <1>1, <2>1, <2>2, <2>3, <2>4, GotoStack
<1>5. CASE Progress(t)
  <2>1. PICK f : f = Frame("sends", None)
    OBVIOUS
  <2>2. f \in Frames /\ f.at = "sends" /\ f.op = None
    BY <2>1, FrameType
  <2>3. CallOK(t, f)'
    BY <1>1, <2>2 DEF CallOK
  <2> QED
    BY <1>0, <1>1, <1>5, <2>1, <2>2, <2>3, PushStack DEF Progress
<1>6. ASSUME NEW op \in Recvs, PostRecv(t, op)
      PROVE  StackInv'
  <2>1. PICK f : f = Frame("lockRecv", op)
    OBVIOUS
  <2>2. f \in Frames /\ f.at = "lockRecv" /\ f.op = op
    BY <2>1, FrameType DEF Ops
  <2>3. CallOK(t, f)'
    <3>1. CallOK(t, f)
      BY <1>6, <2>2 DEF CallOK, PostRecv
    <3> QED
      BY <1>1, <3>1
  <2>4. InProgram(t) \/ Last(stack[t]).at \in Covered
    BY <1>6 DEF PostRecv, At
  <2>5. \A q \in Threads : \A k \in 1 .. Len(stack[q]) : stack[q][k].op # op
    BY <1>0, <1>6 DEF PostRecv, LockTypeOK
  <2> QED
    BY <1>0, <1>1, <1>6, <2>1, <2>2, <2>3, <2>4, <2>5, PushStack DEF PostRecv
<1>7. ASSUME NEW op \in Recvs, Cancel(t, op)
      PROVE  StackInv'
  <2>1. PICK f : f = Frame("wait", op)
    OBVIOUS
  <2>2. PICK c : c = Frame("lockCancel", op)
    OBVIOUS
  <2>3. /\ f \in Frames /\ f.at = "wait" /\ f.op = op
        /\ c \in Frames /\ c.at = "lockCancel" /\ c.op = op
    BY <2>1, <2>2, FrameType DEF Ops
  <2>4. CallOK(t, c)'
    <3>1. CallOK(t, c)
      BY <1>7, <2>3 DEF CallOK, Cancel, Mine
    <3> QED
      BY <1>1, <3>1
  <2>5. CASE op \in Futures
    <3>1. CallOK(t, f)
      BY <1>7, <2>3, <2>5 DEF CallOK, Cancel, Mine
    <3>2. CallOK(t, f)'
      BY <1>1, <3>1
    <3>3. Push(t, <<f>> \o <<c>>)
      BY <1>7, <2>1, <2>2, <2>5 DEF Cancel
    <3> QED
      BY <1>0, <1>1, <1>7, <2>3, <2>4, <3>2, <3>3, PushTwoStack DEF Cancel, Mine
  <2>6. CASE op \notin Futures
    <3>1. Push(t, << >> \o <<c>>)
      BY <1>7, <2>2, <2>6 DEF Cancel
    <3>2. Push(t, <<c>>)
      BY <2>3, <3>1
    <3> QED
      BY <1>0, <1>1, <1>7, <2>3, <2>4, <3>2, PushStack DEF Cancel, Mine
  <2> QED
    BY <2>5, <2>6
<1>8. ASSUME NEW g \in Groups, SendMulti(t, g)
      PROVE  StackInv'
  <2>1. PICK f : f = Frame("multi", g)
    OBVIOUS
  <2>2. f \in Frames /\ f.at = "multi" /\ f.op = g
    BY <2>1, FrameType
  <2>3. CallOK(t, f)
    BY <1>8, <2>2 DEF CallOK, SendMulti
  <2> QED
    BY <1>0, <1>1, <1>8, <2>1, <2>2, <2>3, PushStack DEF SendMulti
<1>9. CASE SendsDrained(t)
  <2>1. ~InProgram(t) /\ Goto(t, "lockWorker") /\ Last(stack[t]).at = "sends"
    BY <1>9 DEF SendsDrained, At
  <2>2. ASSUME NEW g, g = Frame("lockWorker", OpOf(t))
        PROVE  CallOK(t, g)'
    <3>1. g.at = "lockWorker" /\ g.op = OpOf(t)
      BY <2>2 DEF Frame
    <3>2. CallOK(t, g)
      BY <1>2, <2>1, <3>1 DEF CallOK
    <3> QED
      BY <1>1, <3>2
  <2> QED
    BY <1>0, <1>1, <2>1, <2>2, GotoStack
<1>10. CASE WaitRound(t) /\ OpOf(t) \in held
  <2>1. PICK f : f = Frame("sends", OpOf(t))
    OBVIOUS
  <2>2. /\ ~InProgram(t) /\ Last(stack[t]).at = "wait" /\ Push(t, <<f>>)
        /\ OpOf(t) \in Ops \cup Groups \cup {None}
    BY <1>0, <1>10, <2>1, TopCall DEF WaitRound, At
  <2>3. f \in Frames /\ f.at = "sends" /\ f.op = OpOf(t)
    BY <2>1, <2>2, FrameType
  <2>4. CallOK(t, f)
    BY <1>2, <2>2, <2>3 DEF CallOK
  <2> QED
    BY <1>0, <1>1, <2>2, <2>3, <2>4, PushStack
<1>11. ASSUME NEW op \in Ops, Wait(t, op)
       PROVE  StackInv'
  <2>1. PICK f : f = Frame("wait", op)
    OBVIOUS
  <2>2. f \in Frames /\ f.at = "wait" /\ f.op = op
    BY <2>1, FrameType
  <2>3. CallOK(t, f)
    BY <1>11, <2>2 DEF CallOK, Wait, Mine
  <2> QED
    BY <1>0, <1>1, <1>11, <2>1, <2>2, <2>3, PushStack DEF Wait, Mine
<1> QED
  BY <1>3, <1>4, <1>5, <1>6, <1>7, <1>8, <1>9, <1>10, <1>11

\* There is storage for another receive.
LEMMA FreshStorage ==
  ASSUME RequestInv, NEW op \in Recvs, ucp[op] = "none"
  PROVE  Fresh \in Slots /\ storage[Fresh] = Free
<1> DEFINE f == [s \in Slots |-> storage[s].op]
<1>1. ASSUME \A s \in Slots : storage[s].op # None
      PROVE  FALSE
  <2>1. f \in [Slots -> Recvs \ {op}]
    BY <1>1 DEF RequestInv, RequestTypeOK, StorageInv
  <2>2. \A s, u \in Slots : f[s] = f[u] => s = u
    BY <1>1 DEF RequestInv, StorageInv
  <2>3. /\ IsFiniteSet(Recvs) /\ IsFiniteSet(Recvs \ {op})
        /\ Cardinality(Recvs \ {op}) = Cardinality(Recvs) - 1
        /\ Cardinality(Recvs) \in Nat /\ Cardinality(Slots) \in Nat
    <3>1. IsFiniteSet(Recvs)
      BY EnoughStorage, FS_Subset DEF Ops
    <3> QED
      BY <3>1, EnoughStorage, FS_RemoveElement, FS_CardinalityType
  <2>4. Cardinality(Recvs \ {op}) < Cardinality(Slots)
    BY <2>3, EnoughStorage
  <2> HIDE DEF f
  <2> QED
    BY <2>1, <2>2, <2>3, <2>4, EnoughStorage, FS_PigeonHole
<1>2. Fresh \in Slots /\ storage[Fresh].op = None
  BY <1>1 DEF Fresh
<1> QED
  BY <1>2 DEF RequestInv, RequestTypeOK, StorageInv, Free

\* A receive that completes at once has storage while its callback runs.
LEMMA LifeStepRecvEarly ==
  ASSUME LifeInv, LockTypeOK', NEW t \in Threads, RecvEarly(t)
  PROVE  LifeInv'
<1> USE DEF Owning, Covered
<1>a. PICK op : op = OpOf(t)
  OBVIOUS
<1>0. /\ LockTypeOK /\ StackInv /\ RequestInv
      /\ ~InProgram(t) /\ Last(stack[t]).at = "post" /\ style' = style
      /\ wire[Tag[op]] > 0
      /\ wire' = [wire EXCEPT ![Tag[op]] = @ - 1]
      /\ ucp' = [ucp EXCEPT ![op] = "over"]
      /\ UNCHANGED <<held, m_completed, cancelled>>
  BY <1>a DEF LifeInv, RecvEarly, At, mutex
<1>1. op \in Recvs /\ op \in Ops /\ ucp[op] = "none" /\ op \notin Sends
  BY <1>a, <1>0, TopCall, OpsDisjoint DEF CallOK, Ops
<1>2. Futures' = Futures
  BY <1>0, StyleCases
<1>3. /\ op \in Futures => UNCHANGED <<calls, storage, place>>
      /\ op \notin Futures => /\ calls' = [calls EXCEPT ![op] = @ + 1]
                              /\ storage' = [storage EXCEPT ![Fresh] = [op |-> op, kind |-> "none"]]
                              /\ place' = [place EXCEPT ![op] = Fresh]
  <2>1. storage[Fresh] = Free /\ Fresh \in Slots
    BY <1>0, <1>1, FreshStorage
  <2>2. op \notin Futures => storage' = [storage EXCEPT ![Fresh].op = op]
    BY <1>a DEF RecvEarly
  <2>3. op \notin Futures => storage' = [storage EXCEPT ![Fresh] = [op |-> op, kind |-> "none"]]
    BY <2>1, <2>2 DEF Free
  <2> QED
    BY <1>a, <2>3 DEF RecvEarly, Invoke
<1>4. \A s \in Slots : storage[s].op # op
  BY <1>0, <1>1, OpsDisjoint DEF RequestInv, StorageInv, Ops
<1>5. op \notin held /\ op \notin m_completed /\ op \notin cancelled /\ calls[op] = 0
  BY <1>0, <1>1 DEF RequestInv, RecvInv, RecvOK
<1>6. Fresh \in Slots /\ storage[Fresh] = [op |-> None, kind |-> "none"]
  BY <1>0, <1>1, FreshStorage DEF Free
<1>7. op # None /\ Tag[op] \in Range(Tag)
  BY <1>1, OpsDisjoint, TagType DEF Range
<1>8. PICK x : x = Fresh
  OBVIOUS
<1>b. ASSUME NEW o \in Recvs, o # op, NEW kind, Stored(o, kind)
      PROVE  Stored(o, kind)'
  <2>1. o # None /\ place[o] # x /\ place[o] \in Slots
    BY <1>6, <1>8, <1>b, OpsDisjoint DEF Stored, Ops
  <2>2. CASE op \in Futures
    BY <1>3, <1>b, <2>2 DEF Stored
  <2>3. CASE op \notin Futures
    BY <1>0, <1>3, <1>8, <1>b, <2>1, <2>3 DEF RequestInv, RequestTypeOK, Stored
  <2> QED
    BY <2>2, <2>3
<1>9. RequestTypeOK'
  BY <1>0, <1>1, <1>3, <1>6, <1>7, <1>8 DEF RequestInv, RequestTypeOK
<1>10. StorageInv'
  BY <1>0, <1>1, <1>3, <1>4, <1>5, <1>6, <1>7, <1>8 DEF RequestInv, RequestTypeOK, StorageInv, Ops
<1>11. RecvInv'
  <2> SUFFICES ASSUME NEW o \in Recvs
               PROVE  RecvOK(o)'
    BY DEF RecvInv
  <2> QED
    BY <1>0, <1>1, <1>2, <1>3, <1>5, <1>b DEF RequestInv, RequestTypeOK, RecvInv, RecvOK, Ops
<1>12. SendInv'
  BY <1>0, <1>1, <1>2, <1>3 DEF RequestInv, RequestTypeOK, SendInv, SendOK, Ops
<1>13. ASSUME NEW q \in Threads, NEW k \in 1 .. Len(stack[q]),
              Kept(t, Len(stack[t]) - 1, q, k), NEW g, g = stack[q][k]
       PROVE  CallOK(q, g)'
  <2>1. CallOK(q, g)
    BY <1>0, <1>13 DEF StackInv, CallsOK
  <2>2. g.at \in Owning => g.op # op
    BY <1>a, <1>0, <1>13, TopCall
  <2> QED
    BY <1>0, <1>1, <1>2, <1>b, <2>1, <2>2 DEF RequestInv, RequestTypeOK, CallOK, Ops
<1>14. StackInv'
  <2>1. CASE op \in Futures
    <3>1. Goto(t, "unlock")
      BY <1>a, <2>1 DEF RecvEarly
    <3>2. ASSUME NEW g, g = Frame("unlock", OpOf(t))
          PROVE  CallOK(t, g)'
      BY <3>2 DEF CallOK, Frame
    <3> QED
      BY <1>0, <1>13, <3>1, <3>2, GotoStack
  <2>2. CASE op \notin Futures
    <3>1. PICK c : c = Frame("callback", OpOf(t))
      OBVIOUS
    <3>2. GotoAndPush(t, "early", <<c>>)
      BY <1>a, <2>2, <3>1 DEF RecvEarly, Callback
    <3>3. c \in Frames /\ c.at = "callback" /\ c.op = op
      BY <1>a, <1>1, <3>1, FrameType
    <3>4. CallOK(t, c)'
      BY <1>1, <1>2, <2>2, <3>3 DEF CallOK
    <3>5. ASSUME NEW g, g = Frame("early", OpOf(t))
          PROVE  CallOK(t, g)'
      <4>1. g.at = "early" /\ g.op = op
        BY <1>a, <3>5 DEF Frame
      <4>2. /\ ucp'[op] = "over" /\ Stored(op, "none")'
        BY <1>0, <1>1, <1>3, <1>6, <1>8, <2>2 DEF RequestInv, RequestTypeOK, Stored
      <4> QED
        BY <1>0, <1>1, <1>2, <1>5, <2>2, <4>1, <4>2 DEF CallOK
    <3> QED
      BY <1>0, <1>13, <3>2, <3>3, <3>4, <3>5, GotoAndPushStack
  <2> QED
    BY <2>1, <2>2
<1> QED
  BY <1>9, <1>10, <1>11, <1>12, <1>14 DEF LifeInv, RequestInv

\* It gives the storage back.
LEMMA LifeStepRecvEarlyDone ==
  ASSUME LifeInv, LockTypeOK', NEW t \in Threads, RecvEarlyDone(t)
  PROVE  LifeInv'
<1> USE DEF Owning, Covered
<1>a. PICK op : op = OpOf(t)
  OBVIOUS
<1>0. /\ LockTypeOK /\ StackInv /\ RequestInv
      /\ ~InProgram(t) /\ Last(stack[t]).at = "early" /\ style' = style
      /\ storage' = [storage EXCEPT ![place[op]] = Free]
      /\ UNCHANGED <<place, held, m_completed, ucp, wire, cancelled, calls>>
      /\ Goto(t, "unlock")
  BY <1>a DEF LifeInv, RecvEarlyDone, At, mutex
<1>1. /\ op \in Recvs \ Futures /\ ucp[op] = "over" /\ op \notin m_completed \cup cancelled
      /\ Stored(op, "none") /\ op \notin held
  BY <1>a, <1>0, TopCall DEF CallOK
<1>2. Futures' = Futures
  BY <1>0, StyleCases
<1>3. ASSUME NEW o \in Recvs, o # op, NEW kind, Stored(o, kind)
      PROVE  Stored(o, kind)'
  <2>1. place[o] # place[op]
    BY <1>1, <1>3 DEF Stored
  <2> QED
    BY <1>0, <1>3, <2>1 DEF RequestInv, RequestTypeOK, Stored
<1>4. RequestTypeOK'
  BY <1>0, <1>1, OpsDisjoint DEF RequestInv, RequestTypeOK, Free
<1>5. StorageInv'
  BY <1>0, <1>1 DEF RequestInv, RequestTypeOK, StorageInv, Free, Stored
<1>6. RecvInv'
  <2> SUFFICES ASSUME NEW o \in Recvs
               PROVE  RecvOK(o)'
    BY DEF RecvInv
  <2> QED
    BY <1>0, <1>1, <1>2, <1>3 DEF RequestInv, RequestTypeOK, RecvInv, RecvOK
<1>7. SendInv'
  BY <1>0, <1>2 DEF RequestInv, SendInv, SendOK
<1>8. ASSUME NEW q \in Threads, NEW k \in 1 .. Len(stack[q]),
             Kept(t, Len(stack[t]) - 1, q, k), NEW g, g = stack[q][k]
      PROVE  CallOK(q, g)'
  <2>1. CallOK(q, g)
    BY <1>0, <1>8 DEF StackInv, CallsOK
  <2>2. g.at \in Owning => g.op # op
    BY <1>a, <1>0, <1>8, TopCall
  <2> QED
    BY <1>0, <1>2, <1>3, <2>1, <2>2 DEF CallOK
<1>9. ASSUME NEW g, g = Frame("unlock", OpOf(t))
      PROVE  CallOK(t, g)'
  BY <1>9 DEF CallOK, Frame
<1>10. StackInv'
  BY <1>0, <1>8, <1>9, GotoStack
<1> QED
  BY <1>4, <1>5, <1>6, <1>7, <1>10 DEF LifeInv, RequestInv

\* A receive that waits for its message is constructed in its storage.
LEMMA LifeStepRecvPending ==
  ASSUME LifeInv, LockTypeOK', NEW t \in Threads, RecvPending(t)
  PROVE  LifeInv'
<1> USE DEF Owning, Covered
<1>a. PICK op : op = OpOf(t)
  OBVIOUS
<1>b. PICK x : x = Fresh
  OBVIOUS
<1>0. /\ LockTypeOK /\ StackInv /\ RequestInv
      /\ ~InProgram(t) /\ Last(stack[t]).at = "post" /\ style' = style
      /\ storage' = [storage EXCEPT ![x] = [op |-> op, kind |-> "recv"]]
      /\ place' = [place EXCEPT ![op] = x]
      /\ ucp' = [ucp EXCEPT ![op] = "active"]
      /\ held' = held \cup {op}
      /\ UNCHANGED <<m_completed, wire, cancelled, calls>>
      /\ Goto(t, "unlock")
  BY <1>a, <1>b DEF LifeInv, RecvPending, At, mutex
<1>1. op \in Recvs /\ op \in Ops /\ ucp[op] = "none" /\ op \notin Sends /\ op # None
  BY <1>a, <1>0, TopCall, OpsDisjoint DEF CallOK, Ops
<1>2. Futures' = Futures
  BY <1>0, StyleCases
<1>3. x \in Slots /\ storage[x] = [op |-> None, kind |-> "none"]
  BY <1>b, <1>0, <1>1, FreshStorage DEF Free
<1>4. \A s \in Slots : storage[s].op # op
  BY <1>0, <1>1 DEF RequestInv, StorageInv
<1>5. op \notin held /\ op \notin m_completed /\ op \notin cancelled /\ calls[op] = 0
  BY <1>0, <1>1 DEF RequestInv, RecvInv, RecvOK
<1>6. ASSUME NEW o \in Recvs, o # op, NEW kind, Stored(o, kind)
      PROVE  Stored(o, kind)'
  <2>1. o # None /\ place[o] # x
    BY <1>3, <1>6, OpsDisjoint DEF Stored, Ops
  <2> QED
    BY <1>0, <1>6, <2>1 DEF RequestInv, RequestTypeOK, Stored
<1>7. Stored(op, "recv")'
  BY <1>0, <1>1, <1>3 DEF RequestInv, RequestTypeOK, Stored
<1>8. RequestTypeOK'
  BY <1>0, <1>1, <1>3 DEF RequestInv, RequestTypeOK
<1>9. StorageInv'
  BY <1>0, <1>1, <1>3, <1>4, <1>5 DEF RequestInv, RequestTypeOK, StorageInv, Ops
<1>10. RecvInv'
  <2> SUFFICES ASSUME NEW o \in Recvs
               PROVE  RecvOK(o)'
    BY DEF RecvInv
  <2> QED
    BY <1>0, <1>1, <1>2, <1>5, <1>6, <1>7 DEF RequestInv, RequestTypeOK, RecvInv, RecvOK, Ops
<1>11. SendInv'
  BY <1>0, <1>1, <1>2 DEF RequestInv, RequestTypeOK, SendInv, SendOK, Ops
<1>12. ASSUME NEW q \in Threads, NEW k \in 1 .. Len(stack[q]),
              Kept(t, Len(stack[t]) - 1, q, k), NEW g, g = stack[q][k]
       PROVE  CallOK(q, g)'
  <2>1. CallOK(q, g)
    BY <1>0, <1>12 DEF StackInv, CallsOK
  <2>2. g.at \in Owning => g.op # op
    BY <1>a, <1>0, <1>12, TopCall
  <2> QED
    BY <1>0, <1>1, <1>2, <1>6, <2>1, <2>2 DEF RequestInv, RequestTypeOK, CallOK, Ops
<1>13. ASSUME NEW g, g = Frame("unlock", OpOf(t))
       PROVE  CallOK(t, g)'
  BY <1>13 DEF CallOK, Frame
<1>14. StackInv'
  BY <1>0, <1>12, <1>13, GotoStack
<1> QED
  BY <1>8, <1>9, <1>10, <1>11, <1>14 DEF LifeInv, RequestInv

\* A step that changes nothing for the receives.
LEMMA SameReceives ==
  ASSUME LifeInv, UNCHANGED <<style, stack, storage, place, cancelled>>,
         \A o \in Recvs : /\ ucp'[o] = ucp[o] /\ calls'[o] = calls[o]
                          /\ o \in held' <=> o \in held
                          /\ o \in m_completed' <=> o \in m_completed
  PROVE  StorageInv' /\ RecvInv' /\ StackInv'
<1>0. LockTypeOK /\ StackInv /\ RequestInv
  BY DEF LifeInv
<1>1. Futures' = Futures
  BY StyleCases
<1>2. StorageInv'
  BY <1>0 DEF RequestInv, RequestTypeOK, StorageInv
<1>3. RecvInv'
  BY <1>0, <1>1 DEF RequestInv, RecvInv, RecvOK, Stored
<1>4. ASSUME NEW q \in Threads, NEW k \in 1 .. Len(stack[q]), NEW g, g = stack[q][k]
      PROVE  CallOK(q, g)'
  <2>1. CallOK(q, g)
    BY <1>0, <1>4 DEF StackInv, CallsOK
  <2> QED
    BY <1>1, <2>1 DEF CallOK, Stored
<1>5. StackInv'
  BY <1>0, <1>4, SameStack
<1> QED
  BY <1>2, <1>3, <1>5

\* A set of numbers has a least one.
LEMMA LeastNumber ==
  ASSUME NEW S \in SUBSET Nat, S # {}
  PROVE  \E k \in S : \A n \in S : k <= n
<1> DEFINE R == {ss \in Nat \X Nat : ss[1] < ss[2]}
<1>1. IsWellFoundedOn(R, Nat)
  BY NatLessThanWellFounded, Zenon DEF OpToRel
<1>2. PICK k \in S : \A n \in S : ~(<<n, k>> \in R)
  <2> HIDE DEF R
  <2> QED
    BY <1>1, WFMin
<1>3. \A n \in S : ~(n < k)
  BY <1>2
<1> QED
  BY <1>3

\* send_multi goes on with one of its own sends, and one that is not posted.
LEMMA NextSendProperties ==
  ASSUME LifeInv, NEW t \in Threads, At(t, "multi"), ToSend(OpOf(t)) # {}
  PROVE  LET op == NextSend(OpOf(t))
         IN  /\ OpOf(t) \in Groups
             /\ op \in Range(Multi[OpOf(t)]) /\ op \in Sends /\ ucp[op] = "none"
<1>1. OpOf(t) \in Groups
  BY TopCall DEF LifeInv, At, CallOK
<1> DEFINE g == OpOf(t)
           S == ToSend(g)
<1>2. /\ Multi[g] \in Seq(Sends) /\ Len(Multi[g]) \in Nat
      /\ DOMAIN Multi[g] = 1 .. Len(Multi[g])
  BY <1>1, MultiPartition, LenProperties
<1>3. S \subseteq Nat /\ S # {}
  BY <1>2 DEF ToSend
<1> HIDE DEF S
<1>4. \E k \in S : \A n \in S : k <= n
  BY <1>3, LeastNumber
<1>5. NextSend(g) = Multi[g][CHOOSE k \in S : \A n \in S : k <= n]
  BY DEF NextSend, S
<1>6. PICK k \in S : NextSend(g) = Multi[g][k]
  BY <1>4, <1>5
<1>7. k \in 1 .. Len(Multi[g]) /\ ucp[Multi[g][k]] = "none"
  BY <1>2, <1>6 DEF S, ToSend
<1>8. Multi[g][k] \in Sends /\ Multi[g][k] \in Range(Multi[g])
  BY <1>2, <1>7, ElementOfSeq DEF Range
<1> QED
  BY <1>1, <1>6, <1>7, <1>8

\* Steps of a send.
LEMMA LifeStepSend ==
  ASSUME LifeInv, LockTypeOK',
         \/ \E t \in Threads : SendNow(t) \/ SendPending(t) \/ CompleteSend(t)
         \/ \E op \in Sends : SendReady(op)
  PROVE  LifeInv'
<1>0. LockTypeOK /\ StackInv /\ RequestInv
  BY DEF LifeInv
<1>1. PICK op \in Sends :
        /\ UNCHANGED <<style, stack, storage, place, cancelled>>
        /\ \/ /\ ucp[op] = "none" /\ ucp' = [ucp EXCEPT ![op] = "over"]
              /\ Invoke(op) /\ wire' = [wire EXCEPT ![Tag[op]] = @ + 1]
              /\ UNCHANGED <<held, m_completed>>
           \/ /\ ucp[op] = "none" /\ ucp' = [ucp EXCEPT ![op] = "active"]
              /\ wire' = [wire EXCEPT ![Tag[op]] = @ + 1]
              /\ held' = held \cup {op}
              /\ UNCHANGED <<m_completed, calls>>
           \/ /\ ucp[op] = "ready" /\ ucp' = [ucp EXCEPT ![op] = "over"]
              /\ Invoke(op)
              /\ m_completed' = m_completed \cup ({op} \ Futures)
              /\ UNCHANGED <<wire, held>>
           \/ /\ ucp[op] = "active" /\ ucp' = [ucp EXCEPT ![op] = "ready"]
              /\ UNCHANGED <<wire, held, m_completed, calls>>
  <2>1. ASSUME NEW t \in Threads, SendNow(t) \/ SendPending(t)
        PROVE  NextSend(OpOf(t)) \in Sends /\ ucp[NextSend(OpOf(t))] = "none"
    BY <2>1, NextSendProperties DEF SendNow, SendPending
  <2>2. ASSUME NEW t \in Threads, SendNow(t)
        PROVE  \E op \in Sends :
                 /\ UNCHANGED <<style, stack, storage, place, cancelled>>
                 /\ ucp[op] = "none" /\ ucp' = [ucp EXCEPT ![op] = "over"]
                 /\ Invoke(op) /\ wire' = [wire EXCEPT ![Tag[op]] = @ + 1]
                 /\ UNCHANGED <<held, m_completed>>
    BY <2>1, <2>2 DEF SendNow, mutex
  <2>3. ASSUME NEW t \in Threads, SendPending(t)
        PROVE  \E op \in Sends :
                 /\ UNCHANGED <<style, stack, storage, place, cancelled>>
                 /\ ucp[op] = "none" /\ ucp' = [ucp EXCEPT ![op] = "active"]
                 /\ wire' = [wire EXCEPT ![Tag[op]] = @ + 1]
                 /\ held' = held \cup {op}
                 /\ UNCHANGED <<m_completed, calls>>
    BY <2>1, <2>3 DEF SendPending, mutex
  <2>4. ASSUME NEW t \in Threads, CompleteSend(t)
        PROVE  \E op \in Sends :
                 /\ UNCHANGED <<style, stack, storage, place, cancelled>>
                 /\ ucp[op] = "ready" /\ ucp' = [ucp EXCEPT ![op] = "over"]
                 /\ Invoke(op)
                 /\ m_completed' = m_completed \cup ({op} \ Futures)
                 /\ UNCHANGED <<wire, held>>
    BY <2>4 DEF CompleteSend, mutex
  <2>5. ASSUME NEW op \in Sends, SendReady(op)
        PROVE  /\ UNCHANGED <<style, stack, storage, place, cancelled>>
               /\ ucp[op] = "active" /\ ucp' = [ucp EXCEPT ![op] = "ready"]
               /\ UNCHANGED <<wire, held, m_completed, calls>>
    BY <2>5 DEF SendReady, mutex
  <2> QED
    BY <2>2, <2>3, <2>4, <2>5
<1>2. Futures' = Futures
  BY <1>1, StyleCases
<1>3. op \in Ops /\ op \notin Recvs /\ Tag[op] \in Range(Tag)
  BY OpsDisjoint, TagType DEF Ops, Range
<1>4. /\ UNCHANGED <<style, stack, storage, place, cancelled>>
      /\ \A o \in Recvs : /\ ucp'[o] = ucp[o] /\ calls'[o] = calls[o]
                          /\ o \in held' <=> o \in held
                          /\ o \in m_completed' <=> o \in m_completed
  BY <1>0, <1>1, <1>3 DEF RequestInv, RequestTypeOK, Invoke, Ops
<1>5. StorageInv' /\ RecvInv' /\ StackInv'
  BY <1>4, SameReceives
<1>6. RequestTypeOK'
  BY <1>0, <1>1, <1>3 DEF RequestInv, RequestTypeOK, Invoke
<1>7. SendInv'
  <2> SUFFICES ASSUME NEW o \in Sends
               PROVE  SendOK(o)'
    BY DEF SendInv
  <2>1. SendOK(o) /\ SendOK(op) /\ o \in Ops
    BY <1>0 DEF RequestInv, SendInv, Ops
  <2>2. CASE o # op
    BY <1>0, <1>1, <1>2, <1>3, <2>1, <2>2 DEF RequestInv, RequestTypeOK, SendOK, Invoke
  <2>3. CASE o = op
    BY <1>0, <1>1, <1>2, <1>3, <2>1, <2>3 DEF RequestInv, RequestTypeOK, SendOK, Invoke
  <2> QED
    BY <2>2, <2>3
<1> QED
  BY <1>5, <1>6, <1>7 DEF LifeInv, RequestInv

\* A message meets its receive.
LEMMA LifeStepMatch ==
  ASSUME LifeInv, LockTypeOK', NEW op \in Recvs, Match(op)
  PROVE  LifeInv'
<1>0. /\ LockTypeOK /\ StackInv /\ RequestInv
      /\ ucp[op] = "active" /\ wire[Tag[op]] > 0
      /\ ucp' = [ucp EXCEPT ![op] = "ready"]
      /\ wire' = [wire EXCEPT ![Tag[op]] = @ - 1]
      /\ UNCHANGED <<style, stack, storage, place, held, m_completed, cancelled, calls>>
  BY DEF LifeInv, Match, mutex
<1>1. op \in Ops /\ op \notin Sends /\ Tag[op] \in Range(Tag)
  BY OpsDisjoint, TagType DEF Ops, Range
<1>2. Futures' = Futures
  BY <1>0, StyleCases
<1>3. RequestTypeOK'
  BY <1>0, <1>1 DEF RequestInv, RequestTypeOK
<1>4. StorageInv' /\ SendInv'
  BY <1>0, <1>1, <1>2 DEF RequestInv, RequestTypeOK, StorageInv, SendInv, SendOK, Ops
<1>5. RecvInv'
  <2> SUFFICES ASSUME NEW o \in Recvs
               PROVE  RecvOK(o)'
    BY DEF RecvInv
  <2> QED
    BY <1>0, <1>1, <1>2 DEF RequestInv, RequestTypeOK, RecvInv, RecvOK, Stored, Ops
<1>6. ASSUME NEW q \in Threads, NEW k \in 1 .. Len(stack[q]), NEW g, g = stack[q][k]
      PROVE  CallOK(q, g)'
  <2>1. CallOK(q, g)
    BY <1>0, <1>6 DEF StackInv, CallsOK
  <2> QED
    BY <1>0, <1>1, <1>2, <2>1 DEF RequestInv, RequestTypeOK, CallOK, Stored
<1>7. StackInv'
  BY <1>0, <1>6, SameStack
<1> QED
  BY <1>3, <1>4, <1>5, <1>7 DEF LifeInv, RequestInv

\* The callback of a receive runs on top of the thread that is in the worker.
LEMMA LifeStepCompleteRecv ==
  ASSUME LifeInv, LockTypeOK', NEW t \in Threads, CompleteRecv(t)
  PROVE  LifeInv'
<1> USE DEF Owning, Covered
<1>0. /\ LockTypeOK /\ StackInv /\ RequestInv
      /\ ~InProgram(t) /\ Last(stack[t]).at = "recvs"
      /\ UNCHANGED <<style, storage, place, held, m_completed, wire, cancelled>>
  BY DEF LifeInv, CompleteRecv, At, mutex
<1>1. PICK op \in Recvs :
        /\ ucp[op] = "ready"
        /\ ucp' = [ucp EXCEPT ![op] = "over"]
        /\ Invoke(op)
        /\ IF op \in Futures THEN UNCHANGED stack
           ELSE Push(t, <<Frame("received", op)>> \o Callback(op))
  BY DEF CompleteRecv
<1>2. op \in Ops /\ op \notin Sends
  BY OpsDisjoint DEF Ops
<1>3. Futures' = Futures
  BY <1>0, StyleCases
<1>4. /\ op \notin m_completed \cup cancelled /\ calls[op] = 0 /\ Stored(op, "recv")
  BY <1>0, <1>1 DEF RequestInv, RecvInv, RecvOK
<1>5. RequestTypeOK'
  BY <1>0, <1>1, <1>2 DEF RequestInv, RequestTypeOK, Invoke
<1>6. StorageInv' /\ SendInv'
  BY <1>0, <1>1, <1>2, <1>3 DEF RequestInv, RequestTypeOK, StorageInv, SendInv, SendOK, Ops, Invoke
<1>7. RecvInv'
  <2> SUFFICES ASSUME NEW o \in Recvs
               PROVE  RecvOK(o)'
    BY DEF RecvInv
  <2>1. RecvOK(o) /\ o \in Ops
    BY <1>0 DEF RequestInv, RecvInv, Ops
  <2>2. CASE o # op
    BY <1>0, <1>1, <1>2, <1>3, <2>1, <2>2 DEF RequestInv, RequestTypeOK, RecvOK, Stored, Invoke
  <2>3. CASE o = op
    BY <1>0, <1>1, <1>2, <1>3, <1>4, <2>1, <2>3
       DEF RequestInv, RequestTypeOK, RecvOK, Stored, Invoke
  <2> QED
    BY <2>2, <2>3
<1>8. ASSUME NEW q \in Threads, NEW k \in 1 .. Len(stack[q]), NEW g, g = stack[q][k]
      PROVE  /\ CallOK(q, g)'
             /\ g.at \in Owning => g.op # op
  <2>1. CallOK(q, g)
    BY <1>0, <1>8 DEF StackInv, CallsOK
  <2>2. g.at \in Owning => g.op # op
    BY <1>1, <2>1 DEF CallOK
  <2> QED
    BY <1>0, <1>1, <1>2, <1>3, <2>1, <2>2 DEF RequestInv, RequestTypeOK, CallOK, Stored
<1>9. StackInv'
  <2>1. CASE op \in Futures
    BY <1>0, <1>1, <1>8, <2>1, SameStack
  <2>2. CASE op \notin Futures
    <3>1. PICK f : f = Frame("received", op)
      OBVIOUS
    <3>2. PICK c : c = Frame("callback", op)
      OBVIOUS
    <3>3. /\ f \in Frames /\ f.at = "received" /\ f.op = op
          /\ c \in Frames /\ c.at = "callback" /\ c.op = op
      BY <1>2, <3>1, <3>2, FrameType
    <3>4. Push(t, <<f>> \o <<c>>)
      BY <1>1, <2>2, <3>1, <3>2 DEF Callback
    <3>5. CallOK(t, f)' /\ CallOK(t, c)'
      BY <1>0, <1>1, <1>2, <1>3, <1>4, <2>2, <3>3
         DEF RequestInv, RequestTypeOK, CallOK, Stored
    <3> QED
      BY <1>0, <1>8, <3>3, <3>4, <3>5, PushTwoStack
  <2> QED
    BY <2>1, <2>2
<1> QED
  BY <1>5, <1>6, <1>7, <1>9 DEF LifeInv, RequestInv

\* After it the storage goes back to UCX.
LEMMA LifeStepRecvDone ==
  ASSUME LifeInv, LockTypeOK', NEW t \in Threads, RecvDone(t)
  PROVE  LifeInv'
<1> USE DEF Owning, Covered
<1>a. PICK op : op = OpOf(t)
  OBVIOUS
<1>0. /\ LockTypeOK /\ StackInv /\ RequestInv
      /\ ~InProgram(t) /\ Last(stack[t]).at = "received" /\ style' = style
      /\ m_completed' = m_completed \cup {op}
      /\ storage' = [storage EXCEPT ![place[op]] = Free]
      /\ UNCHANGED <<place, held, ucp, wire, cancelled, calls>>
      /\ Return(t)
  BY <1>a DEF LifeInv, RecvDone, At, mutex
<1>1. /\ op \in Recvs \ Futures /\ ucp[op] = "over" /\ op \notin m_completed \cup cancelled
      /\ Stored(op, "recv") /\ op \in Ops
  BY <1>a, <1>0, TopCall DEF CallOK, Ops
<1>2. Futures' = Futures
  BY <1>0, StyleCases
<1>3. ASSUME NEW o \in Recvs, o # op, NEW kind, Stored(o, kind)
      PROVE  Stored(o, kind)'
  <2>1. place[o] # place[op]
    BY <1>1, <1>3 DEF Stored
  <2> QED
    BY <1>0, <1>3, <2>1 DEF RequestInv, RequestTypeOK, Stored
<1>4. RequestTypeOK'
  BY <1>0, <1>1, OpsDisjoint DEF RequestInv, RequestTypeOK, Free
<1>5. StorageInv'
  BY <1>0, <1>1 DEF RequestInv, RequestTypeOK, StorageInv, Free, Stored
<1>6. RecvInv'
  <2> SUFFICES ASSUME NEW o \in Recvs
               PROVE  RecvOK(o)'
    BY DEF RecvInv
  <2> QED
    BY <1>0, <1>1, <1>2, <1>3 DEF RequestInv, RequestTypeOK, RecvInv, RecvOK
<1>7. SendInv'
  BY <1>0, <1>2 DEF RequestInv, SendInv, SendOK
<1>8. ASSUME NEW q \in Threads, NEW k \in 1 .. Len(stack[q]),
             Kept(t, Len(stack[t]) - 1, q, k), NEW g, g = stack[q][k]
      PROVE  CallOK(q, g)'
  <2>1. CallOK(q, g)
    BY <1>0, <1>8 DEF StackInv, CallsOK
  <2>2. g.at \in Owning => g.op # op
    BY <1>a, <1>0, <1>8, TopCall
  <2> QED
    BY <1>0, <1>2, <1>3, <2>1, <2>2 DEF CallOK
<1>9. StackInv'
  BY <1>0, <1>8, ReturnStack
<1> QED
  BY <1>4, <1>5, <1>6, <1>7, <1>9 DEF LifeInv, RequestInv

\* A caller that sees its receive complete lets it go.
LEMMA LifeStepTest ==
  ASSUME LifeInv, LockTypeOK', NEW t \in Threads, NEW op \in Ops, Test(t, op)
  PROVE  LifeInv'
<1>0. /\ LockTypeOK /\ StackInv /\ RequestInv
      /\ InProgram(t) /\ Poster[op] = t
      /\ op \in Recvs \ Futures /\ op \in m_completed
      /\ held' = held \ {op}
      /\ UNCHANGED <<style, stack, storage, place, m_completed, ucp, wire, cancelled, calls>>
  BY DEF LifeInv, Test, Mine, mutex
<1>1. Futures' = Futures
  BY <1>0, StyleCases
<1>2. RequestTypeOK' /\ StorageInv' /\ SendInv'
  BY <1>0, <1>1, OpsDisjoint DEF RequestInv, RequestTypeOK, StorageInv, SendInv, SendOK
<1>3. RecvInv'
  BY <1>0, <1>1 DEF RequestInv, RecvInv, RecvOK, Stored
<1>4. ASSUME NEW q \in Threads, NEW k \in 1 .. Len(stack[q]), NEW g, g = stack[q][k]
      PROVE  CallOK(q, g)'
  <2>1. CallOK(q, g)
    BY <1>0, <1>4 DEF StackInv, CallsOK
  <2>2. q # t
    BY <1>0, <1>4 DEF InProgram
  <2> QED
    BY <1>0, <1>1, <2>1, <2>2 DEF CallOK, Stored
<1>5. StackInv'
  BY <1>0, <1>4, SameStack
<1> QED
  BY <1>0, <1>2, <1>3, <1>5 DEF LifeInv, RequestInv

\* A test that sees its future complete frees the storage.
LEMMA LifeStepRecvsDrained ==
  ASSUME LifeInv, LockTypeOK', NEW t \in Threads, RecvsDrained(t)
  PROVE  LifeInv'
<1> USE DEF Owning, Covered
<1>a. PICK op : op = OpOf(t)
  OBVIOUS
<1>0. /\ LockTypeOK /\ StackInv /\ RequestInv
      /\ ~InProgram(t) /\ Last(stack[t]).at = "recvs"
      /\ UNCHANGED <<style, place, m_completed, ucp, wire, cancelled, calls>>
      /\ Goto(t, "unlock")
  BY DEF LifeInv, RecvsDrained, At, mutex
<1>1. op = None \/ (op \in Futures /\ Poster[op] = t)
  BY <1>a, <1>0, TopCall DEF CallOK
<1>2. Futures' = Futures
  BY <1>0, StyleCases
<1>3. ASSUME NEW g, g = Frame("unlock", OpOf(t))
      PROVE  CallOK(t, g)'
  BY <1>3 DEF CallOK, Frame
<1>4. CASE UNCHANGED <<storage, held>>
  <2>1. UNCHANGED <<style, requests, calls>>
    BY <1>0, <1>4 DEF requests
  <2>2. /\ RequestInv'
        /\ \A q \in Threads : \A k \in 1 .. Len(stack[q]) :
             \A g : g = stack[q][k] => CallOK(q, g)'
    BY <2>1, SameRequests
  <2>3. StackInv'
    BY <1>0, <1>3, <2>2, GotoStack
  <2> QED
    BY <2>2, <2>3 DEF LifeInv
<1>5. CASE /\ op \in Futures /\ Poster[op] = t /\ ucp[op] = "over" /\ op # None
           /\ held' = held \ {op}
           /\ storage' = [s \in Slots |-> IF storage[s].op = op THEN Free ELSE storage[s]]
  <2>1. Futures = Ops
    BY <1>5, StyleCases
  <2>2. ASSUME NEW o \in Recvs, o # op, NEW kind, Stored(o, kind)
        PROVE  Stored(o, kind)'
    BY <1>0, <1>5, <2>2 DEF Stored
  <2>3. RequestTypeOK'
    BY <1>0, <1>5, OpsDisjoint DEF RequestInv, RequestTypeOK, Free
  <2>4. StorageInv'
    BY <1>0, <1>5 DEF RequestInv, RequestTypeOK, StorageInv, Free
  <2>5. RecvInv'
    <3> SUFFICES ASSUME NEW o \in Recvs
                 PROVE  RecvOK(o)'
      BY DEF RecvInv
    <3> QED
      BY <1>0, <1>2, <1>5, <2>1, <2>2 DEF RequestInv, RequestTypeOK, RecvInv, RecvOK, Ops
  <2>6. SendInv'
    BY <1>0, <1>2, <1>5 DEF RequestInv, SendInv, SendOK
  <2>7. ASSUME NEW q \in Threads, NEW k \in 1 .. Len(stack[q]),
               Kept(t, Len(stack[t]) - 1, q, k), NEW g, g = stack[q][k]
        PROVE  CallOK(q, g)'
    <3>1. CallOK(q, g)
      BY <1>0, <2>7 DEF StackInv, CallsOK
    <3>2. q = t => g.at \in Covered
      BY <1>0, <2>7, TopCall
    <3>3. g.at \notin {"early", "received"}
      BY <2>1, <3>1 DEF CallOK, Ops
    <3>4. g.at \in {"lockCancel", "cancel"} => g.op \in held' \cap Recvs /\ Poster[g.op] = q
      BY <1>5, <3>1, <3>2 DEF CallOK
    <3> QED
      BY <1>0, <1>2, <3>1, <3>3, <3>4 DEF CallOK
  <2>8. StackInv'
    BY <1>0, <1>3, <2>7, GotoStack
  <2> QED
    BY <1>0, <2>3, <2>4, <2>5, <2>6, <2>8 DEF LifeInv, RequestInv
<1>6. UNCHANGED <<storage, held>> \/
        /\ op \in Futures /\ Poster[op] = t /\ ucp[op] = "over" /\ op # None
        /\ held' = held \ {op}
        /\ storage' = [s \in Slots |-> IF storage[s].op = op THEN Free ELSE storage[s]]
  <2>1. CASE op = None
    BY <1>a, <2>1 DEF RecvsDrained
  <2>2. CASE op # None
    <3>1. /\ held' = IF ucp[op] = "over" THEN held \ {op} ELSE held
          /\ storage' = [s \in Slots |-> IF storage[s].op = op /\ ucp[op] = "over"
                                         THEN Free ELSE storage[s]]
      BY <1>a, <2>2 DEF RecvsDrained
    <3>2. CASE ucp[op] = "over"
      BY <1>1, <2>2, <3>1, <3>2
    <3>3. CASE ucp[op] # "over"
      <4>1. storage' = [s \in Slots |-> storage[s]]
        BY <3>1, <3>3
      <4>2. storage' = storage
        BY <1>0, <4>1 DEF RequestInv, RequestTypeOK
      <4> QED
        BY <3>1, <3>3, <4>2
    <3> QED
      BY <3>2, <3>3
  <2> QED
    BY <2>1, <2>2
<1> QED
  BY <1>4, <1>5, <1>6

\* What a cancel does: nothing if the receive has completed or its message
\* has come.
LEMMA CancelRecvCases ==
  ASSUME LifeInv, NEW t \in Threads, CancelRecv(t), NEW op, op = OpOf(t)
  PROVE  /\ op \in held \cap Recvs /\ Poster[op] = t
         /\ held' = IF op \in Futures THEN held ELSE held \ {op}
         /\ \/ UNCHANGED <<ucp, cancelled, m_progressed, m_completed, storage>>
               /\ ucp[op] # "active"
            \/ /\ ucp[op] = "active" /\ ucp' = [ucp EXCEPT ![op] = "over"]
               /\ cancelled' = cancelled \cup {op}
               /\ m_completed' = m_completed \cup ({op} \ Futures)
               /\ storage' = IF op \in Futures THEN storage
                             ELSE [storage EXCEPT ![place[op]] = Free]
               /\ m_progressed' = Count("cancel", op)
<1>0. /\ LockTypeOK /\ StackInv /\ RequestInv
      /\ ~InProgram(t) /\ Last(stack[t]).at = "cancel"
  BY DEF LifeInv, CancelRecv, At
<1>1. op \in held \cap Recvs /\ Poster[op] = t /\ op \in Ops
  BY <1>0, TopCall DEF CallOK, Ops
<1>2. held' = IF op \in Futures THEN held ELSE held \ {op}
  BY DEF CancelRecv
<1>3. CASE op \in m_completed
  BY <1>0, <1>1, <1>2, <1>3 DEF CancelRecv, RequestInv, RecvInv, RecvOK
<1>4. CASE op \notin m_completed
  <2>0. Stored(op, "recv") /\ op # None
    BY <1>0, <1>1, <1>4, OpsDisjoint DEF RequestInv, RecvInv, RecvOK
  <2>1. storage[place[op]].op = op /\ op # None
    BY <2>0 DEF Stored
  <2>2. UcpCancel(place[op])
    BY <1>4 DEF CancelRecv
  <2> QED
    BY <1>1, <1>2, <2>1, <2>2 DEF UcpCancel
<1> QED
  BY <1>3, <1>4

\* A receive is cancelled, or the cancel comes too late.
LEMMA LifeStepCancelRecv ==
  ASSUME LifeInv, LockTypeOK', NEW t \in Threads, CancelRecv(t)
  PROVE  LifeInv'
<1> USE DEF Owning, Covered
<1>a. PICK op : op = OpOf(t)
  OBVIOUS
<1>0. /\ LockTypeOK /\ StackInv /\ RequestInv
      /\ ~InProgram(t) /\ Last(stack[t]).at = "cancel"
      /\ UNCHANGED <<style, place, wire, calls>>
      /\ Goto(t, "unlock")
  BY DEF LifeInv, CancelRecv, At, mutex
<1>1. /\ op \in held \cap Recvs /\ Poster[op] = t
      /\ held' = IF op \in Futures THEN held ELSE held \ {op}
      /\ \/ UNCHANGED <<ucp, cancelled, m_progressed, m_completed, storage>>
            /\ ucp[op] # "active"
         \/ /\ ucp[op] = "active" /\ ucp' = [ucp EXCEPT ![op] = "over"]
            /\ cancelled' = cancelled \cup {op}
            /\ m_completed' = m_completed \cup ({op} \ Futures)
            /\ storage' = IF op \in Futures THEN storage
                          ELSE [storage EXCEPT ![place[op]] = Free]
  BY <1>a, CancelRecvCases
<1>2. op \in Ops /\ op \notin Sends /\ op # None /\ RecvOK(op)
  BY <1>0, <1>1, OpsDisjoint DEF Ops, RequestInv, RecvInv
<1>3. Futures' = Futures
  BY <1>0, StyleCases
<1>4. ASSUME NEW o \in Recvs, o # op, NEW kind, Stored(o, kind)
      PROVE  Stored(o, kind)'
  <2>1. ucp[op] = "active" => place[o] # place[op]
    BY <1>2, <1>4 DEF Stored, RecvOK
  <2> QED
    BY <1>0, <1>1, <1>4, <2>1 DEF RequestInv, RequestTypeOK, Stored
<1>5. RequestTypeOK'
  BY <1>0, <1>1, <1>2 DEF RequestInv, RequestTypeOK, Free
<1>6. StorageInv'
  <2>1. CASE UNCHANGED <<ucp, m_completed, storage>>
    BY <1>0, <2>1 DEF RequestInv, StorageInv
  <2>2. CASE /\ ucp[op] = "active" /\ ucp' = [ucp EXCEPT ![op] = "over"]
             /\ m_completed' = m_completed \cup ({op} \ Futures)
             /\ storage' = IF op \in Futures THEN storage
                           ELSE [storage EXCEPT ![place[op]] = Free]
    <3>1. CASE op \in Futures
      BY <1>0, <1>2, <2>2, <3>1 DEF RequestInv, RequestTypeOK, StorageInv, Ops
    <3>2. CASE op \notin Futures
      BY <1>0, <1>2, <2>2, <3>2 DEF RequestInv, RequestTypeOK, StorageInv, Free, Stored, RecvOK, Ops
    <3> QED
      BY <3>1, <3>2
  <2> QED
    BY <1>1, <2>1, <2>2
<1>7. RecvInv'
  <2> SUFFICES ASSUME NEW o \in Recvs
               PROVE  RecvOK(o)'
    BY DEF RecvInv
  <2>1. RecvOK(o) /\ o \in Ops
    BY <1>0 DEF RequestInv, RecvInv, Ops
  <2>2. CASE o # op
    BY <1>0, <1>1, <1>2, <1>3, <1>4, <2>1, <2>2 DEF RequestInv, RequestTypeOK, RecvOK
  <2>3. CASE o = op /\ op \in Futures
    BY <1>0, <1>1, <1>2, <1>3, <2>3 DEF RequestInv, RequestTypeOK, RecvOK, Stored
  <2>4. CASE o = op /\ op \notin Futures
    BY <1>0, <1>1, <1>2, <1>3, <2>4 DEF RequestInv, RequestTypeOK, RecvOK, Stored
  <2> QED
    BY <2>2, <2>3, <2>4
<1>8. SendInv'
  BY <1>0, <1>1, <1>2, <1>3 DEF RequestInv, RequestTypeOK, SendInv, SendOK, Ops
<1>9. ASSUME NEW q \in Threads, NEW k \in 1 .. Len(stack[q]),
             Kept(t, Len(stack[t]) - 1, q, k), NEW g, g = stack[q][k]
      PROVE  CallOK(q, g)'
  <2>1. CallOK(q, g)
    BY <1>0, <1>9 DEF StackInv, CallsOK
  <2>2. q = t => g.at \in Covered
    BY <1>0, <1>9, TopCall
  <2>3. g.at \in {"lockRecv", "post"} => g.op \in Recvs /\ ucp'[g.op] = "none"
    BY <1>0, <1>1, <1>2, <2>1 DEF RequestInv, RequestTypeOK, CallOK, Ops
  <2>4. g.at \in {"early", "received"} =>
          /\ g.op \in Recvs \ Futures /\ ucp'[g.op] = "over"
          /\ g.op \notin m_completed' \cup cancelled'
          /\ Stored(g.op, IF g.at = "early" THEN "none" ELSE "recv")'
    <3> SUFFICES ASSUME g.at \in {"early", "received"}
                 PROVE  /\ g.op \in Recvs \ Futures /\ ucp'[g.op] = "over"
                        /\ g.op \notin m_completed' \cup cancelled'
                        /\ Stored(g.op, IF g.at = "early" THEN "none" ELSE "recv")'
      OBVIOUS
    <3>1. /\ g.op \in Recvs \ Futures /\ ucp[g.op] = "over" /\ g.op \notin m_completed \cup cancelled
          /\ Stored(g.op, IF g.at = "early" THEN "none" ELSE "recv")
      BY <2>1 DEF CallOK
    <3>2. CASE g.op # op
      BY <1>0, <1>1, <1>2, <1>4, <3>1, <3>2 DEF RequestInv, RequestTypeOK, Ops
    <3>3. CASE g.op = op
      BY <1>0, <1>1, <3>1, <3>3 DEF Stored
    <3> QED
      BY <3>2, <3>3
  <2>5. g.at = "early" => g.op \notin held'
    BY <1>1, <2>1 DEF CallOK
  <2>6. g.at \in {"lockCancel", "cancel"} => g.op \in held' \cap Recvs /\ Poster[g.op] = q
    BY <1>1, <2>1, <2>2 DEF CallOK
  <2> QED
    BY <1>3, <2>1, <2>3, <2>4, <2>5, <2>6 DEF CallOK
<1>10. ASSUME NEW g, g = Frame("unlock", OpOf(t))
       PROVE  CallOK(t, g)'
  BY <1>10 DEF CallOK, Frame
<1>11. StackInv'
  BY <1>0, <1>9, <1>10, GotoStack
<1> QED
  BY <1>5, <1>6, <1>7, <1>8, <1>11 DEF LifeInv, RequestInv

\* Every step keeps LifeInv.
LEMMA LifeStep == LifeInv /\ LockTypeOK' /\ [Next]_vars => LifeInv'
<1> SUFFICES ASSUME LifeInv, LockTypeOK', [Next]_vars
             PROVE  LifeInv'
  OBVIOUS
<1>1. CASE UNCHANGED vars
  <2>1. UNCHANGED <<style, requests, calls>> /\ UNCHANGED stack
    BY <1>1 DEF vars, mutex
  <2> QED
    BY <2>1, SameRequests, SameStack DEF LifeInv
<1>2. ASSUME NEW t \in Threads, Program(t)
      PROVE  LifeInv'
  BY <1>2, LifeStepCalls, LifeStepTest DEF Program
<1>3. ASSUME NEW t \in Threads, Progress(t) \/ Lock(t)
      PROVE  LifeInv'
  BY <1>3, LifeStepCalls
<1>4. ASSUME NEW t \in Threads, Step(t)
      PROVE  LifeInv'
  BY <1>4, LifeStepCalls, LifeStepRecvEarly, LifeStepRecvEarlyDone, LifeStepRecvPending,
     LifeStepSend, LifeStepCompleteRecv, LifeStepRecvDone, LifeStepRecvsDrained,
     LifeStepCancelRecv DEF Step
<1>5. ASSUME NEW op \in Sends, SendReady(op)
      PROVE  LifeInv'
  BY <1>5, LifeStepSend
<1>6. ASSUME NEW op \in Recvs, Match(op)
      PROVE  LifeInv'
  BY <1>6, LifeStepMatch
<1> QED
  BY <1>1, <1>2, <1>3, <1>4, <1>5, <1>6 DEF Next

\* LifeInv holds for every set of operations and every program of one style.
THEOREM LifeInvariant == Spec => []LifeInv
<1>1. Init => LifeInv
  <2> SUFFICES ASSUME Init PROVE LifeInv
    OBVIOUS
  <2>1. LockTypeOK
    BY DEF Init, LockTypeOK
  <2>2. RequestInv
    BY OpsDisjoint DEF Init, RequestInv, RequestTypeOK, StorageInv, RecvInv, RecvOK, SendInv, SendOK,
       Stored, Free, Ops
  <2>3. StackInv
    BY DEF Init, StackInv, CallsOK, CallsNest, CallsOwn
  <2> QED
    BY <2>1, <2>2, <2>3 DEF LifeInv
<1>2. LockInv => LockTypeOK
  BY DEF LockInv
<1> QED
  BY <1>1, <1>2, LifeStep, LockInvariant, PTL DEF Spec

\* Storage that UCX may hand out again carries no kind, and a request that is not
\* complete finds its own data behind m_req (communicator.hpp:330-334,
\* request.hpp:86-87): what recv_callback and cancel take for granted.
THEOREM StorageSafe == Spec => []StorageBlank
<1>1. LifeInv => StorageBlank
  <2> SUFFICES ASSUME LifeInv PROVE StorageBlank
    OBVIOUS
  <2>1. \A op \in held \cap Recvs : op \notin m_completed => Stored(op, "recv")
    BY DEF LifeInv, RequestInv, RecvInv, RecvOK
  <2>2. ASSUME NEW o \in held \cap Recvs, o \notin m_completed
        PROVE  storage[place[o]].op = o
    <3>1. storage[place[o]] = [op |-> o, kind |-> "recv"]
      BY <2>1, <2>2 DEF Stored
    <3> QED
      BY <3>1
  <2>3. \A s \in Slots : storage[s].op = None => storage[s].kind = "none"
    BY DEF LifeInv, RequestInv, StorageInv
  <2> QED
    BY <2>2, <2>3 DEF StorageBlank
<1> QED
  BY <1>1, LifeInvariant, PTL

-----------------------------------------------------------------------------
(* The operations implement the promise of Completions                     *)

\* The requests the promise takes for held, in a program with callbacks.
Outstanding == held \cup {op \in Recvs : Stored(op, "recv")}

\* The requests in storage are the receives that UCX has not completed.
LEMMA InStorageIs == LifeInv => InStorage = {op \in Recvs : Stored(op, "recv")}
<1> SUFFICES ASSUME LifeInv
             PROVE  InStorage = {op \in Recvs : Stored(op, "recv")}
  OBVIOUS
<1>0. RequestTypeOK /\ StorageInv
  BY DEF LifeInv, RequestInv
<1>1. ASSUME NEW s \in Slots, storage[s].kind = "recv"
      PROVE  storage[s].op \in Recvs /\ Stored(storage[s].op, "recv")
  <2>1. storage[s].op # None /\ place[storage[s].op] = s
    BY <1>0, <1>1 DEF StorageInv
  <2>2. storage[s] \in [op : Recvs \cup {None}, kind : {"none", "recv"}]
    BY <1>0 DEF RequestTypeOK
  <2> QED
    BY <1>1, <2>1, <2>2 DEF Stored
<1>2. ASSUME NEW op \in Recvs, Stored(op, "recv")
      PROVE  op \in InStorage
  <2>1. place[op] \in Slots /\ storage[place[op]].kind = "recv" /\ storage[place[op]].op = op
    BY <1>2 DEF Stored
  <2> QED
    BY <2>1 DEF InStorage
<1> QED
  BY <1>1, <1>2 DEF InStorage

LEMMA InStorageNext ==
  ASSUME LifeInv'
  PROVE  InStorage' = {op \in Recvs : Stored(op, "recv")'}
<1>1. (LifeInv => InStorage = {op \in Recvs : Stored(op, "recv")})'
  BY InStorageIs, PTL
<1> QED
  BY <1>1

\* A program with futures is no business of the promise.
LEMMA FuturesStutter ==
  ASSUME LifeInv, LifeInv', [Next]_vars, Futures = Ops
  PROVE  UNCHANGED C!vars
<1>1. UNCHANGED style
  BY DEF Next, Program, Step, vars, CallbackReturns, Lock, Unlock, Progress, PostRecv, Cancel,
     SendMulti, SendMultiReturns, SendsDrained, WaitRound, Wait, Test, RecvEarly, RecvEarlyDone,
     RecvPending, SendNow, SendPending, CompleteSend, CompleteRecv, RecvDone, RecvsDrained,
     CancelRecv, SendReady, Match, mutex
<1>2. Futures' = Ops
  BY <1>1, StyleCases
<1>3. /\ held \subseteq Ops /\ held' \subseteq Ops /\ cancelled \subseteq Ops /\ cancelled' \subseteq Ops
      /\ InStorage \subseteq Ops /\ InStorage' \subseteq Ops
      /\ calls \in [Ops -> Nat] /\ calls' \in [Ops -> Nat]
  BY InStorageIs, InStorageNext DEF LifeInv, RequestInv, RequestTypeOK, Ops
<1>4. calls' = calls
  <2>1. \A op \in Ops : calls[op] = 0 /\ calls'[op] = 0
    BY <1>2 DEF LifeInv, RequestInv, RecvInv, RecvOK, SendInv, SendOK, Ops
  <2> QED
    BY <1>3, <2>1
<1> QED
  BY <1>2, <1>3, <1>4 DEF C!vars, posted

\* What the promise sees of a program with callbacks.
LEMMA CallbackProgram ==
  ASSUME LifeInv, Futures = {}
  PROVE  /\ posted = {op \in Ops : ucp[op] # "none"}
         /\ (held \cup InStorage) \ Futures = Outstanding
         /\ cancelled \ Futures = cancelled
BY InStorageIs DEF posted, Outstanding

\* Steps that change neither an operation nor where it is stored.
LEMMA SameOperations ==
  ASSUME LifeInv, LifeInv', Futures = {}, Futures' = {},
         \A op \in Ops : ucp'[op] # "none" <=> ucp[op] # "none",
         \A op \in Ops : op \in Outstanding' <=> op \in Outstanding,
         UNCHANGED <<calls, cancelled>>
  PROVE  UNCHANGED C!vars
<1>1. /\ posted = {op \in Ops : ucp[op] # "none"}
      /\ (held \cup InStorage) \ Futures = Outstanding
  BY CallbackProgram
<1>2. /\ posted' = {op \in Ops : ucp'[op] # "none"}
      /\ (held' \cup InStorage') \ Futures' = Outstanding'
  <2>1. InStorage' = {op \in Recvs : Stored(op, "recv")'}
    BY InStorageNext
  <2> QED
    BY <2>1 DEF posted, Outstanding
<1>3. Outstanding \subseteq Ops /\ Outstanding' \subseteq Ops
  BY DEF LifeInv, RequestInv, RequestTypeOK, Outstanding, Ops
<1> QED
  BY <1>1, <1>2, <1>3 DEF C!vars

LEMMA CallbackProgramNext ==
  ASSUME LifeInv', Futures' = {}
  PROVE  /\ posted' = {op \in Ops : ucp'[op] # "none"}
         /\ (held' \cup InStorage') \ Futures' = Outstanding'
         /\ cancelled' \ Futures' = cancelled'
BY InStorageNext DEF posted, Outstanding

\* The steps of the promise, for an operation whose call or place changes.
LEMMA PromiseSteps ==
  ASSUME LifeInv, LifeInv', Futures = {}, Futures' = {}, NEW op \in Ops,
         \A o \in Ops \ {op} : /\ ucp'[o] # "none" <=> ucp[o] # "none"
                               /\ o \in Outstanding' <=> o \in Outstanding,
         ucp'[op] # "none"
  PROVE  /\ /\ ucp[op] = "none" /\ cancelled' = cancelled
            /\ \/ /\ calls[op] = 0 /\ op \notin cancelled /\ calls' = [calls EXCEPT ![op] = 1]
                  /\ op \in Outstanding' <=> op \in Outstanding
               \/ op \in Outstanding' /\ calls' = calls
            => C!Post(op)
         /\ /\ ucp[op] # "none" /\ cancelled' = cancelled
            /\ calls[op] = 0 /\ op \notin cancelled /\ calls' = [calls EXCEPT ![op] = 1]
            /\ op \in Outstanding' <=> op \in Outstanding
            => C!Complete(op)
         /\ /\ ucp[op] # "none" /\ cancelled' = cancelled /\ calls' = calls
            /\ calls[op] = 1 /\ op \in Outstanding /\ op \notin Outstanding'
            => C!Test(op)
         /\ /\ ucp[op] # "none" /\ cancelled' = cancelled \cup {op} /\ calls' = calls
            /\ calls[op] = 0 /\ op \in Outstanding /\ op \notin Outstanding'
            => C!Cancel(op)
<1> DEFINE P == {o \in Ops : ucp[o] # "none"}
           Q == {o \in Ops : ucp'[o] # "none"}
<1>1. /\ posted = P
      /\ (held \cup InStorage) \ Futures = Outstanding
      /\ cancelled \ Futures = cancelled
  BY CallbackProgram
<1>2. /\ posted' = Q
      /\ (held' \cup InStorage') \ Futures' = Outstanding'
      /\ cancelled' \ Futures' = cancelled'
  BY CallbackProgramNext
<1>3. /\ Outstanding \subseteq Ops /\ Outstanding' \subseteq Ops
  BY DEF LifeInv, RequestInv, RequestTypeOK, Outstanding, Ops
<1>4. PICK h : h = Outstanding
  OBVIOUS
<1>5. PICK i : i = Outstanding'
  OBVIOUS
<1>6. /\ op \in Q /\ \A o \in Ops \ {op} : o \in Q <=> o \in P
      /\ op \in P <=> ucp[op] # "none"
      /\ P \subseteq Ops /\ Q \subseteq Ops
  OBVIOUS
<1>7. /\ ucp[op] = "none" => op \notin P /\ Q = P \cup {op}
      /\ ucp[op] # "none" => op \in P /\ Q = P
  BY <1>6
<1>8. /\ \A o \in Ops \ {op} : o \in i <=> o \in h
      /\ h \subseteq Ops /\ i \subseteq Ops
  BY <1>3, <1>4, <1>5
<1>9. /\ (op \in i <=> op \in h) => i = h
      /\ op \in i => i = h \cup {op}
      /\ op \notin i => i = h \ {op}
  BY <1>8
<1> HIDE DEF P, Q
<1>10. ASSUME ucp[op] = "none", cancelled' = cancelled,
              \/ /\ calls[op] = 0 /\ op \notin cancelled /\ calls' = [calls EXCEPT ![op] = 1]
                 /\ op \in Outstanding' <=> op \in Outstanding
              \/ op \in Outstanding' /\ calls' = calls
       PROVE  C!Post(op)
  BY <1>1, <1>2, <1>4, <1>5, <1>7, <1>9, <1>10 DEF C!Post, C!Call
<1>11. ASSUME ucp[op] # "none", cancelled' = cancelled,
              calls[op] = 0, op \notin cancelled, calls' = [calls EXCEPT ![op] = 1],
              op \in Outstanding' <=> op \in Outstanding
       PROVE  C!Complete(op)
  BY <1>1, <1>2, <1>4, <1>5, <1>7, <1>9, <1>11 DEF C!Complete, C!Call
<1>12. ASSUME ucp[op] # "none", cancelled' = cancelled, calls' = calls,
              calls[op] = 1, op \in Outstanding, op \notin Outstanding'
       PROVE  C!Test(op)
  BY <1>1, <1>2, <1>4, <1>5, <1>7, <1>9, <1>12 DEF C!Test
<1>13. ASSUME ucp[op] # "none", cancelled' = cancelled \cup {op}, calls' = calls,
              calls[op] = 0, op \in Outstanding, op \notin Outstanding'
       PROVE  C!Cancel(op)
  BY <1>1, <1>2, <1>4, <1>5, <1>7, <1>9, <1>13 DEF C!Cancel
<1> QED
  BY <1>10, <1>11, <1>12, <1>13

\* A receive takes its first storage, or none.
LEMMA RefinePosted ==
  ASSUME LifeInv, LifeInv', Futures = {}, Futures' = {},
         NEW t \in Threads, RecvEarly(t) \/ RecvPending(t)
  PROVE  C!Next
<1>a. PICK op : op = OpOf(t)
  OBVIOUS
<1>b. PICK x : x = Fresh
  OBVIOUS
<1>0. /\ LockTypeOK /\ StackInv /\ RequestInv
      /\ ~InProgram(t) /\ Last(stack[t]).at = "post"
  BY DEF LifeInv, RecvEarly, RecvPending, At
<1>1. op \in Recvs /\ op \in Ops /\ ucp[op] = "none"
  BY <1>a, <1>0, TopCall DEF CallOK, Ops
<1>2. x \in Slots /\ storage[x] = [op |-> None, kind |-> "none"]
  BY <1>b, <1>0, <1>1, FreshStorage DEF Free
<1>3. /\ op \notin held /\ op \notin cancelled /\ calls[op] = 0
      /\ \A s \in Slots : storage[s].op # op
      /\ \A o \in Recvs : o # None
  BY <1>0, <1>1, OpsDisjoint DEF RequestInv, RecvInv, RecvOK, StorageInv, Ops
<1>4. /\ place' = [place EXCEPT ![op] = x] /\ cancelled' = cancelled
      /\ \/ /\ storage' = [storage EXCEPT ![x] = [op |-> op, kind |-> "none"]]
            /\ ucp' = [ucp EXCEPT ![op] = "over"]
            /\ held' = held /\ calls' = [calls EXCEPT ![op] = @ + 1]
         \/ /\ storage' = [storage EXCEPT ![x] = [op |-> op, kind |-> "recv"]]
            /\ ucp' = [ucp EXCEPT ![op] = "active"]
            /\ held' = held \cup {op} /\ calls' = calls
  <2>1. CASE RecvEarly(t)
    <3>1. /\ storage' = [storage EXCEPT ![x].op = op]
          /\ place' = [place EXCEPT ![op] = x] /\ cancelled' = cancelled
          /\ ucp' = [ucp EXCEPT ![op] = "over"]
          /\ held' = held /\ calls' = [calls EXCEPT ![op] = @ + 1]
      BY <1>a, <1>b, <2>1 DEF RecvEarly, Invoke
    <3>2. storage' = [storage EXCEPT ![x] = [op |-> op, kind |-> "none"]]
      <4>1. [storage[x] EXCEPT !.op = op] = [op |-> op, kind |-> "none"]
        BY <1>2
      <4> QED
        BY <3>1, <4>1
    <3> QED
      BY <3>1, <3>2
  <2>2. CASE RecvPending(t)
    BY <1>a, <1>b, <2>2 DEF RecvPending
  <2> QED
    BY <2>1, <2>2
<1>5. ASSUME NEW o \in Recvs, o # op
      PROVE  Stored(o, "recv")' <=> Stored(o, "recv")
  <2>1. place'[o] = place[o]
    BY <1>0, <1>4, <1>5 DEF RequestInv, RequestTypeOK
  <2>2. CASE place[o] = x
    <3>1. storage'[x].op = op /\ storage[x].op = None
      BY <1>0, <1>2, <1>4 DEF RequestInv, RequestTypeOK
    <3> QED
      BY <1>3, <1>5, <2>1, <2>2, <3>1 DEF Stored
  <2>3. CASE place[o] # x
    BY <1>0, <1>4, <2>1, <2>3 DEF RequestInv, RequestTypeOK, Stored
  <2> QED
    BY <2>2, <2>3
<1>6. op \notin Outstanding
  BY <1>1, <1>3 DEF Outstanding, Stored
<1>7. \A o \in Ops \ {op} : /\ ucp'[o] # "none" <=> ucp[o] # "none"
                            /\ o \in Outstanding' <=> o \in Outstanding
  BY <1>0, <1>4, <1>5 DEF Outstanding, RequestInv, RequestTypeOK
<1>8. ucp'[op] # "none"
  BY <1>0, <1>1, <1>4 DEF RequestInv, RequestTypeOK
<1>9. CASE /\ storage' = [storage EXCEPT ![x] = [op |-> op, kind |-> "none"]]
           /\ held' = held /\ calls' = [calls EXCEPT ![op] = @ + 1]
  <2>1. op \notin Outstanding'
    <3>1. place'[op] = x /\ storage'[x].kind = "none"
      BY <1>0, <1>1, <1>2, <1>4, <1>9 DEF RequestInv, RequestTypeOK
    <3>2. ~Stored(op, "recv")'
      BY <3>1 DEF Stored
    <3> QED
      BY <1>3, <1>9, <3>2 DEF Outstanding
  <2>2. calls' = [calls EXCEPT ![op] = 1]
    BY <1>3, <1>9
  <2>3. C!Post(op)
    BY <1>1, <1>3, <1>4, <1>6, <1>7, <1>8, <2>1, <2>2, PromiseSteps
  <2> QED
    BY <1>1, <2>3 DEF C!Next
<1>10. CASE held' = held \cup {op} /\ calls' = calls
  <2>1. op \in Outstanding'
    BY <1>10 DEF Outstanding
  <2>2. C!Post(op)
    BY <1>1, <1>4, <1>7, <1>8, <1>10, <2>1, PromiseSteps
  <2> QED
    BY <1>1, <2>2 DEF C!Next
<1> QED
  BY <1>4, <1>9, <1>10

\* Storage is given up.
LEMMA RefineFreed ==
  ASSUME LifeInv, LifeInv', Futures = {}, Futures' = {},
         NEW t \in Threads, RecvEarlyDone(t) \/ RecvDone(t)
  PROVE  [C!Next]_(C!vars)
<1>a. PICK op : op = OpOf(t)
  OBVIOUS
<1>0. /\ LockTypeOK /\ StackInv /\ RequestInv
      /\ ~InProgram(t)
      /\ storage' = [storage EXCEPT ![place[op]] = Free]
      /\ UNCHANGED <<place, held, ucp, cancelled, calls>>
  BY <1>a DEF LifeInv, RecvEarlyDone, RecvDone, At
<1>1. /\ op \in Recvs /\ op \in Ops /\ ucp[op] = "over" /\ op \notin cancelled
      /\ \/ Stored(op, "none")
         \/ Stored(op, "recv")
  BY <1>a, <1>0, TopCall DEF RecvEarlyDone, RecvDone, At, CallOK, Ops
<1>2. place[op] \in Slots /\ storage[place[op]].op = op /\ op # None
  BY <1>1, OpsDisjoint DEF Stored, Ops
<1>3. ASSUME NEW o \in Recvs, o # op
      PROVE  Stored(o, "recv")' <=> Stored(o, "recv")
  <2>1. o # None
    BY OpsDisjoint DEF Ops
  <2>2. CASE place[o] = place[op]
    <3>1. storage'[place[op]].op = None
      BY <1>0, <1>2 DEF RequestInv, RequestTypeOK, Free
    <3> QED
      BY <1>0, <1>2, <1>3, <2>1, <2>2, <3>1 DEF Stored
  <2>3. CASE place[o] # place[op]
    BY <1>0, <2>3 DEF RequestInv, RequestTypeOK, Stored
  <2> QED
    BY <2>2, <2>3
<1>4. ~Stored(op, "recv")'
  <2>1. storage'[place[op]].kind = "none"
    BY <1>0, <1>2 DEF RequestInv, RequestTypeOK, Free
  <2> QED
    BY <1>0, <2>1 DEF Stored
<1>5. \A o \in Ops \ {op} : /\ ucp'[o] # "none" <=> ucp[o] # "none"
                            /\ o \in Outstanding' <=> o \in Outstanding
  BY <1>0, <1>3 DEF Outstanding
<1>6. CASE op \in Outstanding' <=> op \in Outstanding
  <2>1. \A o \in Ops : o \in Outstanding' <=> o \in Outstanding
    BY <1>5, <1>6
  <2>2. \A o \in Ops : ucp'[o] # "none" <=> ucp[o] # "none"
    BY <1>0
  <2> QED
    BY <1>0, <2>1, <2>2, SameOperations
<1>7. CASE ~(op \in Outstanding' <=> op \in Outstanding)
  <2>1. op \notin held /\ op \in Outstanding /\ op \notin Outstanding'
    BY <1>0, <1>1, <1>4, <1>7 DEF Outstanding
  <2>2. calls[op] = 1
    BY <1>0, <1>1 DEF RequestInv, RecvInv, RecvOK
  <2>3. ucp[op] # "none" /\ ucp'[op] # "none"
    BY <1>0, <1>1
  <2>4. C!Test(op)
    BY <1>0, <1>1, <1>5, <2>1, <2>2, <2>3, PromiseSteps
  <2> QED
    BY <1>1, <2>4 DEF C!Next
<1> QED
  BY <1>6, <1>7

\* Sends, and receives whose message has come, complete.
LEMMA RefineSend ==
  ASSUME LifeInv, LifeInv', Futures = {}, Futures' = {},
         \/ \E t \in Threads : SendNow(t) \/ SendPending(t) \/ CompleteSend(t)
         \/ \E op \in Sends : SendReady(op)
         \/ \E op \in Recvs : Match(op)
         \/ \E t \in Threads : CompleteRecv(t)
  PROVE  [C!Next]_(C!vars)
<1>0. LockTypeOK /\ StackInv /\ RequestInv /\ \A op \in Ops : op \notin Futures
  BY DEF LifeInv
<1>1. PICK op \in Ops :
        /\ UNCHANGED <<storage, place, cancelled>>
        /\ \/ /\ op \in Sends /\ ucp[op] = "none" /\ ucp' = [ucp EXCEPT ![op] = "over"]
              /\ calls' = [calls EXCEPT ![op] = @ + 1] /\ held' = held
           \/ /\ ucp[op] = "none" /\ ucp' = [ucp EXCEPT ![op] = "active"]
              /\ calls' = calls /\ held' = held \cup {op}
           \/ /\ ucp[op] = "ready" /\ ucp' = [ucp EXCEPT ![op] = "over"]
              /\ calls' = [calls EXCEPT ![op] = @ + 1] /\ held' = held
           \/ /\ ucp[op] = "active" /\ ucp' = [ucp EXCEPT ![op] = "ready"]
              /\ calls' = calls /\ held' = held
  <2>1. ASSUME NEW t \in Threads, SendNow(t) \/ SendPending(t)
        PROVE  /\ NextSend(OpOf(t)) \in Sends /\ ucp[NextSend(OpOf(t))] = "none"
               /\ NextSend(OpOf(t)) \in Ops
    BY <2>1, NextSendProperties DEF SendNow, SendPending, Ops
  <2>2. ASSUME NEW t \in Threads, SendNow(t)
        PROVE  \E op \in Ops :
                 /\ UNCHANGED <<storage, place, cancelled>>
                 /\ op \in Sends /\ ucp[op] = "none" /\ ucp' = [ucp EXCEPT ![op] = "over"]
                 /\ calls' = [calls EXCEPT ![op] = @ + 1] /\ held' = held
    <3>1. Invoke(NextSend(OpOf(t)))
      BY <2>2 DEF SendNow
    <3> QED
      BY <1>0, <2>1, <2>2, <3>1 DEF SendNow, Invoke
  <2>3. ASSUME NEW t \in Threads, SendPending(t)
        PROVE  \E op \in Ops :
                 /\ UNCHANGED <<storage, place, cancelled>>
                 /\ ucp[op] = "none" /\ ucp' = [ucp EXCEPT ![op] = "active"]
                 /\ calls' = calls /\ held' = held \cup {op}
    BY <2>1, <2>3 DEF SendPending
  <2>4. ASSUME NEW t \in Threads, CompleteSend(t) \/ CompleteRecv(t)
        PROVE  \E op \in Ops :
                 /\ UNCHANGED <<storage, place, cancelled>>
                 /\ ucp[op] = "ready" /\ ucp' = [ucp EXCEPT ![op] = "over"]
                 /\ calls' = [calls EXCEPT ![op] = @ + 1] /\ held' = held
    BY <1>0, <2>4 DEF CompleteSend, CompleteRecv, Invoke, Ops
  <2>5. ASSUME NEW op \in Ops, SendReady(op) \/ Match(op)
        PROVE  /\ UNCHANGED <<storage, place, cancelled>>
               /\ ucp[op] = "active" /\ ucp' = [ucp EXCEPT ![op] = "ready"]
               /\ calls' = calls /\ held' = held
    BY <2>5 DEF SendReady, Match
  <2> QED
    BY <2>2, <2>3, <2>4, <2>5 DEF Ops
<1>2. /\ ucp \in [Ops -> {"none", "active", "ready", "over"}] /\ calls \in [Ops -> Nat]
  BY <1>0 DEF RequestInv, RequestTypeOK
<1>3. ucp[op] # "over" => calls[op] = 0 /\ op \notin cancelled
  BY <1>0, OpsDisjoint
     DEF RequestInv, RequestTypeOK, RecvInv, RecvOK, SendInv, SendOK, Ops
<1>4. \A o \in Recvs : Stored(o, "recv")' <=> Stored(o, "recv")
  BY <1>1 DEF Stored
<1>5. /\ \A o \in Ops \ {op} : /\ ucp'[o] # "none" <=> ucp[o] # "none"
                               /\ o \in Outstanding' <=> o \in Outstanding
      /\ ucp'[op] # "none" /\ cancelled' = cancelled
      /\ held' = held => (op \in Outstanding' <=> op \in Outstanding)
      /\ held' = held \cup {op} => op \in Outstanding'
  BY <1>1, <1>2, <1>4 DEF Outstanding
<1>6. CASE ucp[op] = "none" /\ calls' = [calls EXCEPT ![op] = @ + 1] /\ held' = held
  <2>1. calls' = [calls EXCEPT ![op] = 1]
    <3>1. calls[op] + 1 = 1
      BY <1>3, <1>6
    <3> QED
      BY <1>6, <3>1
  <2>2. C!Post(op)
    BY <1>3, <1>5, <1>6, <2>1, PromiseSteps
  <2> QED
    BY <2>2 DEF C!Next
<1>7. CASE ucp[op] = "none" /\ calls' = calls /\ held' = held \cup {op}
  <2>1. C!Post(op)
    BY <1>5, <1>7, PromiseSteps
  <2> QED
    BY <2>1 DEF C!Next
<1>8. CASE ucp[op] = "ready" /\ calls' = [calls EXCEPT ![op] = @ + 1] /\ held' = held
  <2>1. calls' = [calls EXCEPT ![op] = 1]
    <3>1. calls[op] + 1 = 1
      BY <1>3, <1>8
    <3> QED
      BY <1>8, <3>1
  <2>2. C!Complete(op)
    BY <1>3, <1>5, <1>8, <2>1, PromiseSteps
  <2> QED
    BY <2>2 DEF C!Next
<1>9. CASE ucp[op] = "active" /\ calls' = calls /\ held' = held
  <2>1. \A o \in Ops : /\ ucp'[o] # "none" <=> ucp[o] # "none"
                       /\ o \in Outstanding' <=> o \in Outstanding
    BY <1>5, <1>9
  <2> QED
    BY <1>5, <1>9, <2>1, SameOperations
<1> QED
  BY <1>1, <1>6, <1>7, <1>8, <1>9

\* A complete receive is let go.
LEMMA RefineTest ==
  ASSUME LifeInv, LifeInv', Futures = {}, Futures' = {},
         NEW t \in Threads, NEW op \in Ops, Test(t, op)
  PROVE  C!Next
<1>0. /\ RequestInv /\ op \in Recvs /\ op \in m_completed /\ op \in held
      /\ held' = held \ {op}
      /\ UNCHANGED <<storage, place, ucp, cancelled, calls>>
  BY DEF LifeInv, Test, Mine
<1>1. ucp[op] = "over" /\ op \notin cancelled /\ calls[op] = 1
  <2>1. ucp[op] \in {"none", "active", "ready", "over"} /\ RecvOK(op)
    BY <1>0 DEF RequestInv, RequestTypeOK, RecvInv
  <2> QED
    BY <1>0, <2>1 DEF RecvOK
<1>2. ~Stored(op, "recv")
  BY <1>0, OpsDisjoint DEF RequestInv, StorageInv, Stored, Ops
<1>3. \A o \in Recvs : Stored(o, "recv")' <=> Stored(o, "recv")
  BY <1>0 DEF Stored
<1>4. /\ \A o \in Ops \ {op} : /\ ucp'[o] # "none" <=> ucp[o] # "none"
                               /\ o \in Outstanding' <=> o \in Outstanding
      /\ op \in Outstanding /\ op \notin Outstanding'
  BY <1>0, <1>2, <1>3 DEF Outstanding
<1>5. C!Test(op)
  BY <1>0, <1>1, <1>4, PromiseSteps
<1> QED
  BY <1>5 DEF C!Next

\* A cancel is a cancel of the promise, or nothing.
LEMMA RefineCancel ==
  ASSUME LifeInv, LifeInv', Futures = {}, Futures' = {},
         NEW t \in Threads, CancelRecv(t)
  PROVE  [C!Next]_(C!vars)
<1>a. PICK op : op = OpOf(t)
  OBVIOUS
<1>0. RequestInv /\ UNCHANGED <<place, calls>>
  BY DEF LifeInv, CancelRecv
<1>1. /\ op \in held \cap Recvs
      /\ held' = held \ {op}
      /\ \/ UNCHANGED <<ucp, cancelled, m_progressed, m_completed, storage>>
            /\ ucp[op] # "active"
         \/ /\ ucp[op] = "active" /\ ucp' = [ucp EXCEPT ![op] = "over"]
            /\ cancelled' = cancelled \cup {op}
            /\ storage' = [storage EXCEPT ![place[op]] = Free]
  BY <1>a, CancelRecvCases
<1>2. /\ op \in Ops /\ op # None /\ RecvOK(op)
      /\ ucp \in [Ops -> {"none", "active", "ready", "over"}]
  BY <1>0, <1>1, OpsDisjoint DEF Ops, RequestInv, RequestTypeOK, RecvInv
<1>3. CASE /\ ucp[op] = "active" /\ ucp' = [ucp EXCEPT ![op] = "over"]
           /\ cancelled' = cancelled \cup {op}
           /\ storage' = [storage EXCEPT ![place[op]] = Free]
  <2>1. Stored(op, "recv") /\ calls[op] = 0
    BY <1>2, <1>3 DEF RecvOK
  <2>2. place[op] \in Slots /\ storage[place[op]].op = op
    BY <2>1 DEF Stored
  <2>3. ASSUME NEW o \in Recvs, o # op
        PROVE  Stored(o, "recv")' <=> Stored(o, "recv")
    <3>1. o # None
      BY OpsDisjoint DEF Ops
    <3>2. CASE place[o] = place[op]
      <4>1. storage'[place[op]].op = None
        BY <1>0, <1>3, <2>2 DEF RequestInv, RequestTypeOK, Free
      <4> QED
        BY <1>0, <2>2, <2>3, <3>1, <3>2, <4>1 DEF Stored
    <3>3. CASE place[o] # place[op]
      BY <1>0, <1>3, <3>3 DEF RequestInv, RequestTypeOK, Stored
    <3> QED
      BY <3>2, <3>3
  <2>4. ~Stored(op, "recv")'
    <3>1. storage'[place[op]].kind = "none"
      BY <1>0, <1>3, <2>2 DEF RequestInv, RequestTypeOK, Free
    <3> QED
      BY <1>0, <3>1 DEF Stored
  <2>5. /\ \A o \in Ops \ {op} : /\ ucp'[o] # "none" <=> ucp[o] # "none"
                                 /\ o \in Outstanding' <=> o \in Outstanding
        /\ op \in Outstanding /\ op \notin Outstanding'
        /\ ucp[op] # "none" /\ ucp'[op] # "none"
    BY <1>1, <1>2, <1>3, <2>3, <2>4 DEF Outstanding
  <2>6. C!Cancel(op)
    BY <1>0, <1>2, <1>3, <2>1, <2>5, PromiseSteps
  <2> QED
    BY <1>2, <2>6 DEF C!Next
<1>4. CASE UNCHANGED <<ucp, cancelled, m_completed, storage>> /\ ucp[op] # "active"
  <2>1. \A o \in Recvs : Stored(o, "recv")' <=> Stored(o, "recv")
    BY <1>0, <1>4 DEF Stored
  <2>2. \A o \in Ops \ {op} : /\ ucp'[o] # "none" <=> ucp[o] # "none"
                              /\ o \in Outstanding' <=> o \in Outstanding
    BY <1>1, <1>4, <2>1 DEF Outstanding
  <2>3. CASE op \in m_completed
    <3>1. ucp[op] = "over" /\ calls[op] = 1
      BY <1>1, <1>2, <2>3 DEF RecvOK
    <3>2. ~Stored(op, "recv")
      BY <1>0, <1>2, <2>3 DEF RequestInv, StorageInv, Stored
    <3>3. op \in Outstanding /\ op \notin Outstanding'
      BY <1>1, <2>1, <3>2 DEF Outstanding
    <3>4. C!Test(op)
      BY <1>0, <1>2, <1>4, <2>2, <3>1, <3>3, PromiseSteps
    <3> QED
      BY <1>2, <3>4 DEF C!Next
  <2>4. CASE op \notin m_completed
    <3>1. Stored(op, "recv")
      BY <1>1, <1>2, <2>4 DEF RecvOK
    <3>2. op \in Outstanding /\ op \in Outstanding'
      BY <1>1, <2>1, <3>1 DEF Outstanding
    <3>3. \A o \in Ops : /\ ucp'[o] # "none" <=> ucp[o] # "none"
                         /\ o \in Outstanding' <=> o \in Outstanding
      BY <1>4, <2>2, <3>2
    <3> QED
      BY <1>0, <1>4, <3>3, SameOperations
  <2> QED
    BY <2>3, <2>4
<1> QED
  BY <1>1, <1>3, <1>4

\* Steps that change no operation.
LEMMA RefineOther ==
  ASSUME LifeInv, LifeInv', Futures = {}, Futures' = {},
         UNCHANGED <<storage, place, held, ucp, cancelled, calls>>
  PROVE  UNCHANGED C!vars
<1>1. Outstanding' = Outstanding
  BY DEF Outstanding, Stored
<1> QED
  BY <1>1, SameOperations

\* Every step is a step of the promise, or changes nothing there.
LEMMA RefineStep ==
  ASSUME LifeInv, LifeInv', [Next]_vars
  PROVE  [C!Next]_(C!vars)
<1>1. CASE Futures = Ops
  BY <1>1, FuturesStutter
<1>2. CASE Futures = {}
  <2>1. UNCHANGED style
    BY DEF Next, Program, Step, vars, CallbackReturns, Lock, Unlock, Progress, PostRecv, Cancel,
       SendMulti, SendMultiReturns, SendsDrained, WaitRound, Wait, Test, RecvEarly, RecvEarlyDone,
       RecvPending, SendNow, SendPending, CompleteSend, CompleteRecv, RecvDone, RecvsDrained,
       CancelRecv, SendReady, Match, mutex
  <2>2. Futures' = {}
    BY <1>2, <2>1, StyleCases
  <2>3. ASSUME NEW t \in Threads,
               \/ CallbackReturns(t) \/ Lock(t) \/ Unlock(t) \/ Progress(t)
               \/ \E op \in Recvs : PostRecv(t, op) \/ Cancel(t, op)
               \/ \E g \in Groups : SendMulti(t, g)
               \/ SendMultiReturns(t) \/ SendsDrained(t) \/ WaitRound(t)
               \/ \E op \in Ops : Wait(t, op)
        PROVE  UNCHANGED C!vars
    <3>1. UNCHANGED <<requests, calls>>
      BY <2>3 DEF CallbackReturns, Lock, Unlock, Progress, PostRecv, Cancel, SendMulti,
             SendMultiReturns, SendsDrained, WaitRound, Wait
    <3>2. UNCHANGED <<storage, place, held, ucp, cancelled, calls>>
      BY <3>1 DEF requests
    <3> QED
      BY <1>2, <2>2, <3>2, RefineOther
  <2>4. ASSUME NEW t \in Threads, RecvsDrained(t)
        PROVE  UNCHANGED C!vars
    <3>1. OpOf(t) = None
      <4>1. CallOK(t, Last(stack[t])) /\ OpOf(t) = Last(stack[t]).op
        BY <2>4, TopCall DEF LifeInv, RecvsDrained, At
      <4> QED
        BY <1>2, <2>4, <4>1 DEF RecvsDrained, At, CallOK
    <3>2. UNCHANGED <<storage, place, held, ucp, cancelled, calls>>
      BY <2>4, <3>1 DEF RecvsDrained
    <3> QED
      BY <1>2, <2>2, <3>2, RefineOther
  <2>5. CASE UNCHANGED vars
    <3>1. UNCHANGED <<storage, place, held, ucp, cancelled, calls>>
      BY <2>5 DEF vars, requests
    <3> QED
      BY <1>2, <2>2, <3>1, RefineOther
  <2>6. ASSUME NEW t \in Threads, Program(t) \/ Progress(t) \/ Lock(t) \/ Step(t)
        PROVE  [C!Next]_(C!vars)
    <3>1. ASSUME NEW op \in Ops, Test(t, op)
          PROVE  C!Next
      BY <1>2, <2>2, <3>1, RefineTest
    <3>2. ASSUME RecvEarly(t) \/ RecvPending(t)
          PROVE  C!Next
      BY <1>2, <2>2, <3>2, RefinePosted
    <3>3. ASSUME RecvEarlyDone(t) \/ RecvDone(t)
          PROVE  [C!Next]_(C!vars)
      BY <1>2, <2>2, <3>3, RefineFreed
    <3>4. ASSUME SendNow(t) \/ SendPending(t) \/ CompleteSend(t) \/ CompleteRecv(t)
          PROVE  [C!Next]_(C!vars)
      BY <1>2, <2>2, <3>4, RefineSend
    <3>5. ASSUME CancelRecv(t)
          PROVE  [C!Next]_(C!vars)
      BY <1>2, <2>2, <3>5, RefineCancel
    <3> QED
      BY <2>3, <2>4, <2>6, <3>1, <3>2, <3>3, <3>4, <3>5 DEF Program, Step
  <2>7. ASSUME NEW op \in Ops, (op \in Sends /\ SendReady(op)) \/ (op \in Recvs /\ Match(op))
        PROVE  [C!Next]_(C!vars)
    BY <1>2, <2>2, <2>7, RefineSend
  <2> QED
    BY <2>5, <2>6, <2>7 DEF Next, Ops
<1> QED
  BY <1>1, <1>2, StyleCases

\* The UCX communicator keeps the promise the MPI communicator keeps: a callback is
\* invoked once or its operation cancelled once, whichever thread makes progress
\* (communicator.hpp:173-366, request.hpp:176-262).
THEOREM UcxRefines == Spec => ImplementsCompletions
<1>1. Init => C!Init
  BY DEF Init, C!Init, posted, InStorage, Free
<1>2. LifeInv /\ LifeInv' /\ [Next]_vars => [C!Next]_(C!vars)
  BY RefineStep
<1> QED
  BY <1>1, <1>2, LifeInvariant, PTL DEF Spec, ImplementsCompletions, C!Spec

-----------------------------------------------------------------------------
(* Every completion is counted once                                        *)

\* The receives on a stack that are still to be counted.
Counting(s) == {op \in Recvs : \E k \in DOMAIN s : s[k].op = op /\ s[k].at \in {"early", "received"}}
Counts(f) == {op \in Recvs : f.op = op /\ f.at \in {"early", "received"}}

\* What a call more on the stack adds to count.
LEMMA CountingOfLonger ==
  ASSUME NEW s \in Seq(Frames), NEW u \in Seq(Frames), Len(u) = Len(s) + 1,
         \A k \in 1 .. Len(s) : u[k] = s[k]
  PROVE  Counting(u) = Counting(s) \cup Counts(u[Len(u)])
<1>1. /\ Len(s) \in Nat /\ Len(u) \in Nat
      /\ DOMAIN s = 1 .. Len(s) /\ DOMAIN u = 1 .. Len(u)
  BY LenProperties
<1>2. \A k \in 1 .. Len(u) : k \in 1 .. Len(s) \/ k = Len(u)
  BY <1>1
<1>3. /\ \A k \in 1 .. Len(s) : k \in 1 .. Len(u)
      /\ Len(u) \in 1 .. Len(u)
  BY <1>1
<1> QED
  BY <1>1, <1>2, <1>3 DEF Counting, Counts

LEMMA CountingPush ==
  ASSUME NEW s \in Seq(Frames), NEW f \in Frames
  PROVE  Counting(s \o <<f>>) = Counting(s) \cup Counts(f)
<1>1. PICK u : u = s \o <<f>>
  OBVIOUS
<1>2. /\ u \in Seq(Frames) /\ Len(u) = Len(s) + 1
      /\ \A k \in 1 .. Len(s) : u[k] = s[k]
      /\ u[Len(u)] = f
  BY <1>1, PushProperties
<1>3. Counting(u) = Counting(s) \cup Counts(f)
  BY <1>2, CountingOfLonger
<1> QED
  BY <1>1, <1>3

LEMMA CountingPop ==
  ASSUME NEW s \in Seq(Frames), s # << >>
  PROVE  /\ Front(s) \in Seq(Frames)
         /\ Counting(s) = Counting(Front(s)) \cup Counts(s[Len(s)])
<1>1. PICK u : u = Front(s)
  OBVIOUS
<1>2. /\ u \in Seq(Frames) /\ Len(u) = Len(s) - 1 /\ Len(s) \in Nat \ {0}
      /\ \A k \in 1 .. Len(s) - 1 : u[k] = s[k]
  BY <1>1, PopProperties
<1>3. Len(s) = Len(u) + 1 /\ \A k \in 1 .. Len(u) : s[k] = u[k]
  BY <1>2
<1>4. Counting(s) = Counting(u) \cup Counts(s[Len(s)])
  BY <1>2, <1>3, CountingOfLonger
<1> QED
  BY <1>1, <1>2, <1>4

LEMMA CountingReplace ==
  ASSUME NEW s \in Seq(Frames), s # << >>, NEW f \in Frames
  PROVE  /\ Append(Front(s), f) \in Seq(Frames)
         /\ Counting(Append(Front(s), f)) = Counting(Front(s)) \cup Counts(f)
<1>1. PICK v : v = Front(s)
  OBVIOUS
<1>2. v \in Seq(Frames)
  BY <1>1, CountingPop
<1>3. Append(v, f) = v \o <<f>> /\ Append(v, f) \in Seq(Frames)
  BY <1>2
<1> QED
  BY <1>1, <1>2, <1>3, CountingPush

\* The stack of one thread changes, those of the others do not.
LEMMA ToCountIs == ToCount = {op \in Recvs : \E t \in Threads : op \in Counting(stack[t])}
BY DEF ToCount, Counting

LEMMA ToCountSplit ==
  ASSUME NEW t \in Threads
  PROVE  ToCount = Counting(stack[t]) \cup
                   {op \in Recvs : \E q \in Threads \ {t} : op \in Counting(stack[q])}
<1>1. Counting(stack[t]) \subseteq Recvs
  BY DEF Counting
<1> QED
  BY <1>1, ToCountIs

LEMMA ToCountNext ==
  ASSUME LockTypeOK, NEW t \in Threads, NEW u, stack' = [stack EXCEPT ![t] = u]
  PROVE  ToCount' = Counting(u) \cup
                    {op \in Recvs : \E q \in Threads \ {t} : op \in Counting(stack[q])}
<1>1. stack'[t] = u /\ \A q \in Threads \ {t} : stack'[q] = stack[q]
  BY DEF LockTypeOK
<1>2. ToCount' = {op \in Recvs : \E q \in Threads : op \in Counting(stack'[q])}
  BY DEF ToCount, Counting
<1>3. Counting(u) \subseteq Recvs
  BY DEF Counting
<1> QED
  BY <1>1, <1>2, <1>3

LEMMA ToCountChange ==
  ASSUME LockTypeOK, NEW t \in Threads, NEW u, stack' = [stack EXCEPT ![t] = u]
  PROVE  \E others : /\ ToCount = Counting(stack[t]) \cup others
                     /\ ToCount' = Counting(u) \cup others
<1>1. PICK others :
        others = {op \in Recvs : \E q \in Threads \ {t} : op \in Counting(stack[q])}
  OBVIOUS
<1>2. ToCount = Counting(stack[t]) \cup others
  BY <1>1, ToCountSplit
<1>3. ToCount' = Counting(u) \cup others
  BY <1>1, ToCountNext
<1> QED
  BY <1>2, <1>3

\* The top of the stack counts no receive, before or after.
LEMMA SameToCount ==
  ASSUME LockTypeOK, NEW t \in Threads, NEW u, stack' = [stack EXCEPT ![t] = u],
         Counting(u) = Counting(stack[t])
  PROVE  ToCount' = ToCount
<1>1. PICK others : /\ ToCount = Counting(stack[t]) \cup others
                    /\ ToCount' = Counting(u) \cup others
  BY ToCountChange
<1> QED
  BY <1>1

\* Calls that bring a receive to count, and those that do not.
LEMMA PushToCount ==
  ASSUME LockTypeOK, NEW t \in Threads, NEW f \in Frames, Push(t, <<f>>)
  PROVE  ToCount' = ToCount \cup Counts(f)
<1>1. stack[t] \in Seq(Frames)
  BY DEF LockTypeOK
<1>2. PICK u : u = stack[t] \o <<f>>
  OBVIOUS
<1>3. stack' = [stack EXCEPT ![t] = u]
  BY <1>2 DEF Push
<1>4. Counting(u) = Counting(stack[t]) \cup Counts(f)
  BY <1>1, <1>2, CountingPush
<1> QED
  <2>1. PICK others : /\ ToCount = Counting(stack[t]) \cup others
                      /\ ToCount' = Counting(u) \cup others
    BY <1>3, ToCountChange
  <2> QED
    BY <1>4, <2>1

LEMMA PushTwoToCount ==
  ASSUME LockTypeOK, NEW t \in Threads, NEW f \in Frames, NEW c \in Frames,
         Push(t, <<f>> \o <<c>>)
  PROVE  ToCount' = ToCount \cup Counts(f) \cup Counts(c)
<1>1. stack[t] \in Seq(Frames)
  BY DEF LockTypeOK
<1>2. PICK v : v = stack[t] \o <<f>>
  OBVIOUS
<1>3. PICK u : u = v \o <<c>>
  OBVIOUS
<1>4. v \in Seq(Frames)
  BY <1>1, <1>2
<1>5. u = stack[t] \o (<<f>> \o <<c>>)
  BY <1>1, <1>2, <1>3, ConcatAssociative
<1>6. stack' = [stack EXCEPT ![t] = u]
  BY <1>5 DEF Push
<1>7. Counting(u) = Counting(stack[t]) \cup Counts(f) \cup Counts(c)
  BY <1>1, <1>2, <1>3, <1>4, CountingPush
<1> QED
  <2>1. PICK others : /\ ToCount = Counting(stack[t]) \cup others
                      /\ ToCount' = Counting(u) \cup others
    BY <1>6, ToCountChange
  <2> QED
    BY <1>7, <2>1

LEMMA ReturnToCount ==
  ASSUME LockTypeOK, NEW t \in Threads, ~InProgram(t), Return(t),
         Counts(Last(stack[t])) = {}
  PROVE  ToCount' = ToCount
<1>1. /\ stack[t] \in Seq(Frames) /\ stack[t] # << >>
      /\ Last(stack[t]) = stack[t][Len(stack[t])]
  BY TopOfStack
<1>2. PICK u : u = Front(stack[t])
  OBVIOUS
<1>3. stack' = [stack EXCEPT ![t] = u]
  BY <1>2 DEF Return
<1>4. Counting(u) = Counting(stack[t])
  BY <1>1, <1>2, CountingPop
<1> QED
  BY <1>3, <1>4, SameToCount

LEMMA GotoToCount ==
  ASSUME LockTypeOK, NEW t \in Threads, ~InProgram(t), Counts(Last(stack[t])) = {},
         NEW l \in {"lockWorker", "post", "recvs", "cancel", "unlock"}, Goto(t, l)
  PROVE  ToCount' = ToCount
<1>1. /\ stack[t] \in Seq(Frames) /\ stack[t] # << >>
      /\ Last(stack[t]) = stack[t][Len(stack[t])]
      /\ [Last(stack[t]) EXCEPT !.at = l] = Frame(l, OpOf(t))
      /\ OpOf(t) \in Ops \cup Groups \cup {None}
  BY TopOfStack
<1>2. PICK f : f = Frame(l, OpOf(t))
  OBVIOUS
<1>3. f \in Frames /\ f.at = l
  BY <1>1, <1>2, FrameType
<1>4. PICK u : u = Append(Front(stack[t]), f)
  OBVIOUS
<1>5. stack' = [stack EXCEPT ![t] = u]
  BY <1>1, <1>2, <1>4 DEF Goto
<1>6. Counts(f) = {}
  BY <1>3 DEF Counts
<1>7. Counting(u) = Counting(stack[t])
  <2>1. Counting(Append(Front(stack[t]), f)) = Counting(Front(stack[t])) \cup Counts(f)
    BY <1>1, <1>3, CountingReplace
  <2>2. Counting(stack[t]) = Counting(Front(stack[t])) \cup Counts(Last(stack[t]))
    BY <1>1, CountingPop
  <2> QED
    BY <1>4, <1>6, <2>1, <2>2
<1> QED
  BY <1>5, <1>7, SameToCount

\* A receive whose callback has returned is counted, and by this call alone.
LEMMA CountedToCount ==
  ASSUME LockTypeOK, StackInv, NEW t \in Threads, ~InProgram(t),
         Last(stack[t]).at \in {"early", "received"},
         Return(t) \/ Goto(t, "unlock")
  PROVE  /\ OpOf(t) \in ToCount
         /\ ToCount' = ToCount \ {OpOf(t)}
<1>a. PICK op : op = OpOf(t)
  OBVIOUS
<1>b. PICK s : s = stack[t]
  OBVIOUS
<1>c. PICK v : v = Front(s)
  OBVIOUS
<1>1. /\ s \in Seq(Frames) /\ s # << >> /\ Len(s) \in Nat \ {0}
      /\ Last(s) = s[Len(s)] /\ s[Len(s)].op = op
      /\ s[Len(s)].at \in {"early", "received"}
      /\ [Last(s) EXCEPT !.at = "unlock"] = Frame("unlock", op)
      /\ op \in Ops \cup Groups \cup {None}
  BY <1>a, <1>b, TopOfStack
<1>2. op \in Recvs
  BY <1>a, TopCall DEF CallOK
<1>3. /\ v \in Seq(Frames) /\ Len(v) = Len(s) - 1
      /\ \A k \in 1 .. Len(s) - 1 : v[k] = s[k]
  BY <1>1, <1>c, PopProperties
<1>4. Counting(s) = Counting(v) \cup {op}
  BY <1>1, <1>2, <1>c, CountingPop DEF Counts
<1>5. op \notin Counting(v)
  <2>1. DOMAIN v = 1 .. Len(v) /\ Len(s) \in 1 .. Len(s)
        /\ \A k \in DOMAIN v : k \in 1 .. Len(s) /\ k # Len(s) /\ v[k] = s[k]
    BY <1>1, <1>3, LenProperties
  <2>2. \A k \in DOMAIN v : ~(v[k].op = op /\ v[k].at \in {"early", "received"})
    BY <1>1, <1>b, <2>1 DEF StackInv, CallsOwn, Owning
  <2> QED
    BY <2>2 DEF Counting
<1>6. ASSUME NEW q \in Threads \ {t}
      PROVE  op \notin Counting(stack[q])
  <2>1. DOMAIN stack[q] = 1 .. Len(stack[q]) /\ Len(s) \in 1 .. Len(s)
    BY <1>1, LenProperties DEF LockTypeOK
  <2> QED
    BY <1>1, <1>b, <1>6, <2>1 DEF StackInv, CallsOwn, Owning, Counting
<1>8. \E u : stack' = [stack EXCEPT ![t] = u] /\ Counting(u) = Counting(v)
  <2>1. CASE Return(t)
    BY <1>b, <1>c, <2>1 DEF Return
  <2>2. CASE Goto(t, "unlock")
    <3>1. PICK f : f = Frame("unlock", op)
      OBVIOUS
    <3>2. f \in Frames /\ f.at = "unlock"
      BY <1>1, <3>1, FrameType
    <3>3. PICK u : u = Append(v, f)
      OBVIOUS
    <3>4. stack' = [stack EXCEPT ![t] = u]
      BY <1>1, <1>b, <1>c, <2>2, <3>1, <3>3 DEF Goto
    <3>5. Counts(f) = {}
      BY <3>2 DEF Counts
    <3>6. Counting(u) = Counting(v)
      <4>1. Counting(Append(Front(s), f)) = Counting(Front(s)) \cup Counts(f)
        BY <1>1, <3>2, CountingReplace
      <4> QED
        BY <1>c, <3>3, <3>5, <4>1
    <3> QED
      BY <3>4, <3>6
  <2> QED
    BY <2>1, <2>2
<1>9. PICK others : others = {o \in Recvs : \E q \in Threads \ {t} : o \in Counting(stack[q])}
  OBVIOUS
<1>10. ToCount = Counting(v) \cup {op} \cup others
  BY <1>b, <1>4, <1>9, ToCountSplit
<1>11. ToCount' = Counting(v) \cup others
  BY <1>8, <1>9, ToCountNext
<1>12. op \notin others
  BY <1>6, <1>9
<1> QED
  BY <1>a, <1>5, <1>10, <1>11, <1>12

Called(S) == {op \in S \ Futures : calls[op] > 0}
SendsOf(t) == {op \in Sends : Poster[op] = t}
Sum(k) == reported[k] + m_progressed[k]

CounterTypeOK == m_progressed \in [Kinds -> Nat] /\ reported \in [Kinds -> Nat]
\* What has been counted, collected or not, is what was called or cancelled; the
\* receives whose callback has not returned are still to be counted.
CountInv ==
  /\ CounterTypeOK
  /\ \A t \in Threads : Sum(t) = Cardinality(Called(SendsOf(t)))
  /\ Sum("recv") + Cardinality(ToCount) = Cardinality(Called(Recvs))
  /\ Sum("cancel") = Cardinality(cancelled \ Futures)

\* Sets of operations are finite, and the kinds of counters differ.
LEMMA FiniteOperations ==
  ASSUME NEW S, S \subseteq Ops
  PROVE  IsFiniteSet(S) /\ Cardinality(S) \in Nat
BY EnoughStorage, FS_Subset, FS_CardinalityType

LEMMA KindsDiffer ==
  /\ \A t \in Threads : t \in Kinds /\ t # "recv" /\ t # "cancel"
  /\ "recv" \in Kinds /\ "cancel" \in Kinds
BY KindsDisjoint DEF Kinds

\* Steps after which every sum, and what it counts, is as before.
LEMMA SumsKept ==
  ASSUME CountInv, CounterTypeOK', \A k \in Kinds : Sum(k)' = Sum(k),
         UNCHANGED <<style, calls>>, ToCount' = ToCount,
         cancelled' \ Futures = cancelled \ Futures
  PROVE  CountInv'
<1>1. Futures' = Futures
  BY StyleCases
<1>2. /\ Called(Recvs)' = Called(Recvs)
      /\ \A t \in Threads : Called(SendsOf(t))' = Called(SendsOf(t))
  BY <1>1 DEF Called, SendsOf
<1>3. cancelled' \ Futures' = cancelled \ Futures
  BY <1>1
<1>4. \A t \in Threads : Sum(t)' = Cardinality(Called(SendsOf(t)))'
  BY <1>2, KindsDiffer DEF CountInv
<1>5. Sum("recv")' + Cardinality(ToCount)' = Cardinality(Called(Recvs))'
  BY <1>2, KindsDiffer DEF CountInv
<1>6. Sum("cancel")' = Cardinality(cancelled \ Futures)'
  BY <1>3, KindsDiffer DEF CountInv
<1> QED
  BY <1>4, <1>5, <1>6 DEF CountInv

\* A counter goes up by one.
LEMMA CountedOnce ==
  ASSUME CounterTypeOK, NEW k \in Kinds, UNCHANGED reported,
         m_progressed' = [m_progressed EXCEPT ![k] = @ + 1]
  PROVE  /\ CounterTypeOK'
         /\ Sum(k) \in Nat /\ Sum(k)' = Sum(k) + 1
         /\ \A n \in Kinds \ {k} : Sum(n)' = Sum(n)
BY DEF CounterTypeOK, Sum

\* The callback of op is invoked for the first time.
LEMMA CalledOnce ==
  ASSUME RequestTypeOK, UNCHANGED style, NEW op \in Ops \ Futures, calls[op] = 0,
         calls' = [calls EXCEPT ![op] = @ + 1], NEW S, S \subseteq Ops
  PROVE  /\ op \in S => Cardinality(Called(S))' = Cardinality(Called(S)) + 1
         /\ op \notin S => Called(S)' = Called(S)
         /\ Cardinality(Called(S)) \in Nat
<1>1. Futures' = Futures
  BY StyleCases
<1>2. /\ calls'[op] = 1 /\ \A o \in Ops \ {op} : calls'[o] = calls[o]
  BY DEF RequestTypeOK
<1>3. PICK C1 : C1 = Called(S)
  OBVIOUS
<1>4. PICK C2 : C2 = {o \in S \ Futures : calls'[o] > 0}
  OBVIOUS
<1>5. Called(S)' = C2
  BY <1>1, <1>4 DEF Called
<1>6. C1 \subseteq Ops /\ op \notin C1
  BY <1>3 DEF Called
<1>7. IsFiniteSet(C1) /\ Cardinality(C1) \in Nat
  BY <1>6, FiniteOperations
<1>8. op \in S => C2 = C1 \cup {op}
  BY <1>2, <1>3, <1>4 DEF Called
<1>9. op \notin S => C2 = C1
  BY <1>2, <1>3, <1>4 DEF Called
<1>10. op \in S => Cardinality(C2) = Cardinality(C1) + 1
  BY <1>6, <1>7, <1>8, FS_AddElement
<1> QED
  BY <1>3, <1>5, <1>7, <1>9, <1>10

\* A send completes.
LEMMA SendCounted ==
  ASSUME CountInv, LifeInv, UNCHANGED <<style, reported>>, NEW op \in Sends, op \notin Futures,
         calls[op] = 0, Invoke(op), m_progressed' = Count(Poster[op], op),
         ToCount' = ToCount, UNCHANGED cancelled
  PROVE  CountInv'
<1>1. PICK t \in Threads : t = Poster[op]
  BY PosterType DEF Ops
<1>2. /\ calls' = [calls EXCEPT ![op] = @ + 1]
      /\ m_progressed' = [m_progressed EXCEPT ![t] = @ + 1]
      /\ op \in Ops \ Futures /\ op \notin Recvs /\ op \in SendsOf(t)
      /\ \A q \in Threads \ {t} : op \notin SendsOf(q)
      /\ RequestTypeOK /\ Recvs \subseteq Ops /\ \A q \in Threads : SendsOf(q) \subseteq Ops
  BY <1>1, OpsDisjoint DEF Invoke, Count, SendsOf, Ops, LifeInv, RequestInv
<1>3. t \in Kinds /\ t # "recv" /\ t # "cancel" /\ "recv" \in Kinds /\ "cancel" \in Kinds
  BY KindsDiffer
<1>4. /\ CounterTypeOK'
      /\ Sum(t)' = Sum(t) + 1
      /\ \A n \in Kinds \ {t} : Sum(n)' = Sum(n)
  BY <1>2, <1>3, CountedOnce DEF CountInv
<1>5. Called(Recvs)' = Called(Recvs)
  BY <1>2, CalledOnce
<1>6. Sum("recv")' + Cardinality(ToCount)' = Cardinality(Called(Recvs))'
  BY <1>3, <1>4, <1>5 DEF CountInv
<1>7. Sum("cancel")' = Cardinality(cancelled \ Futures)'
  BY <1>3, <1>4, StyleCases DEF CountInv
<1>8. ASSUME NEW q \in Threads
      PROVE  Sum(q)' = Cardinality(Called(SendsOf(q)))'
  <2>1. SendsOf(q)' = SendsOf(q) /\ q \in Kinds
    BY KindsDiffer DEF SendsOf
  <2>2. PICK S : S = SendsOf(q)
    OBVIOUS
  <2>3. CASE q = t
    <3>1. Cardinality(Called(S))' = Cardinality(Called(S)) + 1
      BY <1>2, <2>2, <2>3, CalledOnce
    <3> QED
      BY <1>4, <2>1, <2>2, <2>3, <3>1 DEF CountInv, Called
  <2>4. CASE q # t
    <3>1. Called(S)' = Called(S)
      BY <1>2, <2>2, <2>4, CalledOnce
    <3> QED
      BY <1>4, <2>1, <2>2, <2>4, <3>1 DEF CountInv, Called
  <2> QED
    BY <2>3, <2>4
<1> QED
  BY <1>4, <1>6, <1>7, <1>8 DEF CountInv

\* The callback of a receive is invoked: the receive is to be counted.
LEMMA RecvCalled ==
  ASSUME CountInv, LifeInv, UNCHANGED <<style, counters, cancelled>>,
         NEW op \in Recvs, op \notin Futures, calls[op] = 0, Invoke(op),
         op \notin ToCount, ToCount' = ToCount \cup {op}
  PROVE  CountInv'
<1>1. /\ calls' = [calls EXCEPT ![op] = @ + 1]
      /\ op \in Ops \ Futures /\ op \notin Sends
      /\ \A q \in Threads : op \notin SendsOf(q)
      /\ RequestTypeOK /\ Recvs \subseteq Ops /\ \A q \in Threads : SendsOf(q) \subseteq Ops
  BY OpsDisjoint DEF Invoke, SendsOf, Ops, LifeInv, RequestInv
<1>2. /\ CounterTypeOK' /\ \A k \in Kinds : Sum(k)' = Sum(k)
      /\ Sum("recv") \in Nat /\ Sum("recv")' = Sum("recv")
      /\ Sum("cancel")' = Sum("cancel")
  BY KindsDiffer DEF CountInv, CounterTypeOK, Sum, counters
<1>3. \A q \in Threads : Sum(q)' = Cardinality(Called(SendsOf(q)))'
  <2> SUFFICES ASSUME NEW q \in Threads
               PROVE  Sum(q)' = Cardinality(Called(SendsOf(q)))'
    OBVIOUS
  <2>1. PICK S : S = SendsOf(q)
    OBVIOUS
  <2>2. Called(S)' = Called(S)
    BY <1>1, <2>1, CalledOnce
  <2>3. SendsOf(q)' = S /\ Sum(q)' = Sum(q)
    BY <1>2, <2>1, KindsDiffer DEF SendsOf
  <2> QED
    BY <2>1, <2>2, <2>3 DEF CountInv, Called
<1>4. Sum("cancel")' = Cardinality(cancelled \ Futures)'
  BY <1>2, StyleCases DEF CountInv
<1>5. /\ IsFiniteSet(ToCount) /\ Cardinality(ToCount) \in Nat
  <2>1. ToCount \subseteq Ops
    BY DEF ToCount, Ops
  <2> QED
    BY <2>1, FiniteOperations
<1>6. Cardinality(ToCount)' = Cardinality(ToCount) + 1
  BY <1>5, FS_AddElement
<1>7. /\ Cardinality(Called(Recvs))' = Cardinality(Called(Recvs)) + 1
      /\ Cardinality(Called(Recvs)) \in Nat
  BY <1>1, CalledOnce
<1>8. Sum("recv")' + Cardinality(ToCount)' = Cardinality(Called(Recvs))'
  <2>1. Sum("recv") + Cardinality(ToCount) = Cardinality(Called(Recvs))
    BY DEF CountInv
  <2> QED
    BY <1>2, <1>5, <1>6, <1>7, <2>1
<1> QED
  BY <1>2, <1>3, <1>4, <1>8 DEF CountInv

\* It has returned: the receive is counted.
LEMMA RecvCounted ==
  ASSUME CountInv, UNCHANGED <<style, reported, calls, cancelled>>, NEW op \in ToCount,
         m_progressed' = [m_progressed EXCEPT !["recv"] = @ + 1],
         ToCount' = ToCount \ {op}
  PROVE  CountInv'
<1>1. Futures' = Futures
  BY StyleCases
<1>2. /\ CounterTypeOK'
      /\ Sum("recv") \in Nat /\ Sum("recv")' = Sum("recv") + 1
      /\ \A n \in Kinds \ {"recv"} : Sum(n)' = Sum(n)
  BY KindsDiffer, CountedOnce DEF CountInv
<1>3. /\ Called(Recvs)' = Called(Recvs)
      /\ \A t \in Threads : Called(SendsOf(t))' = Called(SendsOf(t))
  BY <1>1 DEF Called, SendsOf
<1>4. /\ Cardinality(ToCount)' = Cardinality(ToCount) - 1
      /\ Cardinality(ToCount) \in Nat
  <2>1. ToCount \subseteq Ops
    BY DEF ToCount, Ops
  <2>2. IsFiniteSet(ToCount) /\ Cardinality(ToCount) \in Nat
    BY <2>1, FiniteOperations
  <2> QED
    BY <2>2, FS_RemoveElement
<1>5. Sum("recv")' + Cardinality(ToCount)' = Cardinality(Called(Recvs))'
  <2>1. Sum("recv") + Cardinality(ToCount) = Cardinality(Called(Recvs))
    BY DEF CountInv
  <2>2. Sum("recv") + 1 + (Cardinality(ToCount) - 1) = Sum("recv") + Cardinality(ToCount)
    BY <1>2, <1>4
  <2> QED
    BY <1>2, <1>3, <1>4, <2>1, <2>2
<1>6. \A t \in Threads : Sum(t)' = Cardinality(Called(SendsOf(t)))'
  BY <1>2, <1>3, KindsDiffer DEF CountInv
<1>7. Sum("cancel")' = Cardinality(cancelled \ Futures)'
  BY <1>1, <1>2, KindsDiffer DEF CountInv
<1> QED
  BY <1>2, <1>5, <1>6, <1>7 DEF CountInv

\* UCX completes a receive as cancelled.
LEMMA CancelCounted ==
  ASSUME CountInv, UNCHANGED <<style, reported, calls>>, ToCount' = ToCount,
         cancelled \subseteq Recvs, NEW op \in Recvs, op \notin Futures, op \notin cancelled,
         cancelled' = cancelled \cup {op}, m_progressed' = Count("cancel", op)
  PROVE  CountInv'
<1>1. Futures' = Futures
  BY StyleCases
<1>2. m_progressed' = [m_progressed EXCEPT !["cancel"] = @ + 1]
  BY DEF Count
<1>3. /\ CounterTypeOK'
      /\ Sum("cancel") \in Nat /\ Sum("cancel")' = Sum("cancel") + 1
      /\ \A n \in Kinds \ {"cancel"} : Sum(n)' = Sum(n)
  BY <1>2, KindsDiffer, CountedOnce DEF CountInv
<1>4. /\ Called(Recvs)' = Called(Recvs)
      /\ \A t \in Threads : Called(SendsOf(t))' = Called(SendsOf(t))
  BY <1>1 DEF Called, SendsOf
<1>5. Sum("recv")' + Cardinality(ToCount)' = Cardinality(Called(Recvs))'
  BY <1>3, <1>4, KindsDiffer DEF CountInv
<1>6. \A t \in Threads : Sum(t)' = Cardinality(Called(SendsOf(t)))'
  BY <1>3, <1>4, KindsDiffer DEF CountInv
<1>7. PICK S : S = cancelled \ Futures
  OBVIOUS
<1>8. S \subseteq Ops /\ op \notin S
  BY <1>7 DEF Ops
<1>9. (cancelled \ Futures)' = S \cup {op}
  BY <1>1, <1>7
<1>10. Cardinality(S \cup {op}) = Cardinality(S) + 1
  BY <1>8, FiniteOperations, FS_AddElement
<1>11. Sum("cancel")' = Cardinality(cancelled \ Futures)'
  BY <1>3, <1>7, <1>9, <1>10 DEF CountInv
<1> QED
  BY <1>3, <1>5, <1>6, <1>11 DEF CountInv

LEMMA CountsNothing == \A f : f.at \notin {"early", "received"} => Counts(f) = {}
BY DEF Counts

\* Steps that leave callbacks and counters alone.
LEMMA CountStepCalls ==
  ASSUME LifeInv, CountInv, NEW t \in Threads,
         \/ CallbackReturns(t) \/ Lock(t) \/ Unlock(t) \/ Progress(t)
         \/ \E op \in Recvs : PostRecv(t, op) \/ Cancel(t, op)
         \/ \E g \in Groups : SendMulti(t, g)
         \/ SendMultiReturns(t) \/ WaitRound(t) \/ RecvPending(t)
         \/ \E op \in Ops : Wait(t, op)
  PROVE  CountInv'
<1>0. LockTypeOK
  BY DEF LifeInv
<1>1. UNCHANGED <<style, counters, calls, cancelled>>
  BY DEF CallbackReturns, Lock, Unlock, Progress, PostRecv, Cancel, SendMulti, RecvPending,
         SendMultiReturns, WaitRound, Wait, mutex, requests
<1>2. CounterTypeOK' /\ \A k \in Kinds : Sum(k)' = Sum(k)
  BY <1>1 DEF CountInv, CounterTypeOK, Sum, counters
<1> SUFFICES ToCount' = ToCount
  BY <1>1, <1>2, SumsKept
<1>3. CASE \/ CallbackReturns(t) \/ Unlock(t) \/ SendMultiReturns(t)
           \/ (WaitRound(t) /\ OpOf(t) \notin held)
  <2>1. /\ ~InProgram(t) /\ Return(t)
        /\ Last(stack[t]).at \notin {"early", "received"}
    BY <1>3 DEF CallbackReturns, Unlock, SendMultiReturns, WaitRound, At
  <2> QED
    BY <1>0, <2>1, CountsNothing, ReturnToCount
<1>4. CASE Lock(t)
  <2>1. PICK l : l = Labels[Last(stack[t]).at]
    OBVIOUS
  <2>2. /\ ~InProgram(t) /\ Goto(t, l)
        /\ Last(stack[t]).at \in {"lockRecv", "lockWorker", "lockCancel"}
    BY <1>4, <2>1 DEF Lock, Labels
  <2>3. l \in {"post", "recvs", "cancel"} /\ Last(stack[t]).at \notin {"early", "received"}
    BY <2>1, <2>2 DEF Labels
  <2> QED
    BY <1>0, <2>2, <2>3, CountsNothing, GotoToCount
<1>5. CASE RecvPending(t)
  <2>1. ~InProgram(t) /\ Goto(t, "unlock") /\ Last(stack[t]).at \notin {"early", "received"}
    BY <1>5 DEF RecvPending, At
  <2> QED
    BY <1>0, <2>1, CountsNothing, GotoToCount
<1>6. ASSUME NEW f \in Frames, f.at \notin {"early", "received"}, Push(t, <<f>>)
      PROVE  ToCount' = ToCount
  BY <1>0, <1>6, CountsNothing, PushToCount
<1>7. CASE Progress(t)
  <2>1. PICK f : f = Frame("sends", None)
    OBVIOUS
  <2>2. f \in Frames /\ f.at = "sends"
    BY <2>1, FrameType
  <2> QED
    BY <1>6, <1>7, <2>1, <2>2 DEF Progress
<1>8. ASSUME NEW op \in Recvs, PostRecv(t, op)
      PROVE  ToCount' = ToCount
  <2>1. PICK f : f = Frame("lockRecv", op)
    OBVIOUS
  <2>2. f \in Frames /\ f.at = "lockRecv"
    BY <2>1, FrameType DEF Ops
  <2> QED
    BY <1>6, <1>8, <2>1, <2>2 DEF PostRecv
<1>9. ASSUME NEW op \in Recvs, Cancel(t, op)
      PROVE  ToCount' = ToCount
  <2>1. PICK f : f = Frame("wait", op)
    OBVIOUS
  <2>2. PICK c : c = Frame("lockCancel", op)
    OBVIOUS
  <2>3. f \in Frames /\ f.at = "wait" /\ c \in Frames /\ c.at = "lockCancel"
    BY <2>1, <2>2, FrameType DEF Ops
  <2>4. Counts(f) = {} /\ Counts(c) = {}
    BY <2>3, CountsNothing
  <2>5. CASE op \in Futures
    <3>1. Push(t, <<f>> \o <<c>>)
      BY <1>9, <2>1, <2>2, <2>5 DEF Cancel
    <3> QED
      BY <1>0, <2>3, <2>4, <3>1, PushTwoToCount
  <2>6. CASE op \notin Futures
    <3>1. Push(t, << >> \o <<c>>)
      BY <1>9, <2>2, <2>6 DEF Cancel
    <3>2. Push(t, <<c>>)
      BY <2>3, <3>1
    <3> QED
      BY <1>6, <2>3, <3>2
  <2> QED
    BY <2>5, <2>6
<1>10. ASSUME NEW g \in Groups, SendMulti(t, g)
       PROVE  ToCount' = ToCount
  <2>1. PICK f : f = Frame("multi", g)
    OBVIOUS
  <2>2. f \in Frames /\ f.at = "multi"
    BY <2>1, FrameType
  <2> QED
    BY <1>6, <1>10, <2>1, <2>2 DEF SendMulti
<1>11. CASE WaitRound(t) /\ OpOf(t) \in held
  <2>1. PICK f : f = Frame("sends", OpOf(t))
    OBVIOUS
  <2>2. Push(t, <<f>>) /\ OpOf(t) \in Ops \cup Groups \cup {None}
    BY <1>0, <1>11, <2>1, TopOfStack DEF WaitRound, At
  <2>3. f \in Frames /\ f.at = "sends"
    BY <2>1, <2>2, FrameType
  <2> QED
    BY <1>6, <2>2, <2>3
<1>12. ASSUME NEW op \in Ops, Wait(t, op)
       PROVE  ToCount' = ToCount
  <2>1. PICK f : f = Frame("wait", op)
    OBVIOUS
  <2>2. f \in Frames /\ f.at = "wait"
    BY <2>1, FrameType
  <2> QED
    BY <1>6, <1>12, <2>1, <2>2 DEF Wait
<1> QED
  BY <1>3, <1>4, <1>5, <1>7, <1>8, <1>9, <1>10, <1>11, <1>12

\* Steps that leave the stacks alone and complete no send.
LEMMA CountStepQuiet ==
  ASSUME LifeInv, CountInv, UNCHANGED <<style, stack, counters, calls, cancelled>>
  PROVE  CountInv'
<1>1. CounterTypeOK' /\ \A k \in Kinds : Sum(k)' = Sum(k)
  BY DEF CountInv, CounterTypeOK, Sum, counters
<1>2. ToCount' = ToCount
  BY DEF ToCount
<1> QED
  BY <1>1, <1>2, SumsKept

\* A send completes, at once or later, on the thread that posted it.
LEMMA CountStepSend ==
  ASSUME LifeInv, CountInv, NEW t \in Threads, SendNow(t) \/ CompleteSend(t)
  PROVE  CountInv'
<1>1. PICK op \in Sends : /\ Poster[op] = t /\ ucp[op] # "over"
                          /\ Invoke(op) /\ m_progressed' = Count(t, op)
                          /\ UNCHANGED <<style, stack, cancelled, reported>>
  <2>1. CASE SendNow(t)
    <3>1. PICK op : op = NextSend(OpOf(t))
      OBVIOUS
    <3>2. PICK g : g = OpOf(t)
      OBVIOUS
    <3>3. /\ g \in Groups /\ op \in Range(Multi[g]) /\ op \in Sends /\ ucp[op] = "none"
      BY <2>1, <3>1, <3>2, NextSendProperties DEF SendNow
    <3>4. Poster[Multi[g][1]] = t
      <4>1. /\ ~InProgram(t) /\ Last(stack[t]).at = "multi"
        BY <2>1 DEF SendNow, At
      <4>2. CallOK(t, Last(stack[t])) /\ OpOf(t) = Last(stack[t]).op
        BY <4>1, TopCall DEF LifeInv
      <4> QED
        BY <3>2, <4>1, <4>2 DEF CallOK
    <3>5. Poster[op] = t
      BY <3>3, <3>4, MultiPartition DEF Range
    <3> QED
      BY <2>1, <3>1, <3>3, <3>5 DEF SendNow, mutex
  <2>2. CASE CompleteSend(t)
    BY <2>2 DEF CompleteSend, mutex
  <2> QED
    BY <2>1, <2>2
<1>2. CASE op \in Futures
  BY <1>1, <1>2, CountStepQuiet DEF Invoke, Count, counters
<1>3. CASE op \notin Futures
  <2>1. calls[op] = 0
    BY <1>1 DEF LifeInv, RequestInv, SendInv, SendOK
  <2>2. ToCount' = ToCount
    BY <1>1 DEF ToCount
  <2> QED
    BY <1>1, <1>3, <2>1, <2>2, SendCounted
<1> QED
  BY <1>2, <1>3

\* The thread's own counter, and the shared ones, go into a progress_status.
LEMMA CountStepCollect ==
  ASSUME LifeInv, CountInv, NEW t \in Threads, SendsDrained(t) \/ RecvsDrained(t)
  PROVE  CountInv'
<1>1. /\ UNCHANGED <<style, calls, cancelled>>
      /\ ~InProgram(t) /\ Last(stack[t]).at \in {"sends", "recvs"}
      /\ Goto(t, "lockWorker") \/ Goto(t, "unlock")
  BY DEF SendsDrained, RecvsDrained, At, mutex, requests
<1>2. ToCount' = ToCount
  BY <1>1, CountsNothing, GotoToCount DEF LifeInv
<1>3. m_progressed \in [Kinds -> Nat] /\ reported \in [Kinds -> Nat]
  BY DEF CountInv, CounterTypeOK
<1>4. CounterTypeOK' /\ \A k \in Kinds : Sum(k)' = Sum(k)
  <2>1. CASE UNCHANGED counters
    BY <1>3, <2>1 DEF CounterTypeOK, Sum, counters
  <2>2. CASE SendsDrained(t) /\ ~UNCHANGED counters
    <3>1. /\ reported' = [reported EXCEPT ![t] = @ + m_progressed[t]]
          /\ m_progressed' = [m_progressed EXCEPT ![t] = 0]
          /\ t \in Kinds
      BY <2>2, KindsDiffer DEF SendsDrained
    <3> QED
      BY <1>3, <3>1 DEF CounterTypeOK, Sum
  <2>3. CASE RecvsDrained(t) /\ ~UNCHANGED counters
    <3>1. /\ reported' = [k \in Kinds |-> IF k \in Threads THEN reported[k]
                                         ELSE reported[k] + m_progressed[k]]
          /\ m_progressed' = [k \in Kinds |-> IF k \in Threads THEN m_progressed[k] ELSE 0]
      BY <2>3 DEF RecvsDrained
    <3>2. CounterTypeOK'
      BY <1>3, <3>1 DEF CounterTypeOK
    <3>3. ASSUME NEW k \in Kinds
          PROVE  Sum(k)' = Sum(k)
      <4>1. CASE k \in Threads
        BY <3>1, <4>1 DEF Sum
      <4>2. CASE k \notin Threads
        BY <1>3, <3>1, <4>2 DEF Sum
      <4> QED
        BY <4>1, <4>2
    <3> QED
      BY <3>2, <3>3
  <2> QED
    BY <2>1, <2>2, <2>3
<1> QED
  BY <1>1, <1>2, <1>4, SumsKept

\* A receive that is over has been taken from those that are to be counted.
LEMMA ToCountOver ==
  ASSUME LifeInv, NEW op \in Recvs, ucp[op] # "over"
  PROVE  op \notin ToCount
<1> SUFFICES ASSUME NEW t \in Threads, NEW k \in DOMAIN stack[t],
                    stack[t][k].op = op, stack[t][k].at \in {"early", "received"}
             PROVE  FALSE
  BY DEF ToCount
<1>1. k \in 1 .. Len(stack[t])
  BY LenProperties DEF LifeInv, LockTypeOK
<1> QED
  BY <1>1 DEF LifeInv, StackInv, CallsOK, CallOK

\* The callback of a receive is invoked, by recv itself or by UCX.
LEMMA CountStepRecvEarly ==
  ASSUME LifeInv, CountInv, NEW t \in Threads, RecvEarly(t)
  PROVE  CountInv'
<1>a. PICK op : op = OpOf(t)
  OBVIOUS
<1>0. /\ LockTypeOK /\ StackInv
      /\ ~InProgram(t) /\ Last(stack[t]).at = "post"
      /\ UNCHANGED <<style, counters, cancelled>> /\ Invoke(op)
  BY <1>a DEF LifeInv, RecvEarly, At, mutex
<1>1. op \in Recvs /\ ucp[op] = "none"
  BY <1>a, <1>0, TopCall DEF CallOK
<1>2. Counts(Last(stack[t])) = {}
  BY <1>0, CountsNothing
<1>3. CASE op \in Futures
  <2>1. Goto(t, "unlock") /\ calls' = calls
    BY <1>a, <1>0, <1>3 DEF RecvEarly, Invoke
  <2>2. ToCount' = ToCount
    BY <1>0, <1>2, <2>1, GotoToCount
  <2>3. CounterTypeOK' /\ \A k \in Kinds : Sum(k)' = Sum(k)
    BY <1>0 DEF CountInv, CounterTypeOK, Sum, counters
  <2> QED
    BY <1>0, <2>1, <2>2, <2>3, SumsKept
<1>4. CASE op \notin Futures
  <2>1. PICK c : c = Frame("callback", op)
    OBVIOUS
  <2>2. PICK f : f = Frame("early", op)
    OBVIOUS
  <2>3. /\ c \in Frames /\ c.at = "callback" /\ f \in Frames /\ f.at = "early" /\ f.op = op
    BY <1>1, <2>1, <2>2, FrameType DEF Ops
  <2>4. /\ stack[t] \in Seq(Frames) /\ stack[t] # << >>
        /\ Last(stack[t]) = stack[t][Len(stack[t])]
        /\ [Last(stack[t]) EXCEPT !.at = "early"] = f
    BY <1>a, <1>0, <2>2, TopOfStack
  <2>5. PICK v : v = Append(Front(stack[t]), f)
    OBVIOUS
  <2>6. PICK u : u = v \o <<c>>
    OBVIOUS
  <2>7. stack' = [stack EXCEPT ![t] = u]
    BY <1>a, <1>4, <2>1, <2>4, <2>5, <2>6 DEF RecvEarly, GotoAndPush, Callback
  <2>8. v \in Seq(Frames) /\ Counting(v) = Counting(Front(stack[t])) \cup Counts(f)
    BY <2>3, <2>4, <2>5, CountingReplace
  <2>9. Counting(u) = Counting(v) \cup Counts(c)
    BY <2>3, <2>6, <2>8, CountingPush
  <2>10. Counting(stack[t]) = Counting(Front(stack[t])) \cup Counts(Last(stack[t]))
    BY <2>4, CountingPop
  <2>11. Counts(f) = {op} /\ Counts(c) = {}
    BY <1>1, <2>3 DEF Counts
  <2>12. Counting(u) = Counting(stack[t]) \cup {op}
    BY <1>2, <2>8, <2>9, <2>10, <2>11
  <2>13. ToCount' = ToCount \cup {op}
    <3>1. PICK others : /\ ToCount = Counting(stack[t]) \cup others
                        /\ ToCount' = Counting(u) \cup others
      BY <1>0, <2>7, ToCountChange
    <3> QED
      BY <2>12, <3>1
  <2>14. op \notin ToCount
    BY <1>1, ToCountOver
  <2>15. calls[op] = 0
    BY <1>1 DEF LifeInv, RequestInv, RecvInv, RecvOK
  <2> QED
    BY <1>0, <1>1, <1>4, <2>13, <2>14, <2>15, RecvCalled
<1> QED
  BY <1>3, <1>4

LEMMA CountStepCompleteRecv ==
  ASSUME LifeInv, CountInv, NEW t \in Threads, CompleteRecv(t)
  PROVE  CountInv'
<1>1. PICK op \in Recvs :
        /\ ucp[op] = "ready" /\ Invoke(op)
        /\ IF op \in Futures THEN UNCHANGED stack
           ELSE Push(t, <<Frame("received", op)>> \o Callback(op))
        /\ UNCHANGED <<style, counters, cancelled>>
  BY DEF CompleteRecv, mutex
<1>2. CASE op \in Futures
  BY <1>1, <1>2, CountStepQuiet DEF Invoke
<1>3. CASE op \notin Futures
  <2>1. PICK c : c = Frame("callback", op)
    OBVIOUS
  <2>2. PICK f : f = Frame("received", op)
    OBVIOUS
  <2>3. /\ c \in Frames /\ c.at = "callback" /\ f \in Frames /\ f.at = "received" /\ f.op = op
    BY <2>1, <2>2, FrameType DEF Ops
  <2>4. Push(t, <<f>> \o <<c>>)
    BY <1>1, <1>3, <2>1, <2>2 DEF Callback
  <2>5. Counts(f) = {op} /\ Counts(c) = {}
    BY <2>3 DEF Counts
  <2>6. ToCount' = ToCount \cup {op}
    BY <2>3, <2>4, <2>5, PushTwoToCount DEF LifeInv
  <2>7. op \notin ToCount
    BY <1>1, ToCountOver
  <2>8. calls[op] = 0
    BY <1>1 DEF LifeInv, RequestInv, RecvInv, RecvOK
  <2> QED
    BY <1>1, <1>3, <2>6, <2>7, <2>8, RecvCalled
<1> QED
  BY <1>2, <1>3

\* It returns, and the receive is counted.
LEMMA CountStepRecvDone ==
  ASSUME LifeInv, CountInv, NEW t \in Threads, RecvEarlyDone(t) \/ RecvDone(t)
  PROVE  CountInv'
<1>1. /\ ~InProgram(t) /\ Last(stack[t]).at \in {"early", "received"}
      /\ Return(t) \/ Goto(t, "unlock")
      /\ m_progressed' = [m_progressed EXCEPT !["recv"] = @ + 1]
      /\ UNCHANGED <<style, reported, calls, cancelled>>
  BY DEF RecvEarlyDone, RecvDone, At, mutex
<1>2. OpOf(t) \in ToCount /\ ToCount' = ToCount \ {OpOf(t)}
  BY <1>1, CountedToCount DEF LifeInv
<1> QED
  BY <1>1, <1>2, RecvCounted

\* A cancelled receive is counted as such.
LEMMA CountStepCancelRecv ==
  ASSUME LifeInv, CountInv, NEW t \in Threads, CancelRecv(t)
  PROVE  CountInv'
<1>a. PICK op : op = OpOf(t)
  OBVIOUS
<1>1. /\ op \in Recvs
      /\ \/ UNCHANGED <<cancelled, m_progressed>>
         \/ /\ ucp[op] = "active"
            /\ cancelled' = cancelled \cup {op}
            /\ m_progressed' = Count("cancel", op)
  BY <1>a, CancelRecvCases
<1>2. /\ UNCHANGED <<style, reported, calls>>
      /\ ~InProgram(t) /\ Last(stack[t]).at = "cancel" /\ Goto(t, "unlock")
  BY DEF CancelRecv, At, mutex
<1>3. ToCount' = ToCount
  BY <1>2, CountsNothing, GotoToCount DEF LifeInv
<1>4. CASE UNCHANGED m_progressed /\ cancelled' \ Futures = cancelled \ Futures
  <2>1. CounterTypeOK' /\ \A k \in Kinds : Sum(k)' = Sum(k)
    BY <1>2, <1>4 DEF CountInv, CounterTypeOK, Sum
  <2> QED
    BY <1>2, <1>3, <1>4, <2>1, SumsKept
<1>5. CASE /\ ucp[op] = "active" /\ op \notin Futures
           /\ cancelled' = cancelled \cup {op}
           /\ m_progressed' = Count("cancel", op)
  <2>1. op \notin cancelled /\ cancelled \subseteq Recvs
    BY <1>1, <1>5 DEF LifeInv, RequestInv, RequestTypeOK, RecvInv, RecvOK
  <2> QED
    BY <1>1, <1>2, <1>3, <1>5, <2>1, CancelCounted
<1>6. CASE /\ op \in Futures
           /\ cancelled' = cancelled \cup {op}
           /\ m_progressed' = Count("cancel", op)
  <2>1. UNCHANGED m_progressed /\ cancelled' \ Futures = cancelled \ Futures
    BY <1>6 DEF Count
  <2> QED
    BY <1>4, <2>1
<1> QED
  BY <1>1, <1>4, <1>5, <1>6

\* Every step keeps the sums.
LEMMA CountStep == LifeInv /\ CountInv /\ [Next]_vars => CountInv'
<1> SUFFICES ASSUME LifeInv, CountInv, [Next]_vars
             PROVE  CountInv'
  OBVIOUS
<1>1. CASE UNCHANGED vars
  BY <1>1, CountStepQuiet DEF vars, mutex, requests
<1>2. ASSUME NEW t \in Threads, NEW op \in Ops, Test(t, op)
      PROVE  CountInv'
  BY <1>2, CountStepQuiet DEF Test, mutex
<1>3. ASSUME NEW t \in Threads, Program(t) \/ Progress(t) \/ Lock(t)
      PROVE  CountInv'
  BY <1>2, <1>3, CountStepCalls DEF Program
<1>4. ASSUME NEW t \in Threads, SendPending(t)
      PROVE  CountInv'
  BY <1>4, CountStepQuiet DEF SendPending, mutex
<1>5. ASSUME NEW t \in Threads, Step(t)
      PROVE  CountInv'
  BY <1>4, <1>5, CountStepCalls, CountStepSend, CountStepCollect, CountStepRecvEarly,
     CountStepCompleteRecv, CountStepRecvDone, CountStepCancelRecv DEF Step
<1>6. ASSUME NEW op \in Ops, SendReady(op) \/ Match(op)
      PROVE  CountInv'
  BY <1>6, CountStepQuiet DEF SendReady, Match, mutex
<1> QED
  BY <1>1, <1>3, <1>5, <1>6 DEF Next, Ops

\* CountInv holds for every program.
LEMMA CountInvariant == Spec => []CountInv
<1>1. Init => CountInv
  <2> SUFFICES ASSUME Init
               PROVE  CountInv
    OBVIOUS
  <2>1. CounterTypeOK /\ \A k \in Kinds : Sum(k) = 0
    BY DEF Init, CounterTypeOK, Sum
  <2>2. /\ \A S \in SUBSET Ops : Called(S) = {}
        /\ ToCount = {} /\ cancelled = {}
    BY DEF Init, Called, ToCount
  <2>3. /\ Recvs \in SUBSET Ops /\ \A t \in Threads : SendsOf(t) \in SUBSET Ops
    BY DEF Ops, SendsOf
  <2>4. Cardinality({}) = 0
    BY FS_EmptySet
  <2>5. cancelled \ Futures = {}
    BY <2>2
  <2>6. Called(Recvs) = {} /\ \A t \in Threads : Called(SendsOf(t)) = {}
    BY <2>2, <2>3
  <2> QED
    BY <2>1, <2>2, <2>4, <2>5, <2>6, KindsDiffer DEF CountInv
<1> QED
  BY <1>1, CountStep, LifeInvariant, PTL DEF Spec

\* Every completed send, receive and cancel is in the progress_status of exactly one
\* call, or still in the counter of its worker, whichever threads complete and
\* collect receives (communicator.hpp:190-227 and 330-366).
THEOREM CountsSafe == Spec => []CountsEveryCompletion
<1>1. CountInv => CountsEveryCompletion
  <2> SUFFICES ASSUME CountInv
               PROVE  CountsEveryCompletion
    OBVIOUS
  <2>1. \A S : CallbacksOf(S) = Cardinality(Called(S))
    BY DEF CallbacksOf, Called
  <2> QED
    BY <2>1 DEF CountInv, CountsEveryCompletion, Sum, SendsOf
<1> QED
  BY <1>1, CountInvariant, PTL

-----------------------------------------------------------------------------
(* send_multi notifies once                                                *)

\* The thread that makes the call g of send_multi is in it.
InMulti(g) == LET t == Poster[Multi[g][1]] IN At(t, "multi") /\ OpOf(t) = g

\* A send is in one call of send_multi, at one place.
LEMMA GroupProperties ==
  ASSUME NEW g \in Groups
  PROVE  /\ Multi[g] \in Seq(Sends) /\ Len(Multi[g]) \in Nat \ {0}
         /\ DOMAIN Multi[g] = 1 .. Len(Multi[g])
         /\ Range(Multi[g]) \subseteq Sends /\ Range(Multi[g]) # {}
         /\ IsFiniteSet(Range(Multi[g])) /\ Cardinality(Range(Multi[g])) = Len(Multi[g])
         /\ \A op \in Range(Multi[g]) : GroupOf(op) = g /\ Poster[op] = Poster[Multi[g][1]]
         /\ Poster[Multi[g][1]] \in Threads
<1>1. /\ Multi[g] \in Seq(Sends) /\ Multi[g] # << >> /\ IsInjective(Multi[g])
      /\ \A k \in DOMAIN Multi[g] : Poster[Multi[g][k]] = Poster[Multi[g][1]]
  BY MultiPartition
<1>2. /\ Len(Multi[g]) \in Nat \ {0} /\ DOMAIN Multi[g] = 1 .. Len(Multi[g])
      /\ Multi[g] \in [1 .. Len(Multi[g]) -> Sends]
      /\ 1 \in DOMAIN Multi[g]
  BY <1>1
<1>3. Range(Multi[g]) \subseteq Sends /\ Range(Multi[g]) # {}
  BY <1>2 DEF Range
<1>4. ExistsBijection(1 .. Len(Multi[g]), Range(Multi[g]))
  <2>1. PICK n : n = Len(Multi[g])
    OBVIOUS
  <2>2. PICK f : f = Multi[g]
    OBVIOUS
  <2>3. f \in [1 .. n -> Range(f)] /\ \A y \in Range(f) : \E x \in 1 .. n : f[x] = y
    BY <1>2, <2>1, <2>2 DEF Range
  <2>4. \A a, b \in 1 .. n : f[a] = f[b] => a = b
    BY <1>1, <1>2, <2>1, <2>2 DEF IsInjective
  <2>5. f \in Bijection(1 .. n, Range(f))
    BY <2>3, <2>4 DEF Bijection, Injection, Surjection, IsInjective
  <2> QED
    BY <2>1, <2>2, <2>5 DEF ExistsBijection
<1>5. IsFiniteSet(Range(Multi[g])) /\ Cardinality(Range(Multi[g])) = Len(Multi[g])
  BY <1>2, <1>3, <1>4, FS_CountingElements, FiniteOperations DEF Ops
<1>6. ASSUME NEW op \in Range(Multi[g])
      PROVE  GroupOf(op) = g /\ Poster[op] = Poster[Multi[g][1]]
  <2>1. \A h \in Groups : op \in Range(Multi[h]) => h = g
    BY MultiPartition
  <2>2. GroupOf(op) = g
    BY <2>1 DEF GroupOf
  <2> QED
    BY <1>1, <2>2 DEF Range
<1>7. Poster[Multi[g][1]] \in Threads
  BY <1>2, PosterType DEF Ops
<1> QED
  BY <1>1, <1>2, <1>3, <1>5, <1>6, <1>7

\* Where a thread is after a step on its stack.
LEMMA PushTop ==
  ASSUME LockTypeOK, NEW t \in Threads, NEW f \in Frames, Push(t, <<f>>)
  PROVE  /\ \A q \in Threads \ {t} : stack'[q] = stack[q]
         /\ \A l : At(t, l)' <=> f.at = l
         /\ OpOf(t)' = f.op
<1>1. stack[t] \in Seq(Frames)
  BY DEF LockTypeOK
<1>2. PICK u : u = stack[t] \o <<f>>
  OBVIOUS
<1>3. u \in Seq(Frames) /\ Len(u) = Len(stack[t]) + 1 /\ u[Len(u)] = f
  BY <1>1, <1>2, PushProperties
<1>4. u # << >> /\ Last(u) = f
  BY <1>1, <1>3 DEF Last
<1>5. stack'[t] = u /\ \A q \in Threads \ {t} : stack'[q] = stack[q]
  BY <1>2 DEF Push, LockTypeOK
<1> QED
  BY <1>4, <1>5 DEF At, InProgram, OpOf

LEMMA PushTwoTop ==
  ASSUME LockTypeOK, NEW t \in Threads, NEW s \in Seq(Frames), NEW c \in Frames,
         stack' = [stack EXCEPT ![t] = s \o <<c>>]
  PROVE  /\ \A q \in Threads \ {t} : stack'[q] = stack[q]
         /\ \A l : At(t, l)' <=> c.at = l
<1>1. PICK u : u = s \o <<c>>
  OBVIOUS
<1>2. u \in Seq(Frames) /\ Len(u) = Len(s) + 1 /\ u[Len(u)] = c
  BY <1>1, PushProperties
<1>3. u # << >> /\ Last(u) = c
  BY <1>2 DEF Last
<1>4. stack'[t] = u /\ \A q \in Threads \ {t} : stack'[q] = stack[q]
  BY <1>1 DEF LockTypeOK
<1> QED
  BY <1>3, <1>4 DEF At, InProgram

LEMMA GotoTop ==
  ASSUME LockTypeOK, NEW t \in Threads, ~InProgram(t),
         NEW l \in {"lockWorker", "post", "recvs", "cancel", "unlock"}, Goto(t, l)
  PROVE  /\ \A q \in Threads \ {t} : stack'[q] = stack[q]
         /\ ~At(t, "multi")'
<1>1. /\ stack[t] \in Seq(Frames) /\ stack[t] # << >> /\ Len(stack[t]) \in Nat \ {0}
      /\ [Last(stack[t]) EXCEPT !.at = l] = Frame(l, OpOf(t))
      /\ OpOf(t) \in Ops \cup Groups \cup {None}
  BY TopOfStack
<1>2. PICK f : f = Frame(l, OpOf(t))
  OBVIOUS
<1>3. f \in Frames /\ f.at = l
  BY <1>1, <1>2, FrameType
<1>4. PICK u : u = Append(Front(stack[t]), f)
  OBVIOUS
<1>5. u \in Seq(Frames) /\ Len(u) = Len(stack[t]) /\ u[Len(stack[t])] = f
  BY <1>1, <1>3, <1>4, ReplaceProperties
<1>6. u # << >> /\ Last(u) = f
  BY <1>1, <1>5 DEF Last
<1>7. stack'[t] = u /\ \A q \in Threads \ {t} : stack'[q] = stack[q]
  BY <1>1, <1>2, <1>4 DEF Goto, LockTypeOK
<1> QED
  BY <1>3, <1>6, <1>7 DEF At, InProgram

LEMMA ReturnTop ==
  ASSUME LockTypeOK, StackInv, NEW t \in Threads, ~InProgram(t), Return(t)
  PROVE  /\ \A q \in Threads \ {t} : stack'[q] = stack[q]
         /\ ~At(t, "multi")'
<1>1. PICK s : s = stack[t]
  OBVIOUS
<1>2. PICK u : u = Front(s)
  OBVIOUS
<1>3. s \in Seq(Frames) /\ s # << >>
  BY <1>1 DEF LockTypeOK, InProgram
<1>4. /\ u \in Seq(Frames) /\ Len(u) = Len(s) - 1 /\ Len(s) \in Nat \ {0}
      /\ \A k \in 1 .. Len(s) - 1 : u[k] = s[k]
  BY <1>2, <1>3, PopProperties
<1>5. stack'[t] = u /\ \A q \in Threads \ {t} : stack'[q] = stack[q]
  BY <1>1, <1>2 DEF Return, LockTypeOK
<1>6. ASSUME u # << >>
      PROVE  Last(u).at # "multi"
  <2>1. /\ Len(u) \in 1 .. Len(s) - 1 /\ Len(u) \in 1 .. Len(s) /\ Len(u) < Len(s)
        /\ Last(u) = u[Len(u)]
    BY <1>4, <1>6 DEF Last
  <2>2. Last(u) = s[Len(u)]
    BY <1>4, <2>1
  <2>3. Last(u).at \in Covered
    BY <1>1, <2>1, <2>2 DEF StackInv, CallsNest
  <2> QED
    BY <2>3 DEF Covered
<1> QED
  BY <1>5, <1>6 DEF At, InProgram

LEMMA MultiStays ==
  ASSUME NEW t \in Threads, \A q \in Threads \ {t} : stack'[q] = stack[q],
         ~At(t, "multi"), ~At(t, "multi")'
  PROVE  \A g \in Groups : InMulti(g)' <=> InMulti(g)
<1> SUFFICES ASSUME NEW g \in Groups
             PROVE  InMulti(g)' <=> InMulti(g)
  OBVIOUS
<1>1. PICK q \in Threads : q = Poster[Multi[g][1]]
  BY GroupProperties
<1>2. CASE q = t
  BY <1>1, <1>2 DEF InMulti
<1>3. CASE q # t
  BY <1>1, <1>3 DEF InMulti, At, InProgram, OpOf
<1> QED
  BY <1>2, <1>3

\* The steps outside of send_multi.
LEMMA OutsideMulti ==
  ASSUME LifeInv, NEW t \in Threads,
         \/ CallbackReturns(t) \/ Lock(t) \/ Unlock(t) \/ Progress(t)
         \/ \E op \in Recvs : PostRecv(t, op) \/ Cancel(t, op)
         \/ RecvEarly(t) \/ RecvEarlyDone(t) \/ RecvPending(t)
         \/ SendsDrained(t) \/ RecvDone(t) \/ RecvsDrained(t)
         \/ WaitRound(t) \/ CancelRecv(t)
         \/ \E op \in Ops : Wait(t, op)
         \/ CompleteRecv(t)
  PROVE  \A g \in Groups : InMulti(g)' <=> InMulti(g)
<1>0. LockTypeOK /\ StackInv
  BY DEF LifeInv
<1>1. ~At(t, "multi")
  BY DEF CallbackReturns, Lock, Unlock, Progress, PostRecv, Cancel, RecvEarly, RecvEarlyDone,
     RecvPending, SendsDrained, RecvDone, RecvsDrained, WaitRound, CancelRecv, Wait, Mine,
     CompleteRecv, At, Labels
<1> SUFFICES \/ /\ \A q \in Threads \ {t} : stack'[q] = stack[q]
                /\ ~At(t, "multi")'
             \/ \A g \in Groups : InMulti(g)' <=> InMulti(g)
  BY <1>1, MultiStays
<1>2. CASE ~InProgram(t) /\ Return(t)
  BY <1>0, <1>2, ReturnTop
<1>3. CASE \E l \in {"lockWorker", "post", "recvs", "cancel", "unlock"} : ~InProgram(t) /\ Goto(t, l)
  BY <1>0, <1>3, GotoTop
<1>4. CASE \E f \in Frames : f.at # "multi" /\ Push(t, <<f>>)
  BY <1>0, <1>4, PushTop
<1>5. CASE \E s \in Seq(Frames) : \E c \in Frames :
             c.at # "multi" /\ stack' = [stack EXCEPT ![t] = s \o <<c>>]
  BY <1>0, <1>5, PushTwoTop
<1>6. CASE UNCHANGED stack
  BY <1>6 DEF InMulti, At, InProgram, OpOf
<1>7. CASE CallbackReturns(t) \/ Unlock(t) \/ RecvDone(t) \/ (WaitRound(t) /\ OpOf(t) \notin held)
  BY <1>2, <1>7 DEF CallbackReturns, Unlock, RecvDone, WaitRound, At
<1>8. CASE Lock(t)
  <2>1. PICK l : l = Labels[Last(stack[t]).at]
    OBVIOUS
  <2>2. /\ ~InProgram(t) /\ Goto(t, l)
        /\ Last(stack[t]).at \in {"lockRecv", "lockWorker", "lockCancel"}
    BY <1>8, <2>1 DEF Lock, Labels
  <2>3. l \in {"post", "recvs", "cancel"}
    BY <2>1, <2>2 DEF Labels
  <2> QED
    BY <1>3, <2>2, <2>3
<1>9. CASE RecvEarlyDone(t) \/ RecvPending(t) \/ SendsDrained(t) \/ RecvsDrained(t) \/ CancelRecv(t)
  <2>1. ~InProgram(t) /\ (Goto(t, "lockWorker") \/ Goto(t, "unlock"))
    BY <1>9 DEF RecvEarlyDone, RecvPending, SendsDrained, RecvsDrained, CancelRecv, At
  <2> QED
    BY <1>3, <2>1
<1>10. \A op \in Recvs : op \in Ops
  BY DEF Ops
<1>11. CASE Progress(t) \/ (\E op \in Recvs : PostRecv(t, op)) \/ (\E op \in Ops : Wait(t, op))
            \/ (WaitRound(t) /\ OpOf(t) \in held)
  <2>1. PICK l \in {"sends", "lockRecv", "wait"}, o \in Ops \cup Groups \cup {None} : Push(t, <<Frame(l, o)>>)
    <3>1. CASE WaitRound(t) /\ OpOf(t) \in held
      <4>1. Push(t, <<Frame("sends", OpOf(t))>>) /\ OpOf(t) \in Ops \cup Groups \cup {None}
        BY <1>0, <3>1, TopOfStack DEF WaitRound, At
      <4> QED
        BY <4>1
    <3> QED
      BY <1>10, <1>11, <3>1 DEF Progress, PostRecv, Wait
  <2>2. PICK f : f = Frame(l, o)
    OBVIOUS
  <2>3. f \in Frames /\ f.at # "multi"
    BY <2>2, FrameType
  <2> QED
    BY <1>4, <2>1, <2>2, <2>3
<1>12. ASSUME NEW op \in Recvs, Cancel(t, op)
       PROVE  \/ /\ \A q \in Threads \ {t} : stack'[q] = stack[q]
                 /\ ~At(t, "multi")'
              \/ \A g \in Groups : InMulti(g)' <=> InMulti(g)
  <2>1. PICK f : f = Frame("wait", op)
    OBVIOUS
  <2>2. PICK c : c = Frame("lockCancel", op)
    OBVIOUS
  <2>3. f \in Frames /\ f.at = "wait" /\ c \in Frames /\ c.at = "lockCancel"
    BY <2>1, <2>2, FrameType DEF Ops
  <2>4. CASE op \in Futures
    <3>1. Push(t, <<f>> \o <<c>>)
      BY <1>12, <2>1, <2>2, <2>4 DEF Cancel
    <3>2. PICK s : s = stack[t] \o <<f>>
      OBVIOUS
    <3>3. s \in Seq(Frames) /\ stack[t] \o (<<f>> \o <<c>>) = s \o <<c>>
      BY <1>0, <2>3, <3>2, ConcatAssociative DEF LockTypeOK
    <3>4. stack' = [stack EXCEPT ![t] = s \o <<c>>]
      BY <3>1, <3>3 DEF Push
    <3> QED
      BY <1>5, <2>3, <3>3, <3>4
  <2>5. CASE op \notin Futures
    <3>1. Push(t, << >> \o <<c>>)
      BY <1>12, <2>2, <2>5 DEF Cancel
    <3>2. Push(t, <<c>>)
      BY <2>3, <3>1
    <3> QED
      BY <1>4, <2>3, <3>2
  <2> QED
    BY <2>4, <2>5
<1>13. CASE CompleteRecv(t)
  <2>1. PICK op \in Recvs : IF op \in Futures THEN UNCHANGED stack
                            ELSE Push(t, <<Frame("received", op)>> \o Callback(op))
    BY <1>13 DEF CompleteRecv
  <2>2. CASE op \notin Futures
    <3>1. PICK f : f = Frame("received", op)
      OBVIOUS
    <3>2. PICK c : c = Frame("callback", op)
      OBVIOUS
    <3>3. f \in Frames /\ c \in Frames /\ c.at = "callback"
      BY <3>1, <3>2, FrameType DEF Ops
    <3>4. PICK s : s = stack[t] \o <<f>>
      OBVIOUS
    <3>5. s \in Seq(Frames) /\ stack[t] \o (<<f>> \o <<c>>) = s \o <<c>>
      BY <1>0, <3>3, <3>4, ConcatAssociative DEF LockTypeOK
    <3>6. stack' = [stack EXCEPT ![t] = s \o <<c>>]
      BY <2>1, <2>2, <3>1, <3>2, <3>5 DEF Push, Callback
    <3> QED
      BY <1>5, <3>3, <3>5, <3>6
  <2> QED
    BY <1>6, <2>1, <2>2
<1>14. CASE RecvEarly(t)
  <2>1. ~InProgram(t)
    BY <1>14 DEF RecvEarly, At
  <2>2. CASE Goto(t, "unlock")
    BY <1>3, <2>1, <2>2
  <2>3. CASE OpOf(t) \notin Futures
    <3>1. /\ stack[t] \in Seq(Frames) /\ stack[t] # << >>
          /\ [Last(stack[t]) EXCEPT !.at = "early"] = Frame("early", OpOf(t))
          /\ OpOf(t) \in Ops \cup Groups \cup {None}
      BY <1>0, <2>1, TopOfStack
    <3>2. PICK f : f = Frame("early", OpOf(t))
      OBVIOUS
    <3>3. PICK c : c = Frame("callback", OpOf(t))
      OBVIOUS
    <3>4. f \in Frames /\ c \in Frames /\ c.at = "callback"
      BY <3>1, <3>2, <3>3, FrameType
    <3>5. PICK s : s = Append(Front(stack[t]), f)
      OBVIOUS
    <3>6. s \in Seq(Frames)
      BY <3>1, <3>4, <3>5, ReplaceProperties
    <3>7. stack' = [stack EXCEPT ![t] = s \o <<c>>]
      BY <1>14, <2>3, <3>1, <3>2, <3>3, <3>5 DEF RecvEarly, GotoAndPush, Callback
    <3> QED
      BY <1>5, <3>4, <3>6, <3>7
  <2> QED
    BY <1>14, <2>2, <2>3 DEF RecvEarly
<1> QED
  BY <1>7, <1>8, <1>9, <1>11, <1>12, <1>13, <1>14

MultiTypeOK == /\ counter \in [Groups -> Nat]
               /\ refs \in [Groups -> Nat]
               /\ notified \in [Groups -> Nat]

Of(g) == Range(Multi[g])
Unsent(g) == {op \in Of(g) : ucp[op] = "none"}
UnderWay(g) == {op \in Of(g) : ucp[op] \in {"active", "ready"}}
Waiting(g) == {op \in Of(g) : calls[op] = 0}

\* What a call of send_multi with a callback leaves in the message it shares.
MultiOK(g) ==
  /\ ~InMulti(g) => Unsent(g) = {} \/ Unsent(g) = Of(g)
  /\ InMulti(g) => refs[g] = Cardinality(UnderWay(g)) + 1
  /\ ~InMulti(g) => refs[g] = Cardinality(UnderWay(g))
  /\ InMulti(g) \/ Unsent(g) # Of(g) => counter[g] = Cardinality(Waiting(g))
  /\ Waiting(g) = {} => notified[g] = 1
  /\ Waiting(g) # {} => notified[g] = 0

MultiInv == /\ MultiTypeOK
            /\ Futures = {} => \A g \in Groups : MultiOK(g)

\* The parts of a call of send_multi can be counted.
LEMMA FiniteParts ==
  ASSUME NEW g \in Groups
  PROVE  /\ IsFiniteSet(UnderWay(g)) /\ Cardinality(UnderWay(g)) \in Nat
         /\ IsFiniteSet(Waiting(g)) /\ Cardinality(Waiting(g)) \in Nat
<1>1. Of(g) \subseteq Ops
  BY GroupProperties DEF Of, Ops
<1>2. UnderWay(g) \subseteq Ops /\ Waiting(g) \subseteq Ops
  BY <1>1 DEF UnderWay, Waiting
<1> QED
  BY <1>2, FiniteOperations

\* Steps that leave a group alone.
LEMMA GroupKept ==
  ASSUME NEW g \in Groups, MultiOK(g), InMulti(g)' <=> InMulti(g),
         refs'[g] = refs[g], counter'[g] = counter[g], notified'[g] = notified[g],
         \A op \in Of(g) : /\ ucp'[op] = "none" <=> ucp[op] = "none"
                           /\ ucp'[op] \in {"active", "ready"} <=> ucp[op] \in {"active", "ready"}
                           /\ calls'[op] = calls[op]
  PROVE  MultiOK(g)'
<1>1. /\ Of(g)' = Of(g) /\ Unsent(g)' = Unsent(g)
      /\ UnderWay(g)' = UnderWay(g) /\ Waiting(g)' = Waiting(g)
  BY DEF Of, Unsent, UnderWay, Waiting
<1> QED
  BY <1>1 DEF MultiOK

\* Steps that leave all groups alone.
LEMMA MultiKept ==
  ASSUME MultiInv, UNCHANGED <<style, multis>>,
         \A g \in Groups : InMulti(g)' <=> InMulti(g),
         \A op \in Sends : /\ ucp'[op] = "none" <=> ucp[op] = "none"
                           /\ ucp'[op] \in {"active", "ready"} <=> ucp[op] \in {"active", "ready"}
                           /\ calls'[op] = calls[op]
  PROVE  MultiInv'
<1>1. MultiTypeOK'
  BY DEF MultiInv, MultiTypeOK, multis
<1>2. ASSUME Futures = {}, NEW g \in Groups
      PROVE  MultiOK(g)'
  <2>1. Of(g) \subseteq Sends
    BY GroupProperties DEF Of
  <2> QED
    BY <1>2, <2>1, GroupKept DEF MultiInv, multis
<1>3. Futures' = {} => Futures = {}
  BY StyleCases
<1> QED
  BY <1>1, <1>2, <1>3 DEF MultiInv

\* The callback of one send of a group runs.
LEMMA SendCounts ==
  ASSUME LifeInv, MultiInv, Futures = {}, NEW op \in Sends, calls[op] = 0,
         Invoke(op), CountDown(op),
         NEW g \in Groups, g = GroupOf(op), op \in Of(g), InMulti(g) \/ ucp[op] # "none"
  PROVE  /\ counter' \in [Groups -> Nat] /\ notified' \in [Groups -> Nat]
         /\ counter'[g] = Cardinality(Waiting(g)')
         /\ Waiting(g)' = {} => notified'[g] = 1
         /\ Waiting(g)' # {} => notified'[g] = 0
         /\ \A h \in Groups \ {g} : counter'[h] = counter[h] /\ notified'[h] = notified[h]
<1>1. /\ calls' = [calls EXCEPT ![op] = @ + 1] /\ calls \in [Ops -> Nat] /\ op \in Ops
      /\ counter' = [counter EXCEPT ![g] = @ - 1]
      /\ notified' = [notified EXCEPT ![g] = IF counter[g] = 1 THEN @ + 1 ELSE @]
      /\ counter \in [Groups -> Nat] /\ notified \in [Groups -> Nat]
  BY DEF Invoke, CountDown, LifeInv, RequestInv, RequestTypeOK, MultiInv, MultiTypeOK, Ops
<1>2. calls'[op] = 1 /\ \A o \in Ops \ {op} : calls'[o] = calls[o]
  BY <1>1
<1>3. PICK W : W = Waiting(g)
  OBVIOUS
<1>4. op \in W /\ IsFiniteSet(W) /\ Cardinality(W) \in Nat
  BY <1>3, FiniteParts DEF Waiting
<1>5. Of(g) \subseteq Ops /\ Of(g)' = Of(g)
  BY GroupProperties DEF Of, Ops
<1>6. Waiting(g)' = W \ {op}
  BY <1>2, <1>3, <1>5 DEF Waiting
<1>7. /\ Cardinality(W \ {op}) = Cardinality(W) - 1
      /\ Cardinality(W \ {op}) \in Nat
  BY <1>4, FS_RemoveElement, FS_CardinalityType
<1>8. /\ counter[g] = Cardinality(W) /\ notified[g] = 0
  <2>1. MultiOK(g)
    BY DEF MultiInv
  <2>2. InMulti(g) \/ Unsent(g) # Of(g)
    BY DEF Unsent
  <2>3. Waiting(g) # {}
    BY <1>3, <1>4
  <2> QED
    BY <1>3, <2>1, <2>2, <2>3 DEF MultiOK
<1>9. counter'[g] = Cardinality(W) - 1 /\ counter'[g] \in Nat
  BY <1>1, <1>7, <1>8
<1>10. W \ {op} = {} <=> Cardinality(W) = 1
  <2>1. Cardinality(W \ {op}) = 0 <=> W \ {op} = {}
    BY <1>4, FS_RemoveElement, FS_EmptySet
  <2> QED
    BY <1>4, <1>7, <2>1
<1>11. /\ Cardinality(W) = 1 => notified'[g] = 1
       /\ Cardinality(W) # 1 => notified'[g] = 0
  BY <1>1, <1>8
<1>12. counter' \in [Groups -> Nat]
  BY <1>1, <1>9
<1>13. notified' \in [Groups -> Nat]
  <2>1. CASE counter[g] = 1
    BY <1>1, <2>1
  <2>2. CASE counter[g] # 1
    BY <1>1, <2>2
  <2> QED
    BY <2>1, <2>2
<1>14. \A h \in Groups \ {g} : counter'[h] = counter[h] /\ notified'[h] = notified[h]
  BY <1>1
<1> QED
  BY <1>6, <1>7, <1>9, <1>10, <1>11, <1>12, <1>13, <1>14

\* The call begins: the counter is set, the message has one owner.
LEMMA MultiStepSendMulti ==
  ASSUME LifeInv, MultiInv, NEW t \in Threads, NEW g \in Groups, SendMulti(t, g)
  PROVE  MultiInv'
<1>0. /\ InProgram(t) /\ Poster[Multi[g][1]] = t /\ ToSend(g) = DOMAIN Multi[g]
      /\ counter' = [counter EXCEPT ![g] = Len(Multi[g])]
      /\ refs' = [refs EXCEPT ![g] = IF Shares(g) THEN 1 ELSE 0]
      /\ Push(t, <<Frame("multi", g)>>)
      /\ UNCHANGED <<style, ucp, calls, notified>>
      /\ LockTypeOK
  BY DEF SendMulti, requests, mutex, LifeInv
<1>1. /\ Len(Multi[g]) \in Nat \ {0} /\ Of(g) # {}
      /\ Of(g) \subseteq Sends /\ Cardinality(Of(g)) = Len(Multi[g])
  BY GroupProperties DEF Of
<1>2. MultiTypeOK'
  BY <1>0, <1>1 DEF MultiInv, MultiTypeOK
<1>3. PICK f : f = Frame("multi", g)
  OBVIOUS
<1>4. f \in Frames /\ f.at = "multi" /\ f.op = g
  BY <1>3, FrameType
<1>5. /\ \A q \in Threads \ {t} : stack'[q] = stack[q]
      /\ At(t, "multi")' /\ OpOf(t)' = g
  BY <1>0, <1>3, <1>4, PushTop
<1>6. ASSUME NEW h \in Groups, h # g
      PROVE  InMulti(h)' <=> InMulti(h)
  <2>1. PICK q \in Threads : q = Poster[Multi[h][1]]
    BY GroupProperties
  <2>2. CASE q = t
    BY <1>0, <1>5, <1>6, <2>1, <2>2 DEF InMulti, At
  <2>3. CASE q # t
    BY <1>5, <2>1, <2>3 DEF InMulti, At, InProgram, OpOf
  <2> QED
    BY <2>2, <2>3
<1>7. InMulti(g)'
  BY <1>0, <1>5 DEF InMulti
<1>8. \A op \in Of(g) : ucp[op] = "none"
  BY <1>0 DEF ToSend, Of, Range
<1>9. \A op \in Of(g) : calls[op] = 0
  BY <1>1, <1>8 DEF LifeInv, RequestInv, SendInv, SendOK
<1>10. ASSUME Futures = {}
       PROVE  MultiOK(g)'
  <2>1. /\ Of(g)' = Of(g) /\ Unsent(g)' = Of(g) /\ UnderWay(g)' = {} /\ Waiting(g)' = Of(g)
        /\ Waiting(g) = Of(g)
    BY <1>0, <1>8, <1>9 DEF Of, Unsent, UnderWay, Waiting
  <2>2. Shares(g)
    BY <1>10 DEF Shares
  <2>3. refs'[g] = 1 /\ counter'[g] = Len(Multi[g]) /\ notified'[g] = notified[g]
    BY <1>0, <2>2 DEF MultiInv, MultiTypeOK
  <2>4. Cardinality({}) + 1 = 1
    BY FS_EmptySet
  <2>5. notified[g] = 0
    BY <1>1, <1>10, <2>1 DEF MultiInv, MultiOK
  <2> QED
    BY <1>1, <1>7, <2>1, <2>3, <2>4, <2>5 DEF MultiOK
<1>11. ASSUME Futures = {}, NEW h \in Groups, h # g
       PROVE  MultiOK(h)'
  BY <1>0, <1>6, <1>11, GroupKept DEF MultiInv, MultiTypeOK
<1>12. Futures' = {} => Futures = {}
  BY <1>0, StyleCases
<1> QED
  BY <1>2, <1>10, <1>11, <1>12 DEF MultiInv

\* The sends of other groups.
LEMMA OtherGroups ==
  ASSUME NEW g \in Groups, NEW h \in Groups, g # h
  PROVE  Of(g) \cap Of(h) = {}
BY MultiPartition DEF Of

\* A call of send_multi goes on.
LEMMA InCallOf ==
  ASSUME LifeInv, NEW t \in Threads, At(t, "multi")
  PROVE  OpOf(t) \in Groups /\ InMulti(OpOf(t)) /\ Poster[Multi[OpOf(t)][1]] = t
<1>1. CallOK(t, Last(stack[t])) /\ OpOf(t) = Last(stack[t]).op /\ Last(stack[t]).at = "multi"
  BY TopCall DEF LifeInv, At
<1> QED
  BY <1>1 DEF CallOK, InMulti

\* The call returns, and lets go of the message.
LEMMA MultiStepReturns ==
  ASSUME LifeInv, MultiInv, NEW t \in Threads, SendMultiReturns(t)
  PROVE  MultiInv'
<1>a. PICK g : g = OpOf(t)
  OBVIOUS
<1>0. /\ LockTypeOK /\ StackInv /\ ~InProgram(t) /\ At(t, "multi") /\ Return(t)
      /\ ToSend(g) = {}
      /\ refs' = [refs EXCEPT ![g] = IF Shares(g) THEN @ - 1 ELSE @]
      /\ UNCHANGED <<style, ucp, calls, counter, notified>>
  BY <1>a DEF SendMultiReturns, At, LifeInv, mutex, requests
<1>1. g \in Groups /\ InMulti(g) /\ Poster[Multi[g][1]] = t
  BY <1>a, <1>0, InCallOf
<1>2. /\ \A q \in Threads \ {t} : stack'[q] = stack[q]
      /\ ~At(t, "multi")'
  BY <1>0, ReturnTop
<1>3. ~InMulti(g)'
  BY <1>1, <1>2 DEF InMulti
<1>4. ASSUME NEW h \in Groups, h # g
      PROVE  InMulti(h)' <=> InMulti(h)
  <2>1. PICK q \in Threads : q = Poster[Multi[h][1]]
    BY GroupProperties
  <2>2. CASE q = t
    BY <1>a, <1>2, <1>4, <2>1, <2>2 DEF InMulti
  <2>3. CASE q # t
    BY <1>2, <2>1, <2>3 DEF InMulti, At, InProgram, OpOf
  <2> QED
    BY <2>2, <2>3
<1>5. Futures' = Futures /\ (Shares(g) <=> Futures = {})
  <2>1. /\ Range(Multi[g]) \subseteq Ops /\ Range(Multi[g]) # {}
    BY <1>1, GroupProperties DEF Ops
  <2> QED
    BY <1>0, <2>1, StyleCases DEF Shares
<1>6. CASE Futures # {}
  BY <1>0, <1>5, <1>6 DEF MultiInv, MultiTypeOK
<1>7. CASE Futures = {}
  <2>0. MultiOK(g)
    BY <1>1, <1>7 DEF MultiInv
  <2>1. /\ refs[g] = Cardinality(UnderWay(g)) + 1 /\ Cardinality(UnderWay(g)) \in Nat
        /\ refs' = [refs EXCEPT ![g] = @ - 1] /\ refs \in [Groups -> Nat]
    BY <1>0, <1>1, <1>5, <1>7, <2>0, FiniteParts DEF MultiOK, MultiInv, MultiTypeOK
  <2>2. refs'[g] = Cardinality(UnderWay(g)) /\ refs' \in [Groups -> Nat]
    BY <1>1, <2>1
  <2>3. MultiTypeOK'
    BY <1>0, <2>2 DEF MultiInv, MultiTypeOK
  <2>4. Unsent(g)' = {}
    <3>1. \A op \in Of(g) : ucp[op] # "none"
      BY <1>0 DEF ToSend, Of, Range
    <3> QED
      BY <1>0, <3>1 DEF Unsent, Of
  <2>5. /\ Of(g)' = Of(g) /\ UnderWay(g)' = UnderWay(g) /\ Waiting(g)' = Waiting(g)
    BY <1>0 DEF Of, UnderWay, Waiting
  <2>6. counter[g] = Cardinality(Waiting(g))
    BY <1>1, <2>0 DEF MultiOK
  <2>7. MultiOK(g)'
    BY <1>0, <1>3, <2>0, <2>2, <2>4, <2>5, <2>6 DEF MultiOK
  <2>8. ASSUME NEW h \in Groups, h # g
        PROVE  MultiOK(h)'
    BY <1>0, <1>4, <1>7, <2>1, <2>8, GroupKept DEF MultiInv
  <2> QED
    BY <2>3, <2>7, <2>8 DEF MultiInv
<1> QED
  BY <1>6, <1>7

\* A send that is under way owns the message too.
LEMMA MultiStepSendPending ==
  ASSUME LifeInv, MultiInv, NEW t \in Threads, SendPending(t)
  PROVE  MultiInv'
<1>a. PICK g : g = OpOf(t)
  OBVIOUS
<1>b. PICK op : op = NextSend(g)
  OBVIOUS
<1>0. /\ At(t, "multi") /\ ToSend(g) # {}
      /\ ucp' = [ucp EXCEPT ![op] = "active"]
      /\ refs' = [refs EXCEPT ![g] = IF Shares(g) THEN @ + 1 ELSE @]
      /\ UNCHANGED <<style, stack, calls, counter, notified>>
  BY <1>a, <1>b DEF SendPending, mutex
<1>1. g \in Groups /\ InMulti(g)
  BY <1>a, <1>0, InCallOf
<1>2. op \in Of(g) /\ op \in Sends /\ ucp[op] = "none"
  BY <1>a, <1>b, <1>0, NextSendProperties DEF Of
<1>3. \A h \in Groups : InMulti(h)' <=> InMulti(h)
  BY <1>0 DEF InMulti, At, InProgram, OpOf
<1>4. ucp'[op] = "active" /\ \A o \in Ops \ {op} : ucp'[o] = ucp[o]
  BY <1>0, <1>2 DEF LifeInv, RequestInv, RequestTypeOK, Ops
<1>5. Futures' = Futures /\ (Shares(g) <=> Futures = {})
  <2>1. /\ Range(Multi[g]) \subseteq Ops /\ Range(Multi[g]) # {}
    BY <1>1, GroupProperties DEF Ops
  <2> QED
    BY <1>0, <2>1, StyleCases DEF Shares
<1>6. CASE Futures # {}
  BY <1>0, <1>5, <1>6 DEF MultiInv, MultiTypeOK
<1>7. CASE Futures = {}
  <2>0. MultiOK(g)
    BY <1>1, <1>7 DEF MultiInv
  <2>1. refs' = [refs EXCEPT ![g] = @ + 1] /\ refs \in [Groups -> Nat]
    BY <1>0, <1>5, <1>7 DEF MultiInv, MultiTypeOK
  <2>2. MultiTypeOK'
    <3>1. refs' \in [Groups -> Nat]
      BY <1>1, <2>1
    <3> QED
      BY <1>0, <3>1 DEF MultiInv, MultiTypeOK
  <2>3. Of(g) \subseteq Ops /\ Of(g)' = Of(g)
    BY <1>1, GroupProperties DEF Of, Ops
  <2>4. PICK U : U = UnderWay(g)
    OBVIOUS
  <2>5. UnderWay(g)' = U \cup {op} /\ op \notin U
    BY <1>2, <1>4, <2>3, <2>4 DEF UnderWay
  <2>6. Cardinality(U \cup {op}) = Cardinality(U) + 1
    BY <1>1, <2>4, <2>5, FiniteParts, FS_AddElement
  <2>7. Waiting(g)' = Waiting(g)
    BY <1>0, <2>3 DEF Waiting
  <2>8. refs'[g] = refs[g] + 1 /\ refs[g] = Cardinality(U) + 1
    BY <1>1, <2>0, <2>1, <2>4 DEF MultiOK
  <2>9. InMulti(g)' /\ counter[g] = Cardinality(Waiting(g))
    BY <1>1, <1>3, <2>0 DEF MultiOK
  <2>10. refs'[g] = Cardinality(UnderWay(g)') + 1
    BY <2>5, <2>6, <2>8
  <2>11. MultiOK(g)'
    BY <1>0, <2>0, <2>7, <2>9, <2>10 DEF MultiOK
  <2>12. ASSUME NEW h \in Groups, h # g
         PROVE  MultiOK(h)'
    <3>1. /\ op \notin Of(h) /\ Of(h) \subseteq Ops
      BY <1>1, <1>2, <2>12, OtherGroups, GroupProperties DEF Of, Ops
    <3>2. \A o \in Of(h) : ucp'[o] = ucp[o]
      BY <1>4, <3>1
    <3> QED
      BY <1>0, <1>3, <1>7, <2>1, <2>12, <3>2, GroupKept DEF MultiInv
  <2> QED
    BY <2>2, <2>11, <2>12 DEF MultiInv
<1> QED
  BY <1>6, <1>7

\* A send that is done at once counts down.
LEMMA MultiStepSendNow ==
  ASSUME LifeInv, MultiInv, NEW t \in Threads, SendNow(t)
  PROVE  MultiInv'
<1>a. PICK g : g = OpOf(t)
  OBVIOUS
<1>b. PICK op : op = NextSend(g)
  OBVIOUS
<1>0. /\ At(t, "multi") /\ ToSend(g) # {}
      /\ ucp' = [ucp EXCEPT ![op] = "over"] /\ Invoke(op) /\ CountDown(op)
      /\ UNCHANGED <<style, stack, refs>>
  BY <1>a, <1>b DEF SendNow, mutex
<1>1. g \in Groups /\ InMulti(g)
  BY <1>a, <1>0, InCallOf
<1>2. op \in Of(g) /\ op \in Sends /\ ucp[op] = "none" /\ op \in Ops
  BY <1>a, <1>b, <1>0, NextSendProperties DEF Of, Ops
<1>3. \A h \in Groups : InMulti(h)' <=> InMulti(h)
  BY <1>0 DEF InMulti, At, InProgram, OpOf
<1>4. ucp'[op] = "over" /\ \A o \in Ops \ {op} : ucp'[o] = ucp[o]
  BY <1>0, <1>2 DEF LifeInv, RequestInv, RequestTypeOK, Ops
<1>5. Futures' = Futures /\ (Futures = {} \/ Futures = Ops)
  BY <1>0, StyleCases
<1>6. CASE Futures = Ops
  BY <1>0, <1>2, <1>5, <1>6 DEF MultiInv, MultiTypeOK, CountDown
<1>7. CASE Futures = {}
  <2>0. MultiOK(g)
    BY <1>1, <1>7 DEF MultiInv
  <2>1. calls[op] = 0 /\ g = GroupOf(op)
    BY <1>1, <1>2, GroupProperties DEF LifeInv, RequestInv, SendInv, SendOK, Of
  <2>2. /\ counter' \in [Groups -> Nat] /\ notified' \in [Groups -> Nat]
        /\ counter'[g] = Cardinality(Waiting(g)')
        /\ Waiting(g)' = {} => notified'[g] = 1
        /\ Waiting(g)' # {} => notified'[g] = 0
        /\ \A h \in Groups \ {g} : counter'[h] = counter[h] /\ notified'[h] = notified[h]
    BY <1>0, <1>1, <1>2, <1>7, <2>1, SendCounts
  <2>3. MultiTypeOK'
    BY <1>0, <2>2 DEF MultiInv, MultiTypeOK
  <2>4. Of(g) \subseteq Ops /\ Of(g)' = Of(g)
    BY <1>1, GroupProperties DEF Of, Ops
  <2>5. UnderWay(g)' = UnderWay(g)
    BY <1>2, <1>4, <2>4 DEF UnderWay
  <2>6. MultiOK(g)'
    BY <1>0, <1>1, <1>3, <2>0, <2>2, <2>5 DEF MultiOK
  <2>7. ASSUME NEW h \in Groups, h # g
        PROVE  MultiOK(h)'
    <3>1. /\ op \notin Of(h) /\ Of(h) \subseteq Ops
      BY <1>1, <1>2, <2>7, OtherGroups, GroupProperties DEF Of, Ops
    <3>2. \A o \in Of(h) : ucp'[o] = ucp[o] /\ calls'[o] = calls[o]
      BY <1>0, <1>4, <3>1 DEF Invoke, LifeInv, RequestInv, RequestTypeOK
    <3> QED
      BY <1>0, <1>3, <1>7, <2>2, <2>7, <3>2, GroupKept DEF MultiInv
  <2> QED
    BY <2>3, <2>6, <2>7 DEF MultiInv
<1> QED
  BY <1>5, <1>6, <1>7

\* One that completes later counts down, and lets go of the message.
LEMMA MultiStepCompleteSend ==
  ASSUME LifeInv, MultiInv, NEW t \in Threads, CompleteSend(t)
  PROVE  MultiInv'
<1>a. PICK op \in Sends :
        /\ ucp[op] = "ready"
        /\ ucp' = [ucp EXCEPT ![op] = "over"] /\ Invoke(op) /\ CountDown(op)
        /\ refs' = [refs EXCEPT ![GroupOf(op)] = IF op \in Futures THEN @ ELSE @ - 1]
        /\ UNCHANGED <<style, stack>>
  BY DEF CompleteSend, mutex
<1>b. PICK g \in Groups : op \in Of(g)
  BY MultiPartition DEF Of
<1>1. g = GroupOf(op) /\ op \in Ops
  BY <1>b, GroupProperties DEF Of, Ops
<1>3. \A h \in Groups : InMulti(h)' <=> InMulti(h)
  BY <1>a DEF InMulti, At, InProgram, OpOf
<1>4. ucp'[op] = "over" /\ \A o \in Ops \ {op} : ucp'[o] = ucp[o]
  BY <1>a, <1>1 DEF LifeInv, RequestInv, RequestTypeOK
<1>5. Futures' = Futures /\ (Futures = {} \/ Futures = Ops)
  BY <1>a, StyleCases
<1>6. CASE Futures = Ops
  BY <1>a, <1>1, <1>5, <1>6 DEF MultiInv, MultiTypeOK, CountDown
<1>7. CASE Futures = {}
  <2>0. MultiOK(g)
    BY <1>7 DEF MultiInv
  <2>1. calls[op] = 0
    BY <1>a DEF LifeInv, RequestInv, SendInv, SendOK
  <2>2. /\ counter' \in [Groups -> Nat] /\ notified' \in [Groups -> Nat]
        /\ counter'[g] = Cardinality(Waiting(g)')
        /\ Waiting(g)' = {} => notified'[g] = 1
        /\ Waiting(g)' # {} => notified'[g] = 0
        /\ \A h \in Groups \ {g} : counter'[h] = counter[h] /\ notified'[h] = notified[h]
    BY <1>a, <1>b, <1>1, <1>7, <2>1, SendCounts
  <2>3. Of(g) \subseteq Ops /\ Of(g)' = Of(g)
    BY GroupProperties DEF Of, Ops
  <2>4. PICK U : U = UnderWay(g)
    OBVIOUS
  <2>5. UnderWay(g)' = U \ {op} /\ op \in U
    BY <1>a, <1>b, <1>4, <2>3, <2>4 DEF UnderWay
  <2>6. /\ Cardinality(U \ {op}) = Cardinality(U) - 1
        /\ Cardinality(U) \in Nat /\ Cardinality(U \ {op}) \in Nat
    BY <2>4, <2>5, FiniteParts, FS_RemoveElement, FS_CardinalityType
  <2>7. refs' = [refs EXCEPT ![g] = @ - 1] /\ refs \in [Groups -> Nat]
    BY <1>a, <1>1, <1>7 DEF MultiInv, MultiTypeOK
  <2>8. /\ InMulti(g) => refs[g] = Cardinality(U) + 1
        /\ ~InMulti(g) => refs[g] = Cardinality(U)
    BY <2>0, <2>4 DEF MultiOK
  <2>9. /\ InMulti(g) => refs'[g] = Cardinality(U \ {op}) + 1
        /\ ~InMulti(g) => refs'[g] = Cardinality(U \ {op})
        /\ refs'[g] \in Nat
    BY <2>6, <2>7, <2>8
  <2>10. MultiTypeOK'
    <3>1. refs' \in [Groups -> Nat]
      BY <2>7, <2>9
    <3> QED
      BY <2>2, <3>1 DEF MultiInv, MultiTypeOK
  <2>11. ~InMulti(g) => Unsent(g)' = {}
    <3>1. Unsent(g) # Of(g)
      BY <1>a, <1>b DEF Unsent
    <3>2. ~InMulti(g) => Unsent(g) = {}
      BY <2>0, <3>1 DEF MultiOK
    <3>3. Unsent(g)' \subseteq Unsent(g)
      BY <1>4, <2>3 DEF Unsent
    <3> QED
      BY <3>2, <3>3
  <2>12. MultiOK(g)'
    BY <1>3, <2>2, <2>5, <2>9, <2>11 DEF MultiOK
  <2>13. ASSUME NEW h \in Groups, h # g
         PROVE  MultiOK(h)'
    <3>1. /\ op \notin Of(h) /\ Of(h) \subseteq Ops
      BY <1>b, <2>13, OtherGroups, GroupProperties DEF Of, Ops
    <3>2. \A o \in Of(h) : ucp'[o] = ucp[o] /\ calls'[o] = calls[o]
      BY <1>a, <1>4, <3>1 DEF Invoke, LifeInv, RequestInv, RequestTypeOK
    <3>3. refs'[h] = refs[h]
      BY <2>7, <2>13
    <3> QED
      BY <1>3, <1>7, <2>2, <2>13, <3>2, <3>3, GroupKept DEF MultiInv
  <2> QED
    BY <1>5, <1>7, <2>10, <2>12, <2>13 DEF MultiInv
<1> QED
  BY <1>5, <1>6, <1>7

\* What a step on a receive leaves of the sends.
LEMMA SendsKept ==
  ASSUME LifeInv, NEW t \in Threads,
         \/ CallbackReturns(t) \/ Lock(t) \/ Unlock(t) \/ Progress(t)
         \/ \E op \in Recvs : PostRecv(t, op) \/ Cancel(t, op)
         \/ RecvEarly(t) \/ RecvEarlyDone(t) \/ RecvPending(t)
         \/ SendsDrained(t) \/ RecvDone(t) \/ RecvsDrained(t)
         \/ WaitRound(t) \/ CancelRecv(t)
         \/ \E op \in Ops : Wait(t, op)
         \/ CompleteRecv(t)
  PROVE  /\ UNCHANGED <<style, multis>>
         /\ \A op \in Sends : ucp'[op] = ucp[op] /\ calls'[op] = calls[op]
<1>0. LockTypeOK /\ StackInv /\ RequestTypeOK /\ Sends \subseteq Ops /\ Recvs \subseteq Ops
      /\ \A op \in Sends : op \notin Recvs
  BY OpsDisjoint DEF LifeInv, RequestInv, Ops
<1>1. UNCHANGED <<style, multis>>
  BY DEF CallbackReturns, Lock, Unlock, Progress, PostRecv, Cancel, RecvEarly, RecvEarlyDone,
     RecvPending, SendsDrained, RecvDone, RecvsDrained, WaitRound, CancelRecv, Wait, CompleteRecv,
     mutex
<1>2. CASE UNCHANGED <<ucp, calls>>
  BY <1>1, <1>2
<1>3. ASSUME NEW op \in Recvs, \E v \in {"active", "over"} : ucp' = [ucp EXCEPT ![op] = v],
             UNCHANGED calls \/ Invoke(op)
      PROVE  \A o \in Sends : ucp'[o] = ucp[o] /\ calls'[o] = calls[o]
  BY <1>0, <1>3 DEF Invoke, RequestTypeOK
<1>4. CASE RecvEarly(t) \/ RecvPending(t)
  <2>1. PICK op : op = OpOf(t)
    OBVIOUS
  <2>2. ~InProgram(t) /\ Last(stack[t]).at = "post"
    BY <1>4 DEF RecvEarly, RecvPending, At
  <2>3. op \in Recvs
    BY <1>0, <2>1, <2>2, TopCall DEF CallOK
  <2> QED
    BY <1>1, <1>3, <1>4, <2>1, <2>3 DEF RecvEarly, RecvPending
<1>5. CASE CompleteRecv(t)
  BY <1>1, <1>3, <1>5 DEF CompleteRecv
<1>6. CASE CancelRecv(t)
  <2>1. PICK op : op = OpOf(t)
    OBVIOUS
  <2>2. /\ op \in Recvs
        /\ UNCHANGED ucp \/ ucp' = [ucp EXCEPT ![op] = "over"]
    BY <1>6, <2>1, CancelRecvCases
  <2>3. UNCHANGED calls
    BY <1>6 DEF CancelRecv
  <2> QED
    BY <1>1, <1>3, <2>2, <2>3
<1>7. CASE ~(RecvEarly(t) \/ RecvPending(t) \/ CompleteRecv(t) \/ CancelRecv(t))
  <2>1. UNCHANGED <<ucp, calls>>
    BY <1>7 DEF CallbackReturns, Lock, Unlock, Progress, PostRecv, Cancel, RecvEarlyDone,
       SendsDrained, RecvDone, RecvsDrained, WaitRound, Wait, requests
  <2> QED
    BY <1>2, <2>1
<1> QED
  BY <1>4, <1>5, <1>6, <1>7

\* Steps of receives, and of UCX.
LEMMA MultiStepOther ==
  ASSUME LifeInv, MultiInv,
         \/ UNCHANGED vars
         \/ \E t \in Threads : \E op \in Ops : Test(t, op)
         \/ \E op \in Sends : SendReady(op)
         \/ \E op \in Recvs : Match(op)
  PROVE  MultiInv'
<1>1. UNCHANGED <<style, multis, stack, calls>>
  BY DEF vars, Test, SendReady, Match, mutex
<1>2. \A g \in Groups : InMulti(g)' <=> InMulti(g)
  BY <1>1 DEF InMulti, At, InProgram, OpOf
<1>3. /\ ucp \in [Ops -> {"none", "active", "ready", "over"}]
      /\ Sends \subseteq Ops /\ Recvs \subseteq Ops
  BY DEF LifeInv, RequestInv, RequestTypeOK, Ops
<1>4. UNCHANGED ucp \/ \E op \in Ops : ucp[op] = "active" /\ ucp' = [ucp EXCEPT ![op] = "ready"]
  BY <1>3 DEF vars, requests, Test, SendReady, Match
<1>5. \A op \in Sends : /\ ucp'[op] = "none" <=> ucp[op] = "none"
                        /\ ucp'[op] \in {"active", "ready"} <=> ucp[op] \in {"active", "ready"}
  BY <1>3, <1>4
<1> QED
  BY <1>1, <1>2, <1>5, MultiKept

\* Every step keeps MultiInv.
LEMMA MultiStep == LifeInv /\ MultiInv /\ [Next]_vars => MultiInv'
<1> SUFFICES ASSUME LifeInv, MultiInv, [Next]_vars
             PROVE  MultiInv'
  OBVIOUS
<1>1. ASSUME NEW t \in Threads,
             \/ CallbackReturns(t) \/ Lock(t) \/ Unlock(t) \/ Progress(t)
             \/ \E op \in Recvs : PostRecv(t, op) \/ Cancel(t, op)
             \/ RecvEarly(t) \/ RecvEarlyDone(t) \/ RecvPending(t)
             \/ SendsDrained(t) \/ RecvDone(t) \/ RecvsDrained(t)
             \/ WaitRound(t) \/ CancelRecv(t)
             \/ \E op \in Ops : Wait(t, op)
             \/ CompleteRecv(t)
      PROVE  MultiInv'
  <2>1. \A g \in Groups : InMulti(g)' <=> InMulti(g)
    BY <1>1, OutsideMulti
  <2>2. /\ UNCHANGED <<style, multis>>
        /\ \A op \in Sends : ucp'[op] = ucp[op] /\ calls'[op] = calls[op]
    BY <1>1, SendsKept
  <2> QED
    BY <2>1, <2>2, MultiKept
<1>2. ASSUME NEW t \in Threads, Program(t) \/ Progress(t) \/ Lock(t)
      PROVE  MultiInv'
  BY <1>1, <1>2, MultiStepSendMulti, MultiStepOther DEF Program
<1>3. ASSUME NEW t \in Threads, Step(t)
      PROVE  MultiInv'
  BY <1>1, <1>3, MultiStepSendNow, MultiStepSendPending, MultiStepReturns, MultiStepCompleteSend
     DEF Step
<1> QED
  BY <1>2, <1>3, MultiStepOther DEF Next

\* MultiInv holds for all calls of send_multi.
LEMMA MultiInvariant == Spec => []MultiInv
<1>1. Init => MultiInv
  <2> SUFFICES ASSUME Init
               PROVE  MultiInv
    OBVIOUS
  <2>1. MultiTypeOK
    BY DEF Init, MultiTypeOK
  <2>2. ASSUME NEW g \in Groups
        PROVE  MultiOK(g)
    <3>1. Of(g) \subseteq Ops /\ Of(g) # {} /\ Poster[Multi[g][1]] \in Threads
      BY GroupProperties DEF Of, Ops
    <3>2. Unsent(g) = Of(g) /\ UnderWay(g) = {} /\ Waiting(g) = Of(g)
      BY <3>1 DEF Init, Unsent, UnderWay, Waiting
    <3>3. ~InMulti(g) /\ refs[g] = 0 /\ notified[g] = 0
      BY <3>1 DEF Init, InMulti, At, InProgram
    <3>4. Cardinality({}) = 0
      BY FS_EmptySet
    <3> QED
      BY <3>1, <3>2, <3>3, <3>4 DEF MultiOK
  <2> QED
    BY <2>1, <2>2 DEF MultiInv
<1> QED
  BY <1>1, MultiStep, LifeInvariant, PTL DEF Spec

\* The callback of a send_multi is invoked once, after the last of its sends, and the
\* message they share lives until then, for every number of destinations
\* (transport_layer/communicator.hpp:176-223).
THEOREM MultiSafe == Spec => []MultiNotifiesOnce
<1>1. LifeInv /\ MultiInv => MultiNotifiesOnce
  <2> SUFFICES ASSUME LifeInv, MultiInv, NEW g \in Groups, Shares(g)
               PROVE  /\ notified[g] = IF \A op \in Of(g) : calls[op] = 1 THEN 1 ELSE 0
                      /\ (\E op \in Of(g) : ucp[op] \in {"active", "ready"}) => refs[g] > 0
    BY DEF MultiNotifiesOnce, Of
  <2>1. Of(g) \subseteq Sends /\ Of(g) \subseteq Ops /\ Of(g) # {}
    BY GroupProperties DEF Of, Ops
  <2>2. Futures = {}
    BY <2>1, StyleCases DEF Shares, Of
  <2>3. MultiOK(g)
    BY <2>2 DEF MultiInv
  <2>4. \A op \in Of(g) : calls[op] = 0 \/ calls[op] = 1
    BY <2>1 DEF LifeInv, RequestInv, SendInv, SendOK
  <2>5. Waiting(g) = {} <=> \A op \in Of(g) : calls[op] = 1
    BY <2>4 DEF Waiting
  <2>6. notified[g] = IF \A op \in Of(g) : calls[op] = 1 THEN 1 ELSE 0
    BY <2>3, <2>5 DEF MultiOK
  <2>7. ASSUME \E op \in Of(g) : ucp[op] \in {"active", "ready"}
        PROVE  refs[g] > 0
    <3>1. UnderWay(g) # {}
      BY <2>7 DEF UnderWay
    <3>2. Cardinality(UnderWay(g)) \in Nat /\ Cardinality(UnderWay(g)) # 0
      BY <3>1, FiniteParts, FS_EmptySet
    <3>3. refs[g] = Cardinality(UnderWay(g)) \/ refs[g] = Cardinality(UnderWay(g)) + 1
      BY <2>3 DEF MultiOK
    <3> QED
      BY <3>2, <3>3
  <2> QED
    BY <2>6, <2>7
<1> QED
  BY <1>1, LifeInvariant, MultiInvariant, PTL

\* Every variable of the communicators has its type; no counter goes below zero.
THEOREM UcxTypes == Spec => []TypeOK
<1>1. LifeInv /\ CountInv /\ MultiInv => TypeOK
  BY DEF LifeInv, LockTypeOK, RequestInv, RequestTypeOK, CountInv, CounterTypeOK, MultiInv,
     MultiTypeOK, TypeOK
<1> QED
  BY <1>1, LifeInvariant, CountInvariant, MultiInvariant, PTL
=============================================================================
