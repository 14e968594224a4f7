-------------------------- MODULE UcxCommunicator --------------------------
(***************************************************************************)
(* The communicators of the threads of one rank over UCX                   *)
(* (transport_layer/ucx/communicator.hpp, request.hpp, future.hpp,         *)
(* worker.hpp, util/pthread_spin_mutex.hpp), and send_multi on top of them *)
(* (transport_layer/communicator.hpp).                                     *)
(*                                                                         *)
(* Every thread sends through a worker of its own, without a lock, and all *)
(* threads receive through the one worker of the rank, under a recursive   *)
(* spin lock.  Hence the callback of a receive runs on whichever thread    *)
(* makes progress, inside the lock, and may post the next receive there.   *)
(* UCX keeps the data of a request in storage that it hands out again.     *)
(*                                                                         *)
(* The messages of the model stay on the rank.  The callback of a send     *)
(* posts nothing; that of a receive posts receives.  The program uses      *)
(* callbacks or futures, not both: m_req of a callback receive that        *)
(* another thread has completed points to freed storage, and if a future   *)
(* has had and zeroed that storage in the meantime, cancel would follow    *)
(* its null m_worker (request.hpp:209).                                    *)
(***************************************************************************)
EXTENDS Naturals, SequencesExt, FiniteSets

CONSTANTS Threads,
          Sends, Recvs, \* the operations a program posts
          Uses,         \* Uses[style]: those of a program of this style
          Poster,       \* Poster[op]: the thread that posts op, or ...
          Parent,       \* Parent[op]: ... the receive whose callback does
          Tag,          \* Tag[op]: a message is received by the tag it is sent with
          Multi,        \* Multi: the sends of each call of send_multi, in order
          Slots,        \* request storage of the receive worker
          None

Ops == Sends \cup Recvs
Groups == DOMAIN Multi
GroupOf(op) == CHOOSE g \in Groups : op \in Range(Multi[g])

ASSUME OpsDisjoint == Sends \cap Recvs = {} /\ None \notin Ops \cup Threads
ASSUME KindsDisjoint == {"recv", "cancel"} \cap Threads = {}
\* The pool of requests of UCX grows when it has to.
ASSUME EnoughStorage == /\ IsFiniteSet(Ops) /\ IsFiniteSet(Slots)
                        /\ Cardinality(Recvs) <= Cardinality(Slots)
Styles == {"callback", "future"}
ASSUME UsesType == Uses \in [Styles -> SUBSET Ops]
ASSUME PosterType == Poster \in [Ops -> Threads]
ASSUME ParentType == Parent \in [Ops -> Recvs \cup {None}]
ASSUME TagType == DOMAIN Tag = Ops
\* A send is in one call of send_multi, which one thread makes.
ASSUME MultiPartition ==
  /\ \A op \in Sends : \E g \in Groups : op \in Range(Multi[g])
  /\ \A g, h \in Groups : Range(Multi[g]) \cap Range(Multi[h]) # {} => g = h
  /\ \A g \in Groups : /\ Multi[g] \in Seq(Sends) /\ Multi[g] # << >>
                       /\ IsInjective(Multi[g])
                       /\ \A k \in DOMAIN Multi[g] : Poster[Multi[g][k]] = Poster[Multi[g][1]]

VARIABLES
  style,         \* the program's: "callback" or "future", for all operations
  m_lock,        \* the thread that has the spin lock, or None
  level,         \* level[t]: recursive_mutex::level of thread t
  stack,         \* stack[t]: the calls thread t is in, <<>> in the program's own code
  storage,       \* storage[s]: the receive in slot s and its m_kind
  place,         \* place[op]: the slot that the m_req of a receive points to
  held,          \* the operations whose m_req is not null
  m_completed,   \* the operations with *m_completed set
  ucp,           \* ucp[op]: none, active, ready (to complete), over
  wire,          \* wire[tag]: messages sent and not received
  m_progressed,  \* the counters of the workers
  reported,      \* the sum of every progress_status returned so far
  calls,         \* calls[op]: how often the callback of op was invoked
  cancelled,     \* the receives UCX has completed as cancelled
  counter,       \* counter[g]: the counter of a send_multi
  refs,          \* refs[g]: owners of its shared message
  notified       \* notified[g]: how often its callback was invoked

mutex == <<style, m_lock, level>>
requests == <<storage, place, held, m_completed, ucp, wire, cancelled>>
counters == <<m_progressed, reported>>
multis == <<counter, refs, notified>>
vars == <<mutex, stack, requests, counters, calls, multis>>

\* Where a call is: before lock, inside, or at work that needs no lock.
Frames == [at : {"lockRecv", "lockWorker", "lockCancel",
                "post", "early", "recvs", "cancel", "unlock",
                "multi", "sends", "wait", "received", "callback"},
          op : Ops \cup Groups \cup {None}]
Kinds == Threads \cup {"recv", "cancel"}   \* the sends of a thread, and the shared ones
Free == [op |-> None, kind |-> "none"]

Futures == IF style = "future" THEN Ops ELSE {}

TypeOK ==
  /\ style \in Styles
  /\ m_lock \in Threads \cup {None}
  /\ level \in [Threads -> Nat]
  /\ stack \in [Threads -> Seq(Frames)]
  /\ storage \in [Slots -> [op : Recvs \cup {None}, kind : {"none", "recv"}]]
  /\ place \in [Recvs -> Slots \cup {None}]
  /\ held \subseteq Ops /\ m_completed \subseteq Ops /\ cancelled \subseteq Recvs
  /\ ucp \in [Ops -> {"none", "active", "ready", "over"}]
  /\ wire \in [Range(Tag) -> Nat]
  /\ m_progressed \in [Kinds -> Nat] /\ reported \in [Kinds -> Nat]
  /\ calls \in [Ops -> Nat]
  /\ counter \in [Groups -> Nat] /\ refs \in [Groups -> Nat] /\ notified \in [Groups -> Nat]

Init ==
  /\ style \in Styles
  /\ m_lock = None
  /\ level = [t \in Threads |-> 0]
  /\ stack = [t \in Threads |-> << >>]
  /\ storage = [s \in Slots |-> Free]
  /\ place = [op \in Recvs |-> None]
  /\ held = {} /\ m_completed = {} /\ cancelled = {}
  /\ ucp = [op \in Ops |-> "none"]
  /\ wire = [tag \in Range(Tag) |-> 0]
  /\ m_progressed = [k \in Kinds |-> 0]
  /\ reported = [k \in Kinds |-> 0]
  /\ calls = [op \in Ops |-> 0]
  /\ counter = [g \in Groups |-> 0]
  /\ refs = [g \in Groups |-> 0]
  /\ notified = [g \in Groups |-> 0]
-----------------------------------------------------------------------------
(* The call stack of a thread *)

InProgram(t) == stack[t] = << >>
At(t, label) == ~InProgram(t) /\ Last(stack[t]).at = label
OpOf(t) == Last(stack[t]).op

Frame(label, op) == [at |-> label, op |-> op]
Push(t, frames) == stack' = [stack EXCEPT ![t] = @ \o frames]
Goto(t, label) == stack' = [stack EXCEPT ![t] = Append(Front(@), [Last(@) EXCEPT !.at = label])]
GotoAndPush(t, label, frames) ==
  stack' = [stack EXCEPT ![t] = Append(Front(@), [Last(@) EXCEPT !.at = label]) \o frames]
Return(t) == stack' = [stack EXCEPT ![t] = Front(@)]

\* What runs for op when it completes: its callback, if it has one.
Callback(op) == IF op \in Futures THEN << >> ELSE <<Frame("callback", op)>>
Invoke(op) == calls' = IF op \in Futures THEN calls ELSE [calls EXCEPT ![op] = @ + 1]
Count(k, op) == IF op \in Futures THEN m_progressed
                ELSE [m_progressed EXCEPT ![k] = @ + 1]

\* The receives that the callback of op still has to post.
ToPost(op) == {o \in Recvs : Parent[o] = op /\ ucp[o] = "none"}

CallbackReturns(t) ==
  /\ At(t, "callback")
  /\ ToPost(OpOf(t)) = {}
  /\ Return(t)
  /\ UNCHANGED <<mutex, requests, counters, calls, multis>>
-----------------------------------------------------------------------------
(* The recursive spin lock.  The level belongs to the thread; a thread     *)
(* that is at a level above zero does not look at the lock.                *)

Labels == [lockRecv |-> "post", lockWorker |-> "recvs", lockCancel |-> "cancel"]

\* Mutant of Lock: a thread that has the lock waits for it.
LockFlat(t) ==
  /\ ~InProgram(t) /\ Last(stack[t]).at \in DOMAIN Labels
  /\ m_lock = None /\ m_lock' = t
  /\ level' = [level EXCEPT ![t] = @ + 1]
  /\ Goto(t, Labels[Last(stack[t]).at])
  /\ UNCHANGED <<style, requests, counters, calls, multis>>

Lock(t) ==
  /\ ~InProgram(t) /\ Last(stack[t]).at \in DOMAIN Labels
  /\ \/ level[t] = 0 /\ m_lock = None /\ m_lock' = t
     \/ level[t] > 0 /\ UNCHANGED m_lock
  /\ level' = [level EXCEPT ![t] = @ + 1]
  /\ Goto(t, Labels[Last(stack[t]).at])
  /\ UNCHANGED <<style, requests, counters, calls, multis>>

\* Mutant of Unlock: every unlock opens the lock.
UnlockAlways(t) ==
  /\ At(t, "unlock")
  /\ level' = [level EXCEPT ![t] = @ - 1]
  /\ m_lock' = None
  /\ Return(t)
  /\ UNCHANGED <<style, requests, counters, calls, multis>>

Unlock(t) ==
  /\ At(t, "unlock")
  /\ level' = [level EXCEPT ![t] = @ - 1]
  /\ m_lock' = IF level[t] = 1 THEN None ELSE m_lock
  /\ Return(t)
  /\ UNCHANGED <<style, requests, counters, calls, multis>>
-----------------------------------------------------------------------------
(* UCX outside of the calls of the rank: a send is done with its message,  *)
(* a message meets the receive posted for it.  From then on the receive    *)
(* cannot be cancelled.                                                    *)

SendReady(op) == /\ ucp[op] = "active"
                 /\ ucp' = [ucp EXCEPT ![op] = "ready"]
                 /\ UNCHANGED <<mutex, stack, storage, place, held, m_completed, wire,
                                cancelled, counters, calls, multis>>

Match(op) == /\ ucp[op] = "active"
             /\ wire[Tag[op]] > 0
             /\ ucp' = [ucp EXCEPT ![op] = "ready"]
             /\ wire' = [wire EXCEPT ![Tag[op]] = @ - 1]
             /\ UNCHANGED <<mutex, stack, storage, place, held, m_completed, cancelled,
                            counters, calls, multis>>
-----------------------------------------------------------------------------
(* recv *)

\* The storage UCX hands out next.
Fresh == CHOOSE s \in Slots : storage[s].op = None

PostRecv(t, op) == /\ IF Parent[op] = None \/ op \in Futures
                        THEN InProgram(t) /\ Poster[op] = t
                        ELSE At(t, "callback") /\ OpOf(t) = Parent[op]
                   /\ op \in Uses[style] /\ ucp[op] = "none"
                   /\ \A u \in Threads : \A k \in DOMAIN stack[u] : stack[u][k].op # op
                   /\ Push(t, <<Frame("lockRecv", op)>>)
                   /\ UNCHANGED <<mutex, requests, counters, calls, multis>>

\* A message is there already: UCX calls recv_callback, which finds the
\* storage blank and leaves the completion to recv.
RecvEarly(t) ==
  /\ At(t, "post")
  /\ LET op == OpOf(t)
     IN  /\ wire[Tag[op]] > 0
         /\ wire' = [wire EXCEPT ![Tag[op]] = @ - 1]
         /\ ucp' = [ucp EXCEPT ![op] = "over"]
         /\ Invoke(op)
         /\ IF op \in Futures
              THEN Goto(t, "unlock") /\ UNCHANGED <<storage, place>>
              ELSE /\ GotoAndPush(t, "early", Callback(op))
                   /\ storage' = [storage EXCEPT ![Fresh].op = op]
                   /\ place' = [place EXCEPT ![op] = Fresh]
  /\ UNCHANGED <<mutex, held, m_completed, cancelled, counters, multis>>

RecvEarlyDone(t) ==
  /\ At(t, "early")
  /\ m_progressed' = [m_progressed EXCEPT !["recv"] = @ + 1]
  /\ storage' = [storage EXCEPT ![place[OpOf(t)]] = Free]
  /\ Goto(t, "unlock")
  /\ UNCHANGED <<mutex, place, held, m_completed, ucp, wire, cancelled, reported, calls, multis>>

\* Otherwise the request is constructed in the storage.  (What a future keeps
\* there is not m_kind, but no zero either.)
RecvPending(t) ==
  /\ At(t, "post")
  /\ LET op == OpOf(t)
     IN  /\ storage' = [storage EXCEPT ![Fresh] = [op |-> op, kind |-> "recv"]]
         /\ place' = [place EXCEPT ![op] = Fresh]
         /\ ucp' = [ucp EXCEPT ![op] = "active"]
         /\ held' = held \cup {op}
  /\ Goto(t, "unlock")
  /\ UNCHANGED <<mutex, m_completed, wire, cancelled, counters, calls, multis>>
-----------------------------------------------------------------------------
(* send_multi, which is send when there is one destination.  With a        *)
(* callback the sends share the message and a counter.                     *)

Shares(g) == Range(Multi[g]) \cap Futures = {}
ToSend(g) == {k \in DOMAIN Multi[g] : ucp[Multi[g][k]] = "none"}
NextSend(g) == Multi[g][CHOOSE k \in ToSend(g) : \A n \in ToSend(g) : k <= n]

\* Mutant of SendMulti: the counter starts one short.
SendMultiShort(t, g) ==
  /\ InProgram(t)
  /\ Poster[Multi[g][1]] = t
  /\ Range(Multi[g]) \subseteq Uses[style] /\ ToSend(g) = DOMAIN Multi[g]
  /\ counter' = [counter EXCEPT ![g] = Len(Multi[g]) - 1]
  /\ refs' = [refs EXCEPT ![g] = IF Shares(g) THEN 1 ELSE 0]
  /\ Push(t, <<Frame("multi", g)>>)
  /\ UNCHANGED <<mutex, requests, counters, calls, notified>>

SendMulti(t, g) == /\ InProgram(t)
                   /\ Poster[Multi[g][1]] = t
                   /\ Range(Multi[g]) \subseteq Uses[style] /\ ToSend(g) = DOMAIN Multi[g]
                   /\ counter' = [counter EXCEPT ![g] = Len(Multi[g])]
                   /\ refs' = [refs EXCEPT ![g] = IF Shares(g) THEN 1 ELSE 0]
                   /\ Push(t, <<Frame("multi", g)>>)
                   /\ UNCHANGED <<mutex, requests, counters, calls, notified>>

\* What the callback of one send does with the counter.
CountDown(op) ==
  LET g == GroupOf(op)
  IN  IF op \in Futures THEN UNCHANGED <<counter, notified>>
      ELSE /\ counter' = [counter EXCEPT ![g] = @ - 1]
           /\ notified' = [notified EXCEPT ![g] = IF counter[g] = 1 THEN @ + 1 ELSE @]

\* UCX has sent the message at once.
SendNow(t) ==
  /\ At(t, "multi") /\ ToSend(OpOf(t)) # {}
  /\ LET op == NextSend(OpOf(t))
     IN  /\ ucp' = [ucp EXCEPT ![op] = "over"]
         /\ wire' = [wire EXCEPT ![Tag[op]] = @ + 1]
         /\ Invoke(op)
         /\ CountDown(op)
         /\ m_progressed' = Count(t, op)
  /\ UNCHANGED <<mutex, stack, storage, place, held, m_completed, cancelled, reported, refs>>

SendPending(t) ==
  /\ At(t, "multi") /\ ToSend(OpOf(t)) # {}
  /\ LET op == NextSend(OpOf(t))
     IN  /\ ucp' = [ucp EXCEPT ![op] = "active"]
         /\ wire' = [wire EXCEPT ![Tag[op]] = @ + 1]
         /\ held' = held \cup {op}
         /\ refs' = [refs EXCEPT ![OpOf(t)] = IF Shares(OpOf(t)) THEN @ + 1 ELSE @]
  /\ UNCHANGED <<mutex, stack, storage, place, m_completed, cancelled, counters, calls,
                 counter, notified>>

SendMultiReturns(t) ==
  /\ At(t, "multi") /\ ToSend(OpOf(t)) = {}
  /\ refs' = [refs EXCEPT ![OpOf(t)] = IF Shares(OpOf(t)) THEN @ - 1 ELSE @]
  /\ Return(t)
  /\ UNCHANGED <<mutex, requests, counters, calls, counter, notified>>
-----------------------------------------------------------------------------
(* progress, and the test of a future, which makes the same two rounds     *)

Progress(t) == /\ InProgram(t) /\ style = "callback"
               /\ Push(t, <<Frame("sends", None)>>)
               /\ UNCHANGED <<mutex, requests, counters, calls, multis>>

\* send_callback
CompleteSend(t) ==
  /\ At(t, "sends")
  /\ \E op \in Sends :
       /\ Poster[op] = t /\ ucp[op] = "ready"
       /\ ucp' = [ucp EXCEPT ![op] = "over"]
       /\ Invoke(op)
       /\ CountDown(op)
       /\ m_progressed' = Count(t, op)
       /\ m_completed' = m_completed \cup ({op} \ Futures)
       /\ refs' = [refs EXCEPT ![GroupOf(op)] = IF op \in Futures THEN @ ELSE @ - 1]
  /\ UNCHANGED <<mutex, stack, storage, place, held, wire, cancelled, reported>>

\* The counter of the thread's own worker is read without the lock.
SendsDrained(t) ==
  /\ At(t, "sends")
  /\ \A op \in Sends : Poster[op] = t => ucp[op] # "ready"
  /\ IF OpOf(t) = None
       THEN /\ reported' = [reported EXCEPT ![t] = @ + m_progressed[t]]
            /\ m_progressed' = [m_progressed EXCEPT ![t] = 0]
       ELSE UNCHANGED counters
  /\ Goto(t, "lockWorker")
  /\ UNCHANGED <<mutex, requests, calls, multis>>

\* recv_callback, on whatever thread is in the worker.
CompleteRecv(t) ==
  /\ At(t, "recvs")
  /\ \E op \in Recvs :
       /\ ucp[op] = "ready"
       /\ ucp' = [ucp EXCEPT ![op] = "over"]
       /\ Invoke(op)
       /\ IF op \in Futures THEN UNCHANGED stack
          ELSE Push(t, <<Frame("received", op)>> \o Callback(op))
  /\ UNCHANGED <<mutex, storage, place, held, m_completed, wire, cancelled, counters, multis>>

\* Mutant of RecvDone: the kind stays in the storage.
RecvDoneKeepsKind(t) ==
  /\ At(t, "received")
  /\ m_progressed' = [m_progressed EXCEPT !["recv"] = @ + 1]
  /\ m_completed' = m_completed \cup {OpOf(t)}
  /\ storage' = [storage EXCEPT ![place[OpOf(t)]].op = None]
  /\ Return(t)
  /\ UNCHANGED <<mutex, place, held, ucp, wire, cancelled, reported, calls, multis>>

\* The callback has returned: the request is destroyed and its storage freed.
RecvDone(t) ==
  /\ At(t, "received")
  /\ m_progressed' = [m_progressed EXCEPT !["recv"] = @ + 1]
  /\ m_completed' = m_completed \cup {OpOf(t)}
  /\ storage' = [storage EXCEPT ![place[OpOf(t)]] = Free]
  /\ Return(t)
  /\ UNCHANGED <<mutex, place, held, ucp, wire, cancelled, reported, calls, multis>>

\* Mutant of RecvsDrained: the counters are read and not reset.
RecvsDrainedKeeps(t) ==
  /\ At(t, "recvs") /\ OpOf(t) = None
  /\ \A op \in Recvs : ucp[op] # "ready"
  /\ reported' = [k \in Kinds |-> IF k \in Threads THEN reported[k]
                                 ELSE reported[k] + m_progressed[k]]
  /\ Goto(t, "unlock")
  /\ UNCHANGED <<mutex, requests, m_progressed, calls, multis>>

\* progress collects the counters of the shared worker; a test frees the
\* storage of a request that is over, and its m_req is null.
RecvsDrained(t) ==
  /\ At(t, "recvs")
  /\ \A op \in Recvs : ucp[op] # "ready"
  /\ IF OpOf(t) = None
       THEN /\ reported' = [k \in Kinds |-> IF k \in Threads THEN reported[k]
                                            ELSE reported[k] + m_progressed[k]]
            /\ m_progressed' = [k \in Kinds |-> IF k \in Threads THEN m_progressed[k] ELSE 0]
            /\ UNCHANGED <<storage, held>>
       ELSE /\ held' = IF ucp[OpOf(t)] = "over" THEN held \ {OpOf(t)} ELSE held
            /\ storage' = [s \in Slots |-> IF storage[s].op = OpOf(t) /\ ucp[OpOf(t)] = "over"
                                           THEN Free ELSE storage[s]]
            /\ UNCHANGED counters
  /\ Goto(t, "unlock")
  /\ UNCHANGED <<mutex, place, m_completed, ucp, wire, cancelled, calls, multis>>
-----------------------------------------------------------------------------
(* The requests that a thread holds *)

Mine(t, op) == InProgram(t) /\ op \in held /\ Poster[op] = t
               /\ (Parent[op] = None \/ op \in Futures)

\* request_cb::test that returns true.  (Nothing but another test becomes of
\* the request of a send; the program keeps those.)
Test(t, op) == /\ Mine(t, op) /\ op \in Recvs \ Futures
               /\ op \in m_completed
               /\ held' = held \ {op}
               /\ UNCHANGED <<mutex, stack, storage, place, m_completed, ucp, wire, cancelled,
                              counters, calls, multis>>

\* request_ft::wait, and test as its first round.
Wait(t, op) == /\ Mine(t, op) /\ op \in Futures
               /\ Push(t, <<Frame("wait", op)>>)
               /\ UNCHANGED <<mutex, requests, counters, calls, multis>>

WaitRound(t) ==
  /\ At(t, "wait")
  /\ IF OpOf(t) \in held THEN Push(t, <<Frame("sends", OpOf(t))>>) ELSE Return(t)
  /\ UNCHANGED <<mutex, requests, counters, calls, multis>>

\* cancel of a receive; a future waits afterwards.  (Sends are refused.)
Cancel(t, op) ==
  /\ Mine(t, op) /\ op \in Recvs
  /\ Push(t, (IF op \in Futures THEN <<Frame("wait", op)>> ELSE << >>)
             \o <<Frame("lockCancel", op)>>)
  /\ UNCHANGED <<mutex, requests, counters, calls, multis>>

\* ucp_request_cancel of the request in slot s: UCX completes it as
\* cancelled, unless its message has come.
UcpCancel(s) ==
  LET victim == storage[s].op
  IN  IF victim # None /\ ucp[victim] = "active"
        THEN /\ ucp' = [ucp EXCEPT ![victim] = "over"]
             /\ cancelled' = cancelled \cup {victim}
             /\ m_progressed' = Count("cancel", victim)
             /\ m_completed' = m_completed \cup ({victim} \ Futures)
             /\ storage' = IF victim \in Futures THEN storage ELSE [storage EXCEPT ![s] = Free]
        ELSE UNCHANGED <<ucp, cancelled, m_progressed, m_completed, storage>>

\* Mutant of CancelRecv: *m_completed is not asked.
CancelRecvBlind(t) ==
  /\ At(t, "cancel")
  /\ UcpCancel(place[OpOf(t)])
  /\ held' = IF OpOf(t) \in Futures THEN held ELSE held \ {OpOf(t)}
  /\ Goto(t, "unlock")
  /\ UNCHANGED <<mutex, place, wire, reported, calls, multis>>

CancelRecv(t) ==
  /\ At(t, "cancel")
  /\ IF OpOf(t) \in m_completed
       THEN UNCHANGED <<ucp, cancelled, m_progressed, m_completed, storage>>
       ELSE UcpCancel(place[OpOf(t)])
  /\ held' = IF OpOf(t) \in Futures THEN held ELSE held \ {OpOf(t)}
  /\ Goto(t, "unlock")
  /\ UNCHANGED <<mutex, place, wire, reported, calls, multis>>
-----------------------------------------------------------------------------
Program(t) == \/ InProgram(t) /\ \E op \in Recvs : PostRecv(t, op) \/ Cancel(t, op)
              \/ \E g \in Groups : SendMulti(t, g)
              \/ \E op \in Ops : Test(t, op) \/ Wait(t, op)

\* A thread that is in a call goes on with it, and callbacks return.
Step(t) == \/ At(t, "callback") /\ \E op \in Recvs : PostRecv(t, op)
           \/ CallbackReturns(t) \/ Unlock(t)
           \/ RecvEarly(t) \/ RecvEarlyDone(t) \/ RecvPending(t)
           \/ SendNow(t) \/ SendPending(t) \/ SendMultiReturns(t)
           \/ CompleteSend(t) \/ SendsDrained(t)
           \/ CompleteRecv(t) \/ RecvDone(t) \/ RecvsDrained(t)
           \/ WaitRound(t) \/ CancelRecv(t)

Next == \/ \E t \in Threads : Program(t) \/ Progress(t) \/ Lock(t) \/ Step(t)
        \/ \E op \in Sends : SendReady(op)
        \/ \E op \in Recvs : Match(op)

\* Every thread goes on with the call it is in and keeps calling progress, as
\* communicator.hpp:190 asks of it.  A spin lock is open again and again, but
\* is not handed on in turn: a thread that keeps trying gets it in the end.
Spec == /\ Init /\ [][Next]_vars
        /\ \A t \in Threads : WF_vars(Step(t)) /\ WF_vars(Progress(t)) /\ SF_vars(Lock(t))
-----------------------------------------------------------------------------
(* Safety *)

\* Only the thread that has the lock is between lock and unlock, callbacks
\* that run there and receives they post included; the lock opens when the
\* outermost call leaves, and not before (pthread_spin_mutex.hpp:54-68).
InWorker(t) == Cardinality({k \in DOMAIN stack[t] :
  stack[t][k].at \in {"post", "early", "recvs", "cancel", "unlock"}})
OneInWorker == \A t \in Threads : /\ level[t] = InWorker(t)
                                  /\ m_lock = t <=> InWorker(t) > 0

\* Storage that UCX may hand out again carries no kind, or recv_callback would
\* take a message that is there already for the completion of the request
\* that had the storage before (communicator.hpp:330-334, request.hpp:86-87).
\* A request that is not complete finds its own data behind m_req.
StorageBlank ==
  /\ \A s \in Slots : storage[s].op = None => storage[s].kind = "none"
  /\ \A op \in held \cap Recvs : op \notin m_completed => storage[place[op]].op = op

\* Every completed send, receive and cancel is in the progress_status of
\* exactly one call, whichever threads complete and collect receives, and also
\* if a callback interrupts the collection with receives that complete at once.
\* A receive is counted when its callback has returned.
CallbacksOf(S) == Cardinality({op \in S \ Futures : calls[op] > 0})
ToCount == {op \in Recvs : \E t \in Threads : \E k \in DOMAIN stack[t] :
              stack[t][k].op = op /\ stack[t][k].at \in {"early", "received"}}
CountsEveryCompletion ==
  /\ \A t \in Threads : reported[t] + m_progressed[t]
                         = CallbacksOf({op \in Sends : Poster[op] = t})
  /\ reported["recv"] + m_progressed["recv"] + Cardinality(ToCount) = CallbacksOf(Recvs)
  /\ reported["cancel"] + m_progressed["cancel"] = Cardinality(cancelled \ Futures)

\* The callback of a send_multi is invoked once, after the last of its sends,
\* also if sends complete while others are still to be posted; and the message
\* they share lives until then (transport_layer/communicator.hpp:176-223).
MultiNotifiesOnce ==
  \A g \in Groups :
    LET Of == Range(Multi[g])
    IN  Shares(g) => /\ notified[g] = IF \A op \in Of : calls[op] = 1 THEN 1 ELSE 0
                     /\ (\E op \in Of : ucp[op] \in {"active", "ready"}) => refs[g] > 0

(* Liveness *)

\* Whatever UCX has completed gets its callback, and the callback returns; a
\* wait for it returns.  No thread waits for a lock that it has itself, and
\* none is kept from its own sends by others that progress receives.
Awaited(op) == \E t \in Threads : \E k \in DOMAIN stack[t] : stack[t][k] = Frame("wait", op)
Settled(op) == IF op \in Futures THEN ucp[op] \in {"ready", "over"} => ~Awaited(op)
               ELSE ucp[op] # "ready" /\ \A t \in Threads : ~At(t, "callback")
CompletionsReturn == []<>(\A op \in Ops : Settled(op))
-----------------------------------------------------------------------------
\* The operations with a callback keep the promise the MPI communicator keeps.
\* A cancel that comes too late gives the request away: to the promise it is
\* held until the receive completes.
posted == {op \in Ops \ Futures : ucp[op] # "none"}
InStorage == {storage[s].op : s \in {n \in Slots : storage[n].kind = "recv"}}
C == INSTANCE Completions WITH
       held <- (held \cup InStorage) \ Futures,
       cancelled <- cancelled \ Futures
ImplementsCompletions == C!Spec
=============================================================================
