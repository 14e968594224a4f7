--------------------------- MODULE CallbackQueue ---------------------------
(***************************************************************************)
(* The callback based sends and receives of one MPI communicator object    *)
(* and its two callback queues (transport_layer/callback_utils.hpp,        *)
(* mpi/communicator.hpp, mpi/communicator_state.hpp, mpi/request_cb.hpp).  *)
(*                                                                         *)
(* The object belongs to one thread.  What makes it hard is that progress  *)
(* calls back into the program, which may post more operations while a     *)
(* reference into the queue is live, that the MPI library completes        *)
(* operations at any time, and that requests find their element by an      *)
(* index which every removal may change.                                   *)
(*                                                                         *)
(* A callback posts operations and tests requests; it does not call        *)
(* progress or cancel.  The queues do not outgrow what they reserve        *)
(* (callback_utils.hpp:180), so that posting does not reallocate them.     *)
(***************************************************************************)
EXTENDS Naturals, Sequences, FiniteSets

CONSTANTS Sends, Recvs,   \* the operations the caller posts
          CancelsUntested \* it may cancel a request it has not tested first

ASSUME OpsAssumption == Sends \cap Recvs = {} /\ IsFiniteSet(Sends \cup Recvs)
ASSUME CancelsAssumption == CancelsUntested \in BOOLEAN

Ops == Sends \cup Recvs
Queues == {"send", "recv"}
QueueOf(op) == IF op \in Sends THEN "send" ELSE "recv"

VARIABLES
  m_queue,       \* m_queue[q]: the operations in queue q
  m_index,       \* m_index[op]: request_state::m_index, counted from 1
  m_ready,       \* the operations whose request_state has m_ready set
  held,          \* the operations whose request_cb still has its m_queue
  req,           \* req[op]: the MPI request of op
  pc,            \* where the thread is: its caller, or progress
  now,           \* progress: the queue it is at
  i,             \* progress: the element whose callback runs
  completed,     \* progress: callbacks invoked by this call on this queue
  m_progressed,  \* m_progressed_sends, m_progressed_recvs, m_progressed_cancels
  reported,      \* the sum of every progress_status returned so far
  calls,         \* calls[op]: how often the callback of op was invoked
  cancelled      \* the operations whose element cancel() has removed

queues == <<m_queue, m_index>>
counters == <<completed, m_progressed, reported>>
vars == <<queues, m_ready, held, req, pc, now, i, counters, calls, cancelled>>

Kinds == Queues \cup {"cancel"}

TypeOK == /\ m_queue \in [Queues -> Seq(Ops)]
          /\ m_index \in [Ops -> Nat]
          /\ m_ready \subseteq Ops
          /\ held \subseteq Ops
          /\ req \in [Ops -> {"none", "active", "complete", "null"}]
          /\ pc \in {"caller", "scan", "callback"}
          /\ now \in Queues
          /\ i \in Nat
          /\ completed \in Nat
          /\ m_progressed \in [Kinds -> Nat]
          /\ reported \in [Kinds -> Nat]
          /\ calls \in [Ops -> Nat]
          /\ cancelled \subseteq Ops
-----------------------------------------------------------------------------
Init == /\ m_queue = [q \in Queues |-> << >>]
        /\ m_index = [op \in Ops |-> 0]
        /\ m_ready = {}
        /\ held = {}
        /\ req = [op \in Ops |-> "none"]
        /\ pc = "caller"
        /\ now = "send"
        /\ i = 0
        /\ completed = 0
        /\ m_progressed = [k \in Kinds |-> 0]
        /\ reported = [k \in Kinds |-> 0]
        /\ calls = [op \in Ops |-> 0]
        /\ cancelled = {}

\* Code of the program runs: the caller of the communicator, or a callback.
InProgram == pc \in {"caller", "callback"}

Invoke(op) == calls' = [calls EXCEPT ![op] = @ + 1]

\* The sequence without its element k, whose place the last one takes.
SwapOut(s, k) == SubSeq([s EXCEPT ![k] = s[Len(s)]], 1, Len(s) - 1)

\* Mutant of Remove: the request is not told.
RemoveKeepsIndex(q, k) ==
  /\ m_queue' = [m_queue EXCEPT ![q] = SwapOut(@, k)]
  /\ UNCHANGED m_index

\* Mutant of Remove: the last element leaves instead.
RemoveLast(q, k) ==
  /\ m_queue' = [m_queue EXCEPT ![q] = SubSeq(@, 1, Len(@) - 1)]
  /\ UNCHANGED m_index

\* Element k leaves queue q, and the request of the last one is told its new
\* place.
Remove(q, k) ==
  /\ m_queue' = [m_queue EXCEPT ![q] = SwapOut(@, k)]
  /\ LET back == m_queue[q][Len(m_queue[q])]
     IN  m_index' = IF k < Len(m_queue[q]) THEN [m_index EXCEPT ![back] = k] ELSE m_index
-----------------------------------------------------------------------------
(* The MPI library *)

Match(op) == /\ req[op] = "active"
             /\ req' = [req EXCEPT ![op] = "complete"]
             /\ UNCHANGED <<queues, m_ready, held, pc, now, i, counters, calls, cancelled>>

(* The caller and the callbacks *)

\* send or recv when the operation is complete at once: no request is held.
PostReady(op) == /\ InProgram
                 /\ req[op] = "none"
                 /\ req' = [req EXCEPT ![op] = "null"]
                 /\ Invoke(op)
                 /\ m_progressed' = [m_progressed EXCEPT ![QueueOf(op)] = @ + 1]
                 /\ UNCHANGED <<queues, m_ready, held, pc, now, i, completed, reported, cancelled>>

\* Mutant of Enqueue: the index is read after the element is in.
EnqueueCountsItself(op) ==
  /\ InProgram
  /\ req[op] = "none"
  /\ req' = [req EXCEPT ![op] = "active"]
  /\ LET q == QueueOf(op)
     IN  /\ m_queue' = [m_queue EXCEPT ![q] = Append(@, op)]
         /\ m_index' = [m_index EXCEPT ![op] = Len(m_queue[q]) + 2]
  /\ held' = held \cup {op}
  /\ UNCHANGED <<m_ready, pc, now, i, counters, calls, cancelled>>

\* send or recv otherwise, with enqueue.
Enqueue(op) == /\ InProgram
               /\ req[op] = "none"
               /\ req' = [req EXCEPT ![op] = "active"]
               /\ LET q == QueueOf(op)
                  IN  /\ m_queue' = [m_queue EXCEPT ![q] = Append(@, op)]
                      /\ m_index' = [m_index EXCEPT ![op] = Len(m_queue[q]) + 1]
               /\ held' = held \cup {op}
               /\ UNCHANGED <<m_ready, pc, now, i, counters, calls, cancelled>>

\* Mutant of Test: is_ready is not asked.
TestUnchecked(op) ==
  /\ InProgram
  /\ op \in held
  /\ held' = held \ {op}
  /\ UNCHANGED <<queues, m_ready, req, pc, now, i, counters, calls, cancelled>>

\* request_cb::test that returns true.
Test(op) == /\ InProgram
            /\ op \in held
            /\ op \in m_ready
            /\ held' = held \ {op}
            /\ UNCHANGED <<queues, m_ready, req, pc, now, i, counters, calls, cancelled>>

\* request_cb::cancel on a receive.  MPI cancels one that is still active
\* and refuses otherwise, but the MPI_Wait in between has then taken the
\* request.  (future::cancel refuses sends at once, which changes nothing.)
Cancel(op) ==
  /\ pc = "caller"
  /\ op \in held \cap Recvs
  /\ CancelsUntested \/ op \notin m_ready
  /\ m_index[op] \in 1 .. Len(m_queue["recv"])
  /\ LET victim == m_queue["recv"][m_index[op]]
     IN  /\ req[victim] # "null"
         /\ req' = [req EXCEPT ![victim] = "null"]
         /\ IF req[victim] = "active"
              THEN /\ Remove("recv", m_index[op])
                   /\ held' = held \ {op}
                   /\ cancelled' = cancelled \cup {victim}
                   /\ m_progressed' = [m_progressed EXCEPT !["cancel"] = @ + 1]
              ELSE UNCHANGED <<queues, held, cancelled, m_progressed>>
  /\ UNCHANGED <<m_ready, pc, now, i, completed, reported, calls>>
-----------------------------------------------------------------------------
(* progress *)

StartProgress == /\ pc = "caller"
                 /\ pc' = "scan"
                 /\ UNCHANGED <<queues, m_ready, held, req, now, i, counters, calls, cancelled>>

\* test_any finds a complete element; its callback is invoked.
InvokeCallback(q) ==
  /\ pc = "scan"
  /\ now = q
  /\ \E k \in 1 .. Len(m_queue[q]) :
       LET op == m_queue[q][k]
       IN  /\ req[op] = "complete"
           /\ req' = [req EXCEPT ![op] = "null"]
           /\ i' = k
           /\ Invoke(op)
  /\ pc' = "callback"
  /\ UNCHANGED <<queues, now, m_ready, held, counters, cancelled>>

\* The callback returns, and its element leaves the queue.
CallbackReturns(q) ==
  /\ pc = "callback"
  /\ now = q
  /\ completed' = completed + 1
  /\ m_ready' = m_ready \cup {m_queue[q][i]}
  /\ Remove(q, i)
  /\ pc' = "scan"
  /\ i' = 0
  /\ UNCHANGED <<now, held, req, m_progressed, reported, calls, cancelled>>

Drained(q) == /\ pc = "scan"
              /\ now = q
              /\ \A k \in 1 .. Len(m_queue[q]) : req[m_queue[q][k]] # "complete"
              /\ completed' = 0

\* Mutant of SendsProgressed: the count of the posts is lost.
SendsOverwrite ==
  /\ Drained("send")
  /\ m_progressed' = [m_progressed EXCEPT !["send"] = completed]
  /\ now' = "recv"
  /\ UNCHANGED <<pc, queues, m_ready, held, req, i, reported, calls, cancelled>>

\* The send queue has nothing complete left: on to the receive queue.
SendsProgressed ==
  /\ Drained("send")
  /\ m_progressed' = [m_progressed EXCEPT !["send"] = @ + completed]
  /\ now' = "recv"
  /\ UNCHANGED <<pc, queues, m_ready, held, req, i, reported, calls, cancelled>>

\* Neither has the receive queue: progress returns and resets the counters.
ProgressReturns ==
  /\ Drained("recv")
  /\ LET status == [m_progressed EXCEPT !["recv"] = @ + completed]
     IN  reported' = [k \in Kinds |-> reported[k] + status[k]]
  /\ m_progressed' = [k \in Kinds |-> 0]
  /\ pc' = "caller"
  /\ now' = "send"
  /\ UNCHANGED <<queues, m_ready, held, req, i, calls, cancelled>>

Progress == \/ StartProgress
            \/ \E q \in Queues : InvokeCallback(q) \/ CallbackReturns(q)
            \/ SendsProgressed
            \/ ProgressReturns

Program == \E op \in Ops : PostReady(op) \/ Enqueue(op) \/ Test(op) \/ Cancel(op)

Next == Progress \/ Program \/ \E op \in Ops : Match(op)

\* The caller keeps calling progress, as communicator.hpp:114 asks of it,
\* and callbacks return.
Spec == Init /\ [][Next]_vars /\ WF_vars(Progress)
-----------------------------------------------------------------------------
(* Safety *)

Queued(op) == \E k \in 1 .. Len(m_queue[QueueOf(op)]) : m_queue[QueueOf(op)][k] = op

\* The operation whose callback runs.
Running == IF pc = "callback" THEN {m_queue[now][i]} ELSE {}

\* A cancel was refused and has taken the MPI request (future.hpp:184-188).
Stranded(op) == Queued(op) /\ req[op] = "null" /\ op \notin Running

\* Elements know their position, and are in the queue of their kind.
IndexInv == \A q \in Queues : \A k \in 1 .. Len(m_queue[q]) :
              QueueOf(m_queue[q][k]) = q /\ m_index[m_queue[q][k]] = k

\* The index in a request is where its operation is, in the queue of its
\* kind, for as long as the operation is in the queue: a caller that holds
\* the request and has not seen it ready cancels its own operation, within
\* the bounds of the queue, whatever has been removed before.
RequestTracksElement == IndexInv /\ \A op \in held : op \in m_ready \/ Queued(op)

\* Only the holder of a request cancels its operation: cancel() with the
\* index of a request (callback_utils.hpp:227-231) removes the element that
\* the request was returned for, and no other one.
CancelsOwnOperation == \A op \in cancelled : op \notin held

\* Every callback is counted in exactly one progress_status, also one that
\* was invoked by the post itself or posted by a callback in the middle of
\* progress; and so is every cancel.
Unreported(q) == m_progressed[q]
                 + (IF pc # "caller" /\ now = q THEN completed ELSE 0)
                 + (IF pc = "callback" /\ now = q THEN 1 ELSE 0)
ReportsEveryCallback ==
  /\ \A q \in Queues :
       reported[q] + Unreported(q)
         = Cardinality({op \in Ops : QueueOf(op) = q /\ calls[op] > 0})
  /\ reported["cancel"] + m_progressed["cancel"] = Cardinality(cancelled)

\* The inductive invariant: an operation is in its queue from the post to the
\* removal of its element, is called and cancelled at most once and never
\* both, and leaves the queue with its callback, which is over when it has.
OpInv(op) ==
  /\ calls[op] \in {0, 1}
  /\ req[op] = "none" => op \notin held \cup m_ready \cup cancelled /\ ~Queued(op)
  /\ req[op] # "null" => calls[op] = 0
  /\ req[op] \in {"active", "complete"} => Queued(op)
  /\ op \in held => op \in m_ready \/ Queued(op)
  /\ op \in m_ready => calls[op] = 1 /\ ~Queued(op)
  /\ op \in cancelled => calls[op] = 0 /\ ~Queued(op) /\ op \notin held
  /\ Queued(op) /\ calls[op] = 1 => op \in Running

RunningInv == pc = "callback" => /\ i \in 1 .. Len(m_queue[now])
                                 /\ calls[m_queue[now][i]] = 1

CallbackInv == /\ TypeOK
               /\ IndexInv
               /\ \A op \in Ops : OpInv(op)
               /\ RunningInv

(* Liveness *)

\* An operation that completes gets its callback, unless a refused cancel
\* has stranded it.
CallbackComes ==
  \A op \in Ops : req[op] = "complete" ~> calls[op] = 1 \/ Stranded(op)

\* "When an operation completes, the corresponfing call-back is invoked"
\* (mpi/communicator.hpp:105-106), without the exception.
EveryCompletionCallsBack == \A op \in Ops : req[op] = "complete" ~> calls[op] = 1
-----------------------------------------------------------------------------
\* The communicator implements the promise to callers, with the history of
\* what it did as the refinement mapping.
posted == {op \in Ops : req[op] # "none"}
C == INSTANCE Completions
ImplementsCompletions == C!Spec
=============================================================================
