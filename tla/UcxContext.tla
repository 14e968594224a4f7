----------------------------- MODULE UcxContext -----------------------------
(***************************************************************************)
(* The life of the UCX contexts of all ranks (transport_layer/ucx/         *)
(* context.hpp, worker.hpp, endpoint.hpp, address_db_mpi.hpp,              *)
(* address_db_pmi.hpp): the workers are made and their addresses are       *)
(* exchanged, communicators connect to the shared workers of other ranks   *)
(* when they first send to them, and in the end everything is taken down   *)
(* while messages may still be under way.                                  *)
(*                                                                         *)
(* The address of a worker is the rank it belongs to.  A message counts as *)
(* under way until UCX has made progress on the worker that it goes to.    *)
(* Ranks do not send to themselves here.                                   *)
(***************************************************************************)
EXTENDS Naturals

CONSTANTS N,          \* the number of ranks
          MaxWorkers  \* bound: calls of get_communicator on a rank

ASSUME NAssumption == N \in Nat \ {0} /\ MaxWorkers \in Nat

Ranks == 0 .. N - 1
Shared == 0                       \* m_worker; 1, 2, ... are m_workers
Workers == 0 .. MaxWorkers
Endpoints == {e \in [rank : Ranks, worker : Workers, to : Ranks] : e.to # e.rank}

VARIABLES
  use_pmi,   \* whether the addresses are exchanged through PMI (GHEX_USE_PMI)
  phase,     \* where a rank is in the life of its context
  root,      \* root[r]: the broadcasts rank r has been through in init
  db,        \* db[r]: the ranks whose address rank r can find
  alive,     \* alive[r]: the workers of rank r that exist
  eps,       \* the endpoints in the caches of all workers
  under_way  \* the endpoints with messages under way

cvars == <<use_pmi, phase, root, db, alive, eps, under_way>>

Phases == {"worker", "init", "fence", "up", "drain", "close", "barrier", "gone"}

ContextTypeOK == /\ use_pmi \in BOOLEAN
                 /\ phase \in [Ranks -> Phases]
                 /\ root \in [Ranks -> 0 .. N]
                 /\ db \in [Ranks -> SUBSET Ranks]
                 /\ alive \in [Ranks -> SUBSET Workers]
                 /\ eps \subseteq Endpoints
                 /\ under_way \subseteq eps

ContextInit == /\ use_pmi \in BOOLEAN
               /\ phase = [r \in Ranks |-> "worker"]
               /\ root = [r \in Ranks |-> 0]
               /\ db = [r \in Ranks |-> {}]
               /\ alive = [r \in Ranks |-> {}]
               /\ eps = {}
               /\ under_way = {}

Enter(r, p) == phase' = [phase EXCEPT ![r] = p]
Reached(r, ps) == phase[r] \notin ps
-----------------------------------------------------------------------------
(* Construction *)

MakeSharedWorker(r) == /\ phase[r] = "worker"
                       /\ alive' = [alive EXCEPT ![r] = {Shared}]
                       /\ Enter(r, "init")
                       /\ UNCHANGED <<use_pmi, root, db, eps, under_way>>

\* One round of address_db_mpi::init.  The root of a broadcast leaves it
\* before the others.
Broadcast(r) ==
  /\ ~use_pmi
  /\ phase[r] = "init" /\ root[r] < N
  /\ root[r] = r \/ root[root[r]] > root[r]
  /\ db' = [db EXCEPT ![r] = @ \cup {root[r]}]
  /\ root' = [root EXCEPT ![r] = @ + 1]
  /\ UNCHANGED <<use_pmi, phase, alive, eps, under_way>>

InitReturns(r) == /\ phase[r] = "init" /\ root[r] = N
                  /\ Enter(r, "up")
                  /\ UNCHANGED <<use_pmi, root, db, alive, eps, under_way>>

\* address_db_pmi::init: the address is published, ...
Publish(r) == /\ use_pmi
              /\ phase[r] = "init"
              /\ Enter(r, "fence")
              /\ UNCHANGED <<use_pmi, root, db, alive, eps, under_way>>

\* ... and the exchange is a fence.
Fence(r) == /\ phase[r] = "fence"
            /\ \A d \in Ranks : Reached(d, {"worker", "init"})
            /\ db' = [db EXCEPT ![r] = {d \in Ranks : Reached(d, {"worker", "init"})}]
            /\ Enter(r, "up")
            /\ UNCHANGED <<use_pmi, root, alive, eps, under_way>>
-----------------------------------------------------------------------------
(* Communication *)

GetCommunicator(r) == /\ phase[r] = "up"
                      /\ \E w \in Workers \ alive[r] :
                           /\ \A v \in Workers : v < w => v \in alive[r]
                           /\ alive' = [alive EXCEPT ![r] = @ \cup {w}]
                      /\ UNCHANGED <<use_pmi, phase, root, db, eps, under_way>>

\* A send connects first, unless the endpoint is in the cache.
SendTo(r, w, d) ==
  LET e == [rank |-> r, worker |-> w, to |-> d]
  IN  /\ phase[r] = "up" /\ w \in alive[r] /\ d # r
      /\ e \in eps \/ d \in db[r]
      /\ eps' = eps \cup {e}
      /\ under_way' = under_way \cup {e}
      /\ UNCHANGED <<use_pmi, phase, root, db, alive>>

\* The endpoint that rank r closes next: those of m_workers come first.
Closing(r, e) == /\ phase[r] = "close" /\ e \in eps /\ e.rank = r
                 /\ \A f \in eps : f.rank = r /\ e.worker = Shared => f.worker = Shared

\* Rank d makes progress on its shared worker: it runs, it waits for the
\* others to finish, or it flushes an endpoint of that worker.
Progresses(d) == \/ phase[d] \in {"up", "drain"}
                 \/ \E e \in eps : Closing(d, e) /\ e.worker = Shared

Arrive(e) == /\ e \in under_way
             /\ Progresses(e.to)
             /\ under_way' = under_way \ {e}
             /\ UNCHANGED <<use_pmi, phase, root, db, alive, eps>>
-----------------------------------------------------------------------------
(* Destruction *)

\* MPI_Ibarrier, after which all workers are progressed ...
Destruct(r) == /\ phase[r] = "up"
               /\ Enter(r, "drain")
               /\ UNCHANGED <<use_pmi, root, db, alive, eps, under_way>>

\* ... until all ranks have come to it.
Drained(r) == /\ phase[r] = "drain"
              /\ \A d \in Ranks : Reached(d, {"worker", "init", "fence", "up"})
              /\ Enter(r, "close")
              /\ UNCHANGED <<use_pmi, root, db, alive, eps, under_way>>

\* Mutant of CloseEndpoint: the flush has no time limit.
CloseFlushed(r, e) == /\ Closing(r, e)
                      /\ e \notin under_way
                      /\ eps' = eps \ {e}
                      /\ UNCHANGED <<use_pmi, phase, root, db, alive, under_way>>

\* endpoint_t::destroy: the flush ends, or two seconds are over.
CloseEndpoint(r, e) == /\ Closing(r, e)
                       /\ eps' = eps \ {e}
                       /\ under_way' = under_way \ {e}
                       /\ UNCHANGED <<use_pmi, phase, root, db, alive>>

\* Mutant of EndpointsClosed: there is no second barrier.
EndpointsClosedAlone(r) == /\ phase[r] = "close"
                           /\ \A e \in eps : e.rank # r
                           /\ Enter(r, "gone")
                           /\ alive' = [alive EXCEPT ![r] = {}]
                           /\ UNCHANGED <<use_pmi, root, db, eps, under_way>>

EndpointsClosed(r) == /\ phase[r] = "close"
                      /\ \A e \in eps : e.rank # r
                      /\ Enter(r, "barrier")
                      /\ UNCHANGED <<use_pmi, root, db, alive, eps, under_way>>

\* After MPI_Barrier the members go: the workers, then the UCX context.
DestroyWorkers(r) == /\ phase[r] = "barrier"
                     /\ \A d \in Ranks : phase[d] \in {"barrier", "gone"}
                     /\ Enter(r, "gone")
                     /\ alive' = [alive EXCEPT ![r] = {}]
                     /\ UNCHANGED <<use_pmi, root, db, eps, under_way>>
-----------------------------------------------------------------------------
ContextStep(r) == \/ MakeSharedWorker(r) \/ Broadcast(r) \/ InitReturns(r)
                  \/ Publish(r) \/ Fence(r)
                  \/ Drained(r) \/ (\E e \in eps : CloseEndpoint(r, e))
                  \/ EndpointsClosed(r) \/ DestroyWorkers(r)

ContextNext == \/ \E r \in Ranks : \/ ContextStep(r) \/ GetCommunicator(r) \/ Destruct(r)
                                   \/ \E w \in Workers, d \in Ranks : SendTo(r, w, d)
               \/ \E e \in eps : Arrive(e)

\* Construction and destruction go on; the flush of an endpoint ends at the
\* latest when its time is over.  Whether a program destroys its context is
\* not known.
ContextFairness == \A r \in Ranks : WF_cvars(ContextStep(r))

ContextSpec == ContextInit /\ [][ContextNext]_cvars /\ ContextFairness
-----------------------------------------------------------------------------
\* Once a context is constructed all ranks can be found, and an endpoint joins
\* two workers that exist, although every rank constructs and destroys its
\* context on its own and messages may be under way to a rank that is closing
\* (context.hpp:61-82; worker.hpp:109-118).
EndpointsValid ==
  /\ \A r \in Ranks : phase[r] = "up" => db[r] = Ranks
  /\ \A e \in eps : e.worker \in alive[e.rank] /\ Shared \in alive[e.to]

\* If all ranks destroy their contexts, every destructor returns, also that of
\* a rank with messages for one that has closed its endpoints and waits in the
\* second barrier without progress (endpoint.hpp:60-93).
DestructorsReturn ==
  (\A r \in Ranks : Reached(r, {"worker", "init", "fence", "up"}))
    ~> (\A r \in Ranks : phase[r] = "gone")
=============================================================================
