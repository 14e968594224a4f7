------------------------------ MODULE RmaRange ------------------------------
(***************************************************************************)
(* A halo that a thread of the same rank, or another process of the node,  *)
(* writes by itself: the target range of the owner and the source range    *)
(* that is made of its archive (structured/rma_range_generator.hpp), with  *)
(* the handle that makes the memory of the field accessible, the guard of  *)
(* AccessGuard or the guard of one byte, and the event that tells when the *)
(* kernels of a put have finished.                                         *)
(***************************************************************************)
EXTENDS AccessGuard, Integers, Sequences

CONSTANTS Ranges,    \* the ranges: [loc, guard, ordered, source_gpu, target_gpu, ptr, size, cached]
          PageSize,  \* of the owner's memory
          Bases      \* page addresses at which the source's process may map foreign memory

ASSUME RangeAssumption ==
  /\ PageSize \in Nat \ {0}
  /\ \A b \in Bases : b % PageSize = 0
  /\ \A r \in Ranges : r.loc = "thread" => r.guard = "mutex"

VARIABLES range,   \* the range of this behaviour
          handle,  \* m_remote_range.m_handle: the pointer, and what the process maps where
          cache,   \* resource_cache of the source's process: device pointer -> its own pointer
          stream,  \* m_event's stream: puts and events the device has still to reach
          stores,  \* the source's stores to the halo are not all visible yet
          stage    \* stage[p]: how far p is in its epoch

rvars == <<range, handle, cache, stream, stores, stage>>

----------------------------------------------------------------------------
\* Handles.

AlignDown(n) == n - (n % PageSize)
AlignUp(n) == AlignDown(n + PageSize - 1)

\* What a process sees that has mapped size bytes from start at base.
Mapping(base, start, size) == [a \in base .. base + size - 1 |-> start + (a - base)]

XpmemInfo(r) ==
  LET start == AlignDown(r.ptr)
  IN  [start |-> start, size |-> AlignUp(r.ptr + r.size) - start, offset |-> r.ptr - start]

\* Mutant of XpmemHandle: the start of the segment.
XpmemHandleUnshifted(r, base) ==
  [ptr |-> base, map |-> Mapping(base, XpmemInfo(r).start, XpmemInfo(r).size)]

XpmemHandle(r, base) ==
  LET i == XpmemInfo(r)
  IN  [ptr |-> base + i.offset, map |-> Mapping(base, i.start, i.size)]

\* Memory of a device is mapped once per process, whatever the ranges on it.
CudaHandle(r, base) == [ptr |-> base, map |-> Mapping(base, r.ptr, r.size)]

ThreadHandle(r) == [ptr |-> r.ptr, map |-> Mapping(r.ptr, r.ptr, r.size)]

NoHandle == [ptr |-> 0, map |-> <<>>]

\* The pointer leads to the field of the owner.
Reaches(h, r) ==
  \A k \in 0 .. r.size - 1 : h.ptr + k \in DOMAIN h.map /\ h.map[h.ptr + k] = r.ptr + k

\* resource_cache: another range of the process has mapped the same memory.
Cached == range.ptr \in DOMAIN cache

\* remote_handle: the process maps the memory, or finds it mapped.
OpenHandle ==
  \/ range.loc = "thread" /\ handle' = ThreadHandle(range) /\ UNCHANGED cache
  \/ /\ range.loc = "process" /\ ~range.target_gpu
     /\ \E base \in Bases : handle' = XpmemHandle(range, base)
     /\ UNCHANGED cache
  \/ /\ range.loc = "process" /\ range.target_gpu
     /\ \/ /\ Cached
           /\ handle' = CudaHandle(range, cache[range.ptr])
           /\ UNCHANGED cache
        \/ /\ ~Cached
           /\ \E base \in Bases : /\ handle' = CudaHandle(range, base)
                                  /\ cache' = [d \in DOMAIN cache \cup {range.ptr} |->
                                                 IF d = range.ptr THEN base ELSE cache[d]]

----------------------------------------------------------------------------
RangeInit ==
  /\ Init
  /\ range \in Ranges
  /\ handle = NoHandle
  /\ \E base \in Bases : cache = [d \in (IF range.cached THEN {range.ptr} ELSE {}) |-> base]
  /\ stream = <<>>
  /\ stores = FALSE
  /\ stage = [target |-> "event", source |-> "archive"]

Advance(p, to) == stage' = [stage EXCEPT ![p] = to]

\* source_range::recv, up to the end of the source's first epoch.
Deserialize ==
  /\ pc["source"] = "epoch" /\ stage["source"] = "archive"
  /\ OpenHandle
  /\ Advance("source", "end")
  /\ UNCHANGED <<vars, range, stream, stores>>

\* The puts from and to a device are asynchronous, but for the detour from a
\* device to the memory of another process.
OnStream == range.target_gpu \/ (range.source_gpu /\ range.loc = "thread")
OnDevice == range.target_gpu \/ range.source_gpu

\* source_range::put.  A put to memory that is not the owner's ends the program.
Put ==
  /\ pc["source"] = "epoch" /\ stage["source"] = "put"
  /\ Advance("source", IF Reaches(handle, range) THEN "record" ELSE "crashed")
  /\ stream' = IF OnStream THEN Append(stream, "put") ELSE stream
  /\ stores' = ~OnStream
  /\ UNCHANGED <<vars, range, handle, cache>>

\* Mutant of Record: only if the source is on a device.
RecordOfSource ==
  /\ pc["source"] = "epoch" /\ stage["source"] = "record"
  /\ stream' = IF range.source_gpu THEN Append(stream, "event") ELSE stream
  /\ Advance("source", "end")
  /\ UNCHANGED <<vars, range, handle, cache, stores>>

\* source_range::end_source_epoch records the event ...
Record ==
  /\ pc["source"] = "epoch" /\ stage["source"] = "record"
  /\ stream' = IF OnDevice THEN Append(stream, "event") ELSE stream
  /\ Advance("source", "end")
  /\ UNCHANGED <<vars, range, handle, cache, stores>>

\* ... and target_range::start_target_epoch waits for it, once in the epoch of the guard.
AwaitEvent ==
  /\ pc["target"] = "epoch" /\ stage["target"] = "event"
  /\ \A k \in DOMAIN stream : stream[k] # "event"
  /\ Advance("target", "in")
  /\ UNCHANGED <<vars, range, handle, cache, stream, stores>>

\* The guard's epoch ends when the range is through with it.
EndEpoch(p) ==
  /\ stage[p] = (IF p = "target" THEN "in" ELSE "end")
  /\ End(p)
  /\ Advance(p, IF p = "target" THEN "event" ELSE "put")
  /\ UNCHANGED <<range, handle, cache, stream, stores>>

DestroyRange ==
  /\ stage["target"] = "in" /\ Destroy
  /\ UNCHANGED rvars

\* What the mode's new value is not to overtake.
Published(p) == p = "source" /\ range.ordered => ~stores

\* The guards with a mutex, of threads and of processes (shmem).
MutexStep(p) ==
  /\ range.guard = "mutex"
  /\ \/ Lock(p) \/ TryTest(p) \/ WaitTest(p) \/ Notify(p)
     \/ EndSet(p) /\ (p = "source" => ~stores)
  /\ UNCHANGED rvars

\* The guard of one byte (xpmem): start_*_epoch polls it.
PollTry(p) ==
  /\ pc[p] = "try_lock"
  /\ Goto(p, IF m_mode = OwnMode(p) THEN "epoch" ELSE "outside")
  /\ UNCHANGED <<m_mode, m_mtx, last, alive>>
PollWait(p) ==
  /\ pc[p] = "wait_lock" /\ m_mode = OwnMode(p)
  /\ Goto(p, "epoch")
  /\ UNCHANGED <<m_mode, m_mtx, last, alive>>
StoreMode(p) ==
  /\ pc[p] = "end_lock" /\ Published(p)
  /\ m_mode' = OwnMode(Other(p))
  /\ Goto(p, IF p = "source" /\ last THEN "over" ELSE "outside")
  /\ last' \in (IF p = "target" THEN BOOLEAN ELSE {last})
  /\ UNCHANGED <<m_mtx, alive>>
ByteStep(p) ==
  /\ range.guard = "byte"
  /\ PollTry(p) \/ PollWait(p) \/ StoreMode(p)
  /\ UNCHANGED rvars

\* The device reaches the next operation of the stream.
Execute ==
  /\ stream # <<>>
  /\ stream' = Tail(stream)
  /\ UNCHANGED <<vars, range, handle, cache, stores, stage>>

\* The memory shows the source's stores to the owner.
Visible ==
  /\ stores
  /\ stores' = FALSE
  /\ UNCHANGED <<vars, range, handle, cache, stream, stage>>

RangeStep(p) ==
  \/ Call(p) /\ UNCHANGED rvars
  \/ EndEpoch(p) \/ MutexStep(p) \/ ByteStep(p)
  \/ p = "source" /\ (Deserialize \/ Put \/ Record)
  \/ p = "target" /\ (AwaitEvent \/ DestroyRange)

RangeFinished == Finished /\ UNCHANGED rvars

RangeNext ==
  \/ \E p \in Parties : RangeStep(p) \/ (range.guard = "mutex" /\ SpuriousWakeup(p) /\ UNCHANGED rvars)
  \/ Execute \/ Visible \/ RangeFinished

\* Both parties and the device go on, memory becomes visible, and nobody is
\* kept from the mutex for ever.
RangeFairness ==
  /\ \A p \in Parties :
       /\ WF_<<vars, rvars>>(RangeStep(p))
       /\ SF_<<vars, rvars>>(range.guard = "mutex" /\ Lock(p) /\ UNCHANGED rvars)
  /\ WF_<<vars, rvars>>(Execute)
  /\ WF_<<vars, rvars>>(Visible)

RangeSpec == RangeInit /\ [][RangeNext]_<<vars, rvars>> /\ RangeFairness

----------------------------------------------------------------------------
(***************************************************************************)
(* "The asynchronous GPU kernels involved with the one-sided put are       *)
(* guaranteed to be finished once the wait function returns" (event.hpp:   *)
(* 33-35): the owner's epoch starts when nothing of the put is left, on    *)
(* any side of any device, and then the turns are those of AccessEpochs.   *)
(***************************************************************************)
PutPending == stores \/ \E k \in DOMAIN stream : stream[k] = "put"

InRange(p) ==
  IF p = "target"
  THEN pc[p] \in {"end_lock", "end_set"} \/ (pc[p] = "epoch" /\ stage[p] = "in") \/ ~alive
  ELSE Inside(p) \/ PutPending

Epochs == INSTANCE AccessEpochs
          WITH turn <- IF m_mode = "local" /\ ~PutPending THEN "target" ELSE "source",
               inside <- IF InRange("target") THEN "target"
                         ELSE IF InRange("source") THEN "source" ELSE "nobody"

RangesImplementEpochs == Epochs!Spec
=============================================================================
