----------------------------- MODULE AccessGuard -----------------------------
(***************************************************************************)
(* The access guard of threads of the same rank, rma/thread/access_guard.  *)
(* hpp: the mode of a halo behind a mutex and a condition variable, which  *)
(* the owner of the halo (the target) and its source share.  A run starts  *)
(* with the handshake (structured/rma_range_generator.hpp:59-80, 147-157), *)
(* goes through any number of rounds and ends with the owner destroying    *)
(* the guard.                                                              *)
(***************************************************************************)
VARIABLES m_mode,  \* access_state: the epoch
          m_mtx,   \* access_state: the party that holds the mutex, or "free"
          pc,      \* pc[p]: where party p is
          last,    \* the round that was opened last is the last one
          alive    \* the guard has not been destroyed

vars == <<m_mode, m_mtx, pc, last, alive>>

Parties == {"target", "source"}
Other(p) == IF p = "target" THEN "source" ELSE "target"

\* The mode in which p may access the halo.
OwnMode(p) == IF p = "target" THEN "local" ELSE "remote"

PCs == {"outside",                     \* in no epoch
        "try_lock", "try_test",        \* in try_start_*_epoch
        "wait_lock", "wait_test",      \* in start_*_epoch
        "asleep",                      \* waiting on m_cv
        "epoch",                       \* in its epoch
        "end_lock", "end_set",         \* in end_*_epoch
        "notify",                      \* in end_*_epoch, the mutex released
        "over"}                        \* makes no more calls

TypeOK == /\ m_mode \in {"local", "remote"}
          /\ m_mtx \in Parties \cup {"free"}
          /\ pc \in [Parties -> PCs]
          /\ last \in BOOLEAN
          /\ alive \in BOOLEAN
-----------------------------------------------------------------------------
\* The range is made in mode remote; the source, which ends an epoch before
\* it has started one, is inside from the beginning.
Init == /\ m_mode = "remote"
        /\ m_mtx = "free"
        /\ pc = [target |-> "outside", source |-> "epoch"]
        /\ last = FALSE
        /\ alive = TRUE

Goto(p, to) == pc' = [pc EXCEPT ![p] = to]

\* start_*_epoch or try_start_*_epoch is called.
Call(p) == /\ pc[p] = "outside"
           /\ Goto(p, "try_lock") \/ Goto(p, "wait_lock")
           /\ UNCHANGED <<m_mode, m_mtx, last, alive>>

\* end_*_epoch is called, by the owner unless the last round is over.
End(p) == /\ pc[p] = "epoch"
          /\ p = "target" => ~last
          /\ Goto(p, "end_lock")
          /\ UNCHANGED <<m_mode, m_mtx, last, alive>>

Lock(p) == /\ pc[p] \in {"try_lock", "wait_lock", "end_lock"}
           /\ m_mtx = "free"
           /\ m_mtx' = p
           /\ Goto(p, CASE pc[p] = "try_lock" -> "try_test"
                        [] pc[p] = "wait_lock" -> "wait_test"
                        [] pc[p] = "end_lock" -> "end_set")
           /\ UNCHANGED <<m_mode, last, alive>>

\* try_start_*_epoch looks at the mode and returns.
TryTest(p) == /\ pc[p] = "try_test"
              /\ m_mtx' = "free"
              /\ Goto(p, IF m_mode = OwnMode(p) THEN "epoch" ELSE "outside")
              /\ UNCHANGED <<m_mode, last, alive>>

\* start_*_epoch: m_cv.wait evaluates its predicate; it returns, or releases
\* the mutex and falls asleep in one.
WaitTest(p) == /\ pc[p] = "wait_test"
               /\ m_mtx' = "free"
               /\ Goto(p, IF m_mode = OwnMode(p) THEN "epoch" ELSE "asleep")
               /\ UNCHANGED <<m_mode, last, alive>>

\* A waiter may also wake up for no reason.
SpuriousWakeup(p) == /\ pc[p] = "asleep"
                     /\ Goto(p, "wait_lock")
                     /\ UNCHANGED <<m_mode, m_mtx, last, alive>>

\* end_*_epoch hands the halo over and releases the mutex ...  At some time
\* the owner does so for the last time.
EndSet(p) == /\ pc[p] = "end_set"
             /\ m_mode' = OwnMode(Other(p))
             /\ m_mtx' = "free"
             /\ Goto(p, "notify")
             /\ last' \in (IF p = "target" THEN BOOLEAN ELSE {last})
             /\ UNCHANGED alive

\* The source makes no more calls when it has ended the last round.
Finishes(p) == p = "source" /\ last /\ m_mode = "local"

\* Mutant of Notify: nobody is woken up.
NotifyNobody(p) == /\ pc[p] = "notify"
                   /\ Goto(p, IF Finishes(p) THEN "over" ELSE "outside")
                   /\ UNCHANGED <<m_mode, m_mtx, last, alive>>

\* ... before it wakes up the other party.
Notify(p) == /\ pc[p] = "notify"
             /\ pc' = [pc EXCEPT ![p] = IF Finishes(p) THEN "over" ELSE "outside",
                                 ![Other(p)] = IF @ = "asleep" THEN "wait_lock" ELSE @]
             /\ UNCHANGED <<m_mode, m_mtx, last, alive>>

\* Back in its epoch after the last round, the owner destroys the guard with
\* its bulk communication object.
Destroy == /\ pc["target"] = "epoch"
           /\ last
           /\ alive' = FALSE
           /\ Goto("target", "over")
           /\ UNCHANGED <<m_mode, m_mtx, last>>

Step(p) == \/ Call(p) \/ End(p) \/ Lock(p) \/ TryTest(p) \/ WaitTest(p)
           \/ EndSet(p) \/ Notify(p)
           \/ p = "target" /\ Destroy

Finished == (\A p \in Parties : pc[p] = "over") /\ UNCHANGED vars

Next == (\E p \in Parties : Step(p) \/ SpuriousWakeup(p)) \/ Finished

\* Both parties go on, and neither is kept from the mutex for ever.
Fairness == \A p \in Parties : WF_vars(Step(p)) /\ SF_vars(Lock(p))

Spec == Init /\ [][Next]_vars /\ Fairness
-----------------------------------------------------------------------------
(***************************************************************************)
(* m_cv.notify_one comes after the mutex is released                       *)
(* (thread/access_guard.hpp:79-87, 118-125): still, whoever sleeps while   *)
(* the mode is its own is about to be woken.                               *)
(***************************************************************************)
NoLostWakeup ==
    \A p \in Parties :
        (pc[p] = "asleep" /\ m_mode = OwnMode(p)) => pc[Other(p)] = "notify"

(***************************************************************************)
(* A blocked start_*_epoch returns (thread/access_guard.hpp:67-71,         *)
(* 106-110) once the other party has ended its epoch.                      *)
(***************************************************************************)
StartReturns ==
    \A p \in Parties : pc[p] \in {"wait_lock", "wait_test", "asleep"} ~> pc[p] = "epoch"

(***************************************************************************)
(* "end a source epoch: signal the end of read/write access to the         *)
(* resource owning process" (access_guard.hpp:99): with the signal the     *)
(* source is done, so that the owner may do with the halo and its guard    *)
(* what it wants.                                                          *)
(***************************************************************************)
GuardOutlivesUse == ~alive => \A p \in Parties : pc[p] = "over"

\* Where a party is in its epoch of the guard; having destroyed the guard, the
\* owner stays in its epoch for good.
Inside(p) == \/ pc[p] \in {"epoch", "end_lock", "end_set"}
             \/ p = "target" /\ ~alive
=============================================================================
