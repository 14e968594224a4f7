---------------------------- MODULE BulkExchange ----------------------------
(***************************************************************************)
(* bulk_communication_object.hpp with the ranges and access guards it is   *)
(* built on (structured/rma_range_generator.hpp, rma/access_guard.hpp).    *)
(* Every bulk communication object is driven by a thread of its own, on    *)
(* the same or on different ranks.  A halo on shared memory is filled by   *)
(* its source through a put, guarded by the halo's access guard; the other *)
(* halos travel as messages through the communication object m_co.         *)
(*                                                                         *)
(* A guard's mode is read and written under its lock, so each epoch        *)
(* operation is a step; the put between them is not.  The loops over       *)
(* ranges and await_requests visit one range per step, in any order.       *)
(***************************************************************************)
EXTENDS Integers, Sequences

CONSTANTS COs,       \* the bulk communication objects
          Links,     \* the halos of all registered fields
          Src, Dst,  \* Src[l], Dst[l]: the COs halo l is filled from and belongs to
          Local,     \* the halos whose ends share memory (rma::is_local)
          MaxRound,  \* bound: exchanges per CO
          MaxVersion \* bound: different contents of a field

ASSUME BulkAssumption ==
    /\ Src \in [Links -> COs]
    /\ Dst \in [Links -> COs]
    /\ Local \subseteq Links
    /\ MaxRound \in Nat
    /\ MaxVersion \in Nat

VARIABLES pc,      \* pc[c]: how far c's thread is
          todo,    \* todo[c]: the halos its current loop still has to visit
          archive, \* archive[l]: the serialized target range of local halo l
          mode,    \* mode[l]: the epoch of l's access guard
          chan,    \* chan[l]: messages under way for remote halo l
          field,   \* field[c]: version of the interior of c's field
          writing, \* the halos a put is under way to
          halo,    \* halo[l]: the version halo l holds
          sent     \* history: sent[c][n] is field[c] when c called exchange the n-th time

vars == <<pc, todo, archive, mode, chan, field, writing, halo, sent>>

Remote == Links \ Local

In(c)  == {l \in Links : Dst[l] = c}   \* target ranges
Out(c) == {l \in Links : Src[l] = c}   \* source ranges

\* The content of a halo that is not, or only partly, written.
Torn == 0

PCs == {"new", "added", "recv", "send", "ready", "open", "put", "returned",
        "wait_remote", "wait_local"}

TypeOK == /\ pc \in [COs -> PCs]
          /\ todo \in [COs -> SUBSET Links]
          /\ archive \in [Links -> {"none", "sent", "received"}]
          /\ mode \in [Links -> {"local", "remote"}]
          /\ chan \in [Links -> Seq(Nat)]
          /\ field \in [COs -> Nat]
          /\ writing \subseteq Links
          /\ halo \in [Links -> Nat]
          /\ sent \in [COs -> Seq(Nat)]
-----------------------------------------------------------------------------
Init == /\ pc = [c \in COs |-> "new"]
        /\ todo = [c \in COs |-> {}]
        /\ archive = [l \in Links |-> "none"]
        /\ mode = [l \in Links |-> "remote"]
        /\ chan = [l \in Links |-> << >>]
        /\ field = [c \in COs |-> 1]
        /\ writing = {}
        /\ halo = [l \in Links |-> Torn]
        /\ sent = [c \in COs |-> << >>]

\* c's thread goes from one label to the next, where it has ls to visit.
Goto(c, from, to, ls) == /\ pc[c] = from
                         /\ todo[c] = {}
                         /\ pc' = [pc EXCEPT ![c] = to]
                         /\ todo' = [todo EXCEPT ![c] = ls]

\* c's thread, at a label, is done with range l.
Visit(c, at, l) == /\ pc[c] = at
                   /\ l \in todo[c]
                   /\ todo' = [todo EXCEPT ![c] = @ \ {l}]
                   /\ UNCHANGED pc

\* add_field: the target ranges send their archives, with guards in mode
\* remote; the source ranges post their receives.
AddField(c) ==
    /\ Goto(c, "new", "added", {})
    /\ archive' = [l \in Links |-> IF l \in In(c) \cap Local THEN "sent" ELSE archive[l]]
    /\ UNCHANGED <<mode, chan, field, writing, halo, sent>>

\* init, called by the user or by the first exchange.
InitRecv(c) == /\ Goto(c, "added", "recv", Out(c) \cap Local)
               /\ UNCHANGED <<archive, mode, chan, field, writing, halo, sent>>

\* Mutant of Recv: the source keeps the halo after the handshake.
RecvKeepsEpoch(c, l) == /\ Visit(c, "recv", l)
                        /\ archive[l] = "sent"
                        /\ archive' = [archive EXCEPT ![l] = "received"]
                        /\ UNCHANGED <<mode, chan, field, writing, halo, sent>>

\* source_range::recv: wait for the archive, build the remote range and hand
\* the halo back to its owner.
Recv(c, l) == /\ Visit(c, "recv", l)
              /\ archive[l] = "sent"
              /\ archive' = [archive EXCEPT ![l] = "received"]
              /\ mode' = [mode EXCEPT ![l] = "local"]
              /\ UNCHANGED <<chan, field, writing, halo, sent>>

InitSend(c) == /\ Goto(c, "recv", "send", In(c) \cap Local)
               /\ UNCHANGED <<archive, mode, chan, field, writing, halo, sent>>

\* target_range::send: wait for the archive to be sent and for the source to
\* hand the halo back.
Send(c, l) == /\ Visit(c, "send", l)
              /\ mode[l] = "local"
              /\ UNCHANGED <<archive, mode, chan, field, writing, halo, sent>>

Initialized(c) == /\ Goto(c, "send", "ready", {})
                  /\ UNCHANGED <<archive, mode, chan, field, writing, halo, sent>>

\* exchange: first the halos are made writable for their sources, ...
Exchange(c) == /\ Len(sent[c]) < MaxRound
               /\ Goto(c, "ready", "open", In(c) \cap Local)
               /\ sent' = [sent EXCEPT ![c] = Append(@, field[c])]
               /\ UNCHANGED <<archive, mode, chan, field, writing, halo>>

EndTargetEpoch(c, l) == /\ Visit(c, "open", l)
                        /\ mode' = [mode EXCEPT ![l] = "remote"]
                        /\ UNCHANGED <<archive, chan, field, writing, halo, sent>>

\* ... then the remote exchange packs and sends, ...
ExchangeRemote(c) ==
    /\ Goto(c, "open", "put", Out(c) \cap Local)
    /\ chan' = [l \in Links |-> IF l \in Out(c) \cap Remote
                                THEN Append(chan[l], field[c]) ELSE chan[l]]
    /\ UNCHANGED <<archive, mode, field, writing, halo, sent>>

\* Mutant of StartPut: the source does not wait for its epoch.
StartPutUnguarded(c, l) == /\ pc[c] = "put"
                           /\ l \in todo[c]
                           /\ writing \cap Out(c) = {}
                           /\ writing' = writing \cup {l}
                           /\ halo' = [halo EXCEPT ![l] = Torn]
                           /\ UNCHANGED <<pc, todo, archive, mode, chan, field, sent>>

\* ... and a put is made to each local halo once its owner has opened it.
StartPut(c, l) == /\ pc[c] = "put"
                  /\ l \in todo[c]
                  /\ writing \cap Out(c) = {}
                  /\ mode[l] = "remote"
                  /\ writing' = writing \cup {l}
                  /\ halo' = [halo EXCEPT ![l] = Torn]
                  /\ UNCHANGED <<pc, todo, archive, mode, chan, field, sent>>

\* Mutant of EndPut: the source does not end its epoch.
EndPutKeepsEpoch(c, l) == /\ l \in writing
                          /\ Visit(c, "put", l)
                          /\ writing' = writing \ {l}
                          /\ halo' = [halo EXCEPT ![l] = field[c]]
                          /\ UNCHANGED <<archive, mode, chan, field, sent>>

EndPut(c, l) == /\ l \in writing
                /\ Visit(c, "put", l)
                /\ writing' = writing \ {l}
                /\ halo' = [halo EXCEPT ![l] = field[c]]
                /\ mode' = [mode EXCEPT ![l] = "local"]
                /\ UNCHANGED <<archive, chan, field, sent>>

Return(c) == /\ Goto(c, "put", "returned", {})
             /\ UNCHANGED <<archive, mode, chan, field, writing, halo, sent>>

\* The user computes: between two exchanges, and on the interior of the field
\* already when exchange has returned.
Compute(c) == /\ pc[c] \in {"ready", "returned"}
              /\ field[c] < MaxVersion
              /\ field' = [field EXCEPT ![c] = @ + 1]
              /\ UNCHANGED <<pc, todo, archive, mode, chan, writing, halo, sent>>

\* handle::wait: first the remote halos, unpacked as they arrive, ...
WaitRemote(c) == /\ Goto(c, "returned", "wait_remote", In(c) \cap Remote)
                 /\ UNCHANGED <<archive, mode, chan, field, writing, halo, sent>>

Unpack(c, l) == /\ Visit(c, "wait_remote", l)
                /\ chan[l] # << >>
                /\ chan' = [chan EXCEPT ![l] = Tail(@)]
                /\ halo' = [halo EXCEPT ![l] = Head(chan[l])]
                /\ UNCHANGED <<archive, mode, field, writing, sent>>

\* Mutant of WaitLocal: only the remote halos are waited for.
WaitLocalSkipped(c) == /\ Goto(c, "wait_remote", "wait_local", {})
                       /\ UNCHANGED <<archive, mode, chan, field, writing, halo, sent>>

\* ... then the local ones, until every source has ended its epoch.
WaitLocal(c) == /\ Goto(c, "wait_remote", "wait_local", In(c) \cap Local)
                /\ UNCHANGED <<archive, mode, chan, field, writing, halo, sent>>

\* Mutant of TryStartTargetEpoch: the guard is not looked at.
TryStartTargetEpochBlindly(c, l) == /\ Visit(c, "wait_local", l)
                                    /\ UNCHANGED <<archive, mode, chan, field, writing, halo, sent>>

TryStartTargetEpoch(c, l) == /\ Visit(c, "wait_local", l)
                             /\ mode[l] = "local"
                             /\ UNCHANGED <<archive, mode, chan, field, writing, halo, sent>>

Complete(c) == /\ Goto(c, "wait_local", "ready", {})
               /\ UNCHANGED <<archive, mode, chan, field, writing, halo, sent>>

\* The thread of c is inside add_field, init, exchange or wait, or calls it.
Library(c) ==
    \/ AddField(c) \/ InitRecv(c) \/ InitSend(c) \/ Initialized(c)
    \/ Exchange(c) \/ ExchangeRemote(c) \/ Return(c)
    \/ WaitRemote(c) \/ WaitLocal(c) \/ Complete(c)
    \/ \E l \in Links :
          \/ Recv(c, l) \/ Send(c, l) \/ EndTargetEpoch(c, l)
          \/ StartPut(c, l) \/ EndPut(c, l)
          \/ Unpack(c, l) \/ TryStartTargetEpoch(c, l)

Finished == /\ \A c \in COs : pc[c] = "ready" /\ Len(sent[c]) = MaxRound
            /\ UNCHANGED vars

Next == (\E c \in COs : Library(c) \/ Compute(c)) \/ Finished

\* Every thread is scheduled, makes its calls and waits for its handles.
Fairness == \A c \in COs : WF_vars(Library(c))

Spec == Init /\ [][Next]_vars /\ Fairness
-----------------------------------------------------------------------------
Round(c) == Len(sent[c])

InExchange(c) == pc[c] \in {"open", "put", "returned", "wait_remote", "wait_local"}

\* Rounds c has waited for.
Completed(c) == IF InExchange(c) THEN Round(c) - 1 ELSE Round(c)

\* How often l's owner has opened l, and how often l's source is done with it.
Opened(l) == IF pc[Dst[l]] = "open" /\ l \in todo[Dst[l]]
             THEN Round(Dst[l]) - 1 ELSE Round(Dst[l])
PutInto(l) == IF pc[Src[l]] = "open" \/ (pc[Src[l]] = "put" /\ l \in todo[Src[l]])
              THEN Round(Src[l]) - 1 ELSE Round(Src[l])

\* How many messages for l were sent, and how many were unpacked.
SentFor(l) == IF pc[Src[l]] = "open" THEN Round(Src[l]) - 1 ELSE Round(Src[l])
UnpackedFrom(l) ==
    IF \/ pc[Dst[l]] \in {"open", "put", "returned"}
       \/ pc[Dst[l]] = "wait_remote" /\ l \in todo[Dst[l]]
    THEN Round(Dst[l]) - 1 ELSE Round(Dst[l])

Filled(l) == IF l \in Local THEN PutInto(l) ELSE UnpackedFrom(l)

(***************************************************************************)
(* Between wait and the next exchange every halo holds what its source had *)
(* in its field when it called the exchange of the same round              *)
(* (bulk_communication_object.hpp:146-150, 572-589): neither what is left  *)
(* from the round before, nor a half-written halo, nor the values a source *)
(* that is already in its next round, or computes while its exchange is    *)
(* unfinished, has made since.                                             *)
(***************************************************************************)
HaloFresh ==
    \A l \in Links : LET d == Dst[l] IN
        pc[d] = "ready" /\ Round(d) > 0 =>
            /\ Round(Src[l]) >= Round(d)
            /\ halo[l] = sent[Src[l]][Round(d)]

(***************************************************************************)
(* A source writes into a halo only in its epoch, in the same round as the *)
(* halo's owner and while this is between exchange and the end of its wait *)
(* for that halo (access_guard.hpp:31-35): never when the owner may read   *)
(* it; and its own field is what it was when it called exchange.           *)
(***************************************************************************)
ExclusiveAccess ==
    \A l \in writing : LET d == Dst[l] IN
        /\ mode[l] = "remote"
        /\ InExchange(d)
        /\ Round(d) = Round(Src[l])
        /\ pc[d] = "wait_local" => l \in todo[d]
        /\ field[Src[l]] = sent[Src[l]][Round(Src[l])]

(***************************************************************************)
(* Every exchange that is called returns and its wait returns, on every    *)
(* CO (bulk_communication_object.hpp:465-589): no cycle of owners waiting  *)
(* for sources and sources waiting for owners, in the handshake or in a    *)
(* round.                                                                  *)
(***************************************************************************)
AllRoundsComplete == \A c \in COs : <>(Completed(c) = MaxRound)

(***************************************************************************)
(* The inductive invariant.  A guard is in mode remote exactly when its    *)
(* halo has been opened once more than it was put into; until the source   *)
(* has the archive both ends are still before their first exchange.  The   *)
(* messages under way for a remote halo are the last ones that were sent.  *)
(***************************************************************************)
Starting == {"new", "added", "recv", "send"}

ThreadInv(c) ==
    /\ pc[c] \in Starting => Round(c) = 0
    /\ InExchange(c) => Round(c) > 0
    /\ pc[c] \in {"open", "put"} => sent[c][Round(c)] = field[c]
    /\ pc[c] \in {"new", "added", "ready", "returned"} => todo[c] = {}
    /\ pc[c] \in {"recv", "put"} => todo[c] \subseteq Out(c) \cap Local
    /\ pc[c] \in {"send", "open", "wait_local"} => todo[c] \subseteq In(c) \cap Local
    /\ pc[c] = "wait_remote" => todo[c] \subseteq In(c) \cap Remote

HandshakeInv(l) ==
    /\ archive[l] = "none" <=> pc[Dst[l]] = "new"
    /\ archive[l] # "received" =>
          /\ mode[l] = "remote"
          /\ pc[Src[l]] \in Starting
          /\ pc[Src[l]] = "recv" => l \in todo[Src[l]]
          /\ pc[Src[l]] # "send"
          /\ pc[Dst[l]] = "send" => l \in todo[Dst[l]]
          /\ pc[Dst[l]] \in Starting
    /\ archive[l] = "received" =>
          /\ pc[Src[l]] \notin {"new", "added"}
          /\ pc[Src[l]] = "recv" => l \notin todo[Src[l]]

EpochInv(l) ==
    /\ archive[l] = "received" =>
          Opened(l) = (IF mode[l] = "remote" THEN PutInto(l) + 1 ELSE PutInto(l))
    /\ pc[Dst[l]] = "ready" => mode[l] = "local"
    /\ pc[Dst[l]] = "wait_local" /\ l \notin todo[Dst[l]] => mode[l] = "local"
    /\ pc[Dst[l]] = "open" /\ l \in todo[Dst[l]] => mode[l] = "local"
    /\ l \in writing => /\ archive[l] = "received"
                        /\ mode[l] = "remote"
                        /\ pc[Src[l]] = "put"
                        /\ l \in todo[Src[l]]
    /\ l \notin writing /\ PutInto(l) > 0 => halo[l] = sent[Src[l]][PutInto(l)]

MessageInv(l) ==
    /\ Len(chan[l]) = SentFor(l) - UnpackedFrom(l)
    /\ \A i \in 1 .. Len(chan[l]) : chan[l][i] = sent[Src[l]][UnpackedFrom(l) + i]
    /\ UnpackedFrom(l) > 0 => halo[l] = sent[Src[l]][UnpackedFrom(l)]

BulkInv == /\ TypeOK
           /\ \A c \in COs : ThreadInv(c)
           /\ writing \subseteq Local
           /\ \A l \in Local : HandshakeInv(l) /\ EpochInv(l)
           /\ \A l \in Remote : MessageInv(l)

(***************************************************************************)
(* Guards and messages together implement the abstract halo exchange.      *)
(***************************************************************************)
H == INSTANCE HaloExchange
     WITH started <- [c \in COs |-> Round(c)],
          completed <- [c \in COs |-> Completed(c)],
          filled <- [l \in Links |-> Filled(l)]

ImplementsHaloExchange == H!Spec
=============================================================================
