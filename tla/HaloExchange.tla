---------------------------- MODULE HaloExchange ----------------------------
(***************************************************************************)
(* What repeated halo exchanges promise, whatever carries them: a party (a *)
(* communication object, or a field on a domain) starts a round, each of   *)
(* its halos is filled once by a source that has started the same round,   *)
(* and the round is over when all of them are.  One call may do so for     *)
(* several parties or halos at once.                                       *)
(***************************************************************************)
EXTENDS Integers

CONSTANTS COs,      \* the parties
          Links,    \* the halos, each filled from one party into one party
          Src, Dst, \* Src[l], Dst[l]: the parties at the ends of l
          MaxRound  \* bound: how many rounds a party starts

VARIABLES started,   \* started[c]: rounds c has started
          completed, \* completed[c]: rounds c has waited for
          filled     \* filled[l]: rounds for which l has been filled

vars == <<started, completed, filled>>

Init == /\ started = [c \in COs |-> 0]
        /\ completed = [c \in COs |-> 0]
        /\ filled = [l \in Links |-> 0]

Start(C) == /\ \A c \in C : completed[c] = started[c] /\ started[c] < MaxRound
            /\ started' = [c \in COs |-> IF c \in C THEN started[c] + 1 ELSE started[c]]
            /\ UNCHANGED <<completed, filled>>

Deliver(L) == /\ \A l \in L : filled[l] < started[Src[l]] /\ filled[l] < started[Dst[l]]
              /\ filled' = [l \in Links |-> IF l \in L THEN filled[l] + 1 ELSE filled[l]]
              /\ UNCHANGED <<started, completed>>

Complete(C) == /\ \A c \in C : completed[c] < started[c]
               /\ \A l \in Links : Dst[l] \in C => filled[l] = started[Dst[l]]
               /\ completed' = [c \in COs |-> IF c \in C THEN started[c] ELSE completed[c]]
               /\ UNCHANGED <<started, filled>>

Next == \/ \E C \in SUBSET COs : Start(C) \/ Complete(C)
        \/ \E L \in SUBSET Links : Deliver(L)

Fairness == /\ \A c \in COs : WF_vars(Start({c})) /\ WF_vars(Complete({c}))
            /\ \A l \in Links : WF_vars(Deliver({l}))

Spec == Init /\ [][Next]_vars /\ Fairness
=============================================================================
