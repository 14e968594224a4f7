---------------------------- MODULE Completions ----------------------------
(***************************************************************************)
(* What a communicator promises of operations posted with a callback: the  *)
(* callback is invoked at most once, never after the operation has been    *)
(* cancelled, and the request a caller holds speaks of its own operation:  *)
(* it tests true only after the callback, and cancels no other operation.  *)
(***************************************************************************)
EXTENDS Naturals

CONSTANT Ops

VARIABLES posted,    \* the operations that have been posted
          held,      \* the operations whose request is with the caller
          calls,     \* calls[op]: how often the callback of op was invoked
          cancelled  \* the operations that were cancelled

vars == <<posted, held, calls, cancelled>>

Init == /\ posted = {}
        /\ held = {}
        /\ calls = [op \in Ops |-> 0]
        /\ cancelled = {}

Call(op) == /\ calls[op] = 0
            /\ op \notin cancelled
            /\ calls' = [calls EXCEPT ![op] = 1]

\* Posting ends with the callback invoked, or with a request to hold on to.
Post(op) == /\ op \notin posted
            /\ posted' = posted \cup {op}
            /\ UNCHANGED cancelled
            /\ \/ Call(op) /\ UNCHANGED held
               \/ held' = held \cup {op} /\ UNCHANGED calls

Complete(op) == /\ op \in posted
                /\ Call(op)
                /\ UNCHANGED <<posted, held, cancelled>>

Test(op) == /\ op \in held
            /\ calls[op] = 1
            /\ held' = held \ {op}
            /\ UNCHANGED <<posted, calls, cancelled>>

Cancel(op) == /\ op \in held
              /\ calls[op] = 0
              /\ held' = held \ {op}
              /\ cancelled' = cancelled \cup {op}
              /\ UNCHANGED <<posted, calls>>

Next == \E op \in Ops : Post(op) \/ Complete(op) \/ Test(op) \/ Cancel(op)

Spec == Init /\ [][Next]_vars
=============================================================================
