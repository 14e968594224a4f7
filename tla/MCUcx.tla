------------------------------- MODULE MCUcx -------------------------------
(***************************************************************************)
(* The two sides of the UCX transport: the communicators of the threads of *)
(* one rank while the contexts are up, and the contexts of all ranks.  A   *)
(* behaviour is one of either, with the other side as it is at the start.  *)
(***************************************************************************)
EXTENDS UcxCommunicator, UcxContext

CONSTANTS t1, t2, s1, s2, s3, r1, r2, r3, a, b, d1

MCThreads == {t1, t2}
MCSends == {s1, s2, s3}
MCRecvs == {r1, r2, r3}
MCUses == [callback |-> {s1, s2, r1, r2, r3}, future |-> {s3, r1, r3}]
MCPoster == [op \in MCSends |-> t1] @@ [op \in MCRecvs |-> t2]
MCParent == [op \in MCSends \cup MCRecvs |-> IF op = r2 THEN r1 ELSE None]
MCTag == [op \in MCSends \cup MCRecvs |->
            IF op \in {s2, r2} THEN b ELSE IF op = r3 THEN d1 ELSE a]
MCMulti == <<<<s1, s2>>, <<s3>>>>
MCSlots == 1 .. 4

VARIABLE part

mcvars == <<part, vars, cvars>>

MCInit == /\ Init /\ ContextInit
          /\ part \in {"communicators", "contexts"}
          /\ part = "communicators" => ~use_pmi
          /\ part = "contexts" => style = "callback"

Communicators(A) == part = "communicators" /\ A /\ UNCHANGED <<part, cvars>>
Contexts(A) == part = "contexts" /\ A /\ UNCHANGED <<part, vars>>

MCNext == Communicators(Next) \/ Contexts(ContextNext)

\* The fairness of Spec and of ContextSpec, each for its own side.
MCSpec == /\ MCInit /\ [][MCNext]_mcvars
          /\ \A t \in Threads : /\ WF_mcvars(Communicators(Step(t)))
                                /\ WF_mcvars(Communicators(Progress(t)))
                                /\ SF_mcvars(Communicators(Lock(t)))
          /\ \A r \in Ranks : WF_mcvars(Contexts(ContextStep(r)))
=============================================================================
