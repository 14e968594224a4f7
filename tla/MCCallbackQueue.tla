-------------------------- MODULE MCCallbackQueue --------------------------
EXTENDS CallbackQueue
CONSTANTS s1, r1, r2, r3
MCSends == {s1}
MCRecvs == {r1, r2, r3}
=============================================================================
