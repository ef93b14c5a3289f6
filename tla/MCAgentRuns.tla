---------------------------- MODULE MCAgentRuns ----------------------------
(* Instances of AgentRuns for TLC.                                         *)
EXTENDS AgentRuns, TLC

CONSTANTS t1, t2, r1, r2, r3

\* All messages on the first thread, or the last one on a second thread.
OneThread  == (r1 :> t1) @@ (r2 :> t1) @@ (r3 :> t1)
TwoThreads == (r1 :> t1) @@ (r2 :> t1) @@ (r3 :> t2)
Pair       == (r1 :> t1) @@ (r2 :> t1)

Interchangeable == Permutations({r1, r2, r3})
=============================================================================
