-------------------------- MODULE MCThreadSpawning --------------------------
(* Instances of ThreadSpawning for TLC.                                    *)
EXTENDS ThreadSpawning

\* Every call is about one path, which the waits are for.
OnePath    == [x \in SpawnCalls |-> "/task"]
ForOnePath == [w \in Waits |-> {"/task"}]
=============================================================================
