--------------------------- MODULE MCApprovalGate ---------------------------
(* Instances of ApprovalGate for TLC.                                      *)
EXTENDS ApprovalGate, TLC

CONSTANTS q1, c1, c2, c3

\* Three actors meet at one request.
OneRequest == (c1 :> q1) @@ (c2 :> q1) @@ (c3 :> q1)

SameRequest == Permutations({c1, c2, c3})
=============================================================================
