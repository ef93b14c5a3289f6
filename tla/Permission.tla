----------------------------- MODULE Permission -----------------------------
(***************************************************************************)
(* What a permission request promises, without pollers, buttons or clocks: *)
(* it is decided at most once, a decision is final, and the tool call it   *)
(* guards is made at most once and only when the decision was approval.    *)
(***************************************************************************)

CONSTANT Requests  \* tool calls that need a user's permission

VARIABLES
  verdict,  \* "none" before the request exists, then "open", then the decision
  acted     \* requests whose tool call was made

permissionVars == <<verdict, acted>>

Decisions == {"approved", "rejected", "expired"}

PermissionInit ==
  /\ verdict = [q \in Requests |-> "none"]
  /\ acted   = {}

Ask(q) ==
  /\ verdict[q] = "none"
  /\ verdict' = [verdict EXCEPT ![q] = "open"]
  /\ UNCHANGED acted

Decide(q) ==
  /\ verdict[q] = "open"
  /\ \E decision \in Decisions : verdict' = [verdict EXCEPT ![q] = decision]
  /\ UNCHANGED acted

Perform(q) ==
  /\ verdict[q] = "approved"
  /\ q \notin acted
  /\ acted' = acted \cup {q}
  /\ UNCHANGED verdict

PermissionNext == \E q \in Requests : Ask(q) \/ Decide(q) \/ Perform(q)

PermissionSpec == PermissionInit /\ [][PermissionNext]_permissionVars
=============================================================================
