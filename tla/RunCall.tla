------------------------------ MODULE RunCall --------------------------------
(***************************************************************************)
(* What AgentRunner.run of apps/bot/src/agent/runner.ts promises to those  *)
(* who call it (the Slack handlers, the cron scheduler, the tools that     *)
(* start threads) and to those who read the AgentRun rows (the failure     *)
(* count of the scheduler, the dashboard), without threads, phases, locks  *)
(* and slots: a call has one row and one end, and the two agree.           *)
(***************************************************************************)

CONSTANTS
  Runs,   \* calls of run()
  Rejects \* whether an awaited call of run() may reject

VARIABLES
  row, \* the status of each call's row, "none" before it exists
  told \* how the call ended for its caller, "none" until then

callVars == <<row, told>>

InCall(r) == told[r] = "none"

Record(r, from, to) == row[r] \in from /\ row' = [row EXCEPT ![r] = to]
Tell(r, how)        == InCall(r) /\ told' = [told EXCEPT ![r] = how]

CallInit ==
  /\ row  = [r \in Runs |-> "none"]
  /\ told = [r \in Runs |-> "none"]
-----------------------------------------------------------------------------
(* What a call writes before it ends.                                      *)

Open(r) == InCall(r) /\ Record(r, {"none"}, "RUNNING") /\ UNCHANGED told

Complete(r) == InCall(r) /\ Record(r, {"RUNNING"}, "COMPLETED") /\ UNCHANGED told

\* The call lost its thread to another one.
Decline(r) == InCall(r) /\ Record(r, {"RUNNING"}, "CANCELLED") /\ UNCHANGED told

\* A call that rejects after its row was closed has it written once more.
RecordFailure(r) ==
  /\ InCall(r)
  /\ Record(r, IF Rejects THEN {"RUNNING", "COMPLETED"} ELSE {"RUNNING"}, "FAILED")
  /\ UNCHANGED told
-----------------------------------------------------------------------------
(* How it ends.                                                            *)

\* The answer, of a call that completed.
Answer(r) == row[r] = "COMPLETED" /\ Tell(r, "ok") /\ UNCHANGED row

\* ThreadLockedError: the call has asked the model nothing, and its row, if it has one, says so.
Postpone(r) == row[r] \in {"none", "CANCELLED"} /\ Tell(r, "locked") /\ UNCHANGED row

\* ConcurrencyExceededError.
TurnAway(r) == Record(r, {"RUNNING"}, "CANCELLED") /\ Tell(r, "busy")

\* Any other error: before there is a row, or recorded in it as far as writing succeeds.
Reject(r) ==
  /\ row[r] \in {"none", "FAILED"} \cup (IF Rejects THEN {"RUNNING", "COMPLETED"} ELSE {})
  /\ Tell(r, "error")
  /\ UNCHANGED row

\* The process dies, and with it some calls; their rows stay as they are.
Die(gone) ==
  /\ gone # {} /\ \A r \in gone : InCall(r)
  /\ told' = [r \in Runs |-> IF r \in gone THEN "lost" ELSE told[r]]
  /\ UNCHANGED row

\* The stale detector closes the rows of calls that are over, and of no others.
Sweep(left) ==
  /\ left # {} /\ \A r \in left : row[r] = "RUNNING" /\ ~InCall(r)
  /\ row' = [r \in Runs |-> IF r \in left THEN "CANCELLED" ELSE row[r]]
  /\ UNCHANGED told

CallNext ==
  \/ \E r \in Runs :
       \/ Open(r) \/ Complete(r) \/ Decline(r) \/ RecordFailure(r)
       \/ Answer(r) \/ Postpone(r) \/ TurnAway(r) \/ Reject(r)
  \/ \E gone \in SUBSET Runs : Die(gone)
  \/ \E left \in SUBSET Runs : Sweep(left)

RunCallSpec == CallInit /\ [][CallNext]_callVars
=============================================================================
