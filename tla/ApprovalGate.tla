---------------------------- MODULE ApprovalGate ----------------------------
(***************************************************************************)
(* The permission gate of a tool call: handlePermissionGate and            *)
(* waitForApproval of apps/bot/src/agent/runner.ts, requestPermission of   *)
(* pipedream-tools.ts, the Slack buttons (slack/interactions.ts, and       *)
(* onInteraction of index.ts in managed mode) and the tool                 *)
(* submit_permission_request of permissions/checker.ts.                    *)
(*                                                                         *)
(* A request belongs to one tool call of one run, whose progress is        *)
(* gate[q].  An actor is one press of a button, or one call of the submit  *)
(* tool by some run, whose progress is at[c].  They meet only in the row   *)
(* of the request and in the Slack message.  Time is a set: late holds the *)
(* requests whose expiresAt has passed.  The run starts to poll after the  *)
(* row was created, and polls for as long as the row is valid, so that a   *)
(* loop that ends by its own clock ends after expiresAt.                   *)
(***************************************************************************)
EXTENDS FiniteSets

CONSTANTS
  Requests,  \* tool calls that need permission
  Actors,    \* presses of a button, and calls of the submit tool
  AboutOf,   \* the request each actor is about
  Managed,   \* TRUE: onInteraction of index.ts, FALSE: interactions.ts
  Events     \* what else may happen, see GateEvents

GateEvents ==
  {"code",        \* a user hands the approval code to an agent
   "noChannel",   \* the run, of a cron job, has no Slack channel to ask in
   "postFails",   \* the permission message cannot be posted
   "redrawFails", \* chat.update of the message rejects
   "stepFails",   \* an awaited call of the gate rejects, so its run fails
   "crash"}       \* the bot process dies

ASSUME ActorsAssumption == AboutOf \in [Actors -> Requests]
ASSUME GateAssumption   == Managed \in BOOLEAN /\ Events \subseteq GateEvents

VARIABLES
  row,      \* status column of the request, "none" before the row exists
  recorded, \* requests whose slackMessageTs column is set
  late,     \* requests whose expiresAt has passed
  text,     \* what the Slack message says; a status stands for "already ..."
  gate,     \* the await the tool call's run is suspended at
  read,     \* the status the poller has fetched and not yet looked at
  answer,   \* the result of waitForApproval
  acted,    \* requests whose tool call was made
  at,       \* the await an actor is suspended at
  wants,    \* what an actor is there for
  won,      \* actors whose update matched the row
  saw       \* the status an actor's handler fetched after its update

actorVars == <<at, wants, won, saw>>
gateVars  == <<gate, read, answer, acted>>
vars == <<row, recorded, late, text, gate, read, answer, acted, at, wants, won, saw>>

Statuses == {"PENDING", "APPROVED", "REJECTED", "EXPIRED"}
Texts    == {"none", "buttons", "executing", "rejected", "expired"} \cup Statuses

Waiting  == {"post", "record", "poll", "judge", "expire", "resume"}
Open     == Waiting \cup {"recall", "act"}
Gates    == Open \cup {"idle", "done", "dead"}
Handling == {"update", "reread", "redraw", "lapse", "redeem"}

\* Mutant: the row is found by its id alone.
ResolveAnyStatus(q, status) == row' = [row EXCEPT ![q] = status]

\* The update ... where status = "PENDING": what every writer of the row uses.
Resolve(q, status) ==
  row' = [row EXCEPT ![q] = IF @ = "PENDING" THEN status ELSE @]

Init ==
  /\ row      = [q \in Requests |-> "none"]
  /\ recorded = {}
  /\ late     = {}
  /\ text     = [q \in Requests |-> "none"]
  /\ gate     = [q \in Requests |-> "idle"]
  /\ read     = [q \in Requests |-> "none"]
  /\ answer   = [q \in Requests |-> "none"]
  /\ acted    = {}
  /\ at       = [c \in Actors |-> "idle"]
  /\ wants    = [c \in Actors |-> "none"]
  /\ won      = {}
  /\ saw      = [c \in Actors |-> "none"]
-----------------------------------------------------------------------------
(* The run: ask, post, poll, and make the call.                            *)

Step(q, label, next) == gate[q] = label /\ gate' = [gate EXCEPT ![q] = next]

\* requestPermission creates the row and returns _permissionRequired.
Request(q) ==
  /\ Step(q, "idle", "post")
  /\ row' = [row EXCEPT ![q] = "PENDING"]
  /\ UNCHANGED <<recorded, late, text, read, answer, acted, actorVars>>

\* The message with its two buttons.  Without a channel the call is refused; a
\* message that could not be posted does not stop the gate.
Post(q) ==
  /\ \/ /\ Step(q, "post", "record")
        /\ text' = [text EXCEPT ![q] = "buttons"]
     \/ /\ "postFails" \in Events
        /\ Step(q, "post", "poll")
        /\ UNCHANGED text
     \/ /\ "noChannel" \in Events
        /\ Step(q, "post", "done")
        /\ UNCHANGED text
  /\ UNCHANGED <<row, recorded, late, read, answer, acted, actorVars>>

\* slackChannel and slackMessageTs are stored, then transitionPhase to DRAFT_GATE.
RecordMessage(q) ==
  /\ Step(q, "record", "poll")
  /\ recorded' = recorded \cup {q}
  /\ UNCHANGED <<row, late, text, read, answer, acted, actorVars>>

\* The findUnique of the polling loop.
Poll(q) ==
  /\ Step(q, "poll", "judge")
  /\ read' = [read EXCEPT ![q] = row[q]]
  /\ UNCHANGED <<row, recorded, late, text, answer, acted, actorVars>>

\* Mutant: the deadline is computed in seconds and never comes.
TimeIsNeverUp(q) == FALSE

\* expiresAt lies at most as far ahead as the end of the polling loop.
TimeIsUp(q) == q \in late

\* Mutant: the status column is handed on as it is.
AnswerIsStatus(status) == status

\* What waitForApproval returns for the status it fetched.
AnswerTo(status) == IF status = "APPROVED" THEN "approved" ELSE "rejected"

\* Where the polling loop goes; the status is looked at before the deadline.
JudgeAs(q, decided, up) ==
  /\ gate[q] = "judge"
  /\ gate' = [gate EXCEPT ![q] = IF decided THEN "resume" ELSE IF up THEN "expire" ELSE "poll"]
  /\ answer' = [answer EXCEPT ![q] = IF decided THEN AnswerTo(read[q]) ELSE @]
  /\ UNCHANGED <<row, recorded, late, text, read, acted, actorVars>>

\* The branches of the polling loop on the status it fetched.
Judge(q) ==
  JudgeAs(q, read[q] \in {"APPROVED", "REJECTED"}, read[q] = "EXPIRED" \/ TimeIsUp(q))

\* The update to EXPIRED; how many rows it matched is not looked at.
ExpireRow(q) ==
  /\ Step(q, "expire", "resume")
  /\ Resolve(q, "EXPIRED")
  /\ answer' = [answer EXCEPT ![q] = "timeout"]
  /\ UNCHANGED <<recorded, late, text, read, acted, actorVars>>

\* transitionPhase back to TOOL_LOOP; only an approved call is made again.
Resume(q) ==
  /\ Step(q, "resume", IF answer[q] = "approved" THEN "recall" ELSE "done")
  /\ UNCHANGED <<row, recorded, late, text, read, answer, acted, actorVars>>

\* requestPermission, called with _approvedRequestId, reads the row again.
Recall(q) ==
  /\ Step(q, "recall", IF row[q] = "APPROVED" THEN "act" ELSE "done")
  /\ UNCHANGED <<row, recorded, late, text, read, answer, acted, actorVars>>

Act(q) ==
  /\ Step(q, "act", "done")
  /\ acted' = acted \cup {q}
  /\ UNCHANGED <<row, recorded, late, text, read, answer, actorVars>>
-----------------------------------------------------------------------------
(* The buttons.                                                            *)

Move(c, label, next) == at[c] = label /\ at' = [at EXCEPT ![c] = next]

\* A user presses a button of the message; several may, before it is redrawn.
Press(c) ==
  /\ Move(c, "idle", "update")
  /\ text[AboutOf[c]] = "buttons"
  /\ \E button \in {"approve", "reject"} : wants' = [wants EXCEPT ![c] = button]
  /\ UNCHANGED <<row, recorded, late, text, gateVars, won, saw>>

\* Mutant: the row is updated by its id alone.
DecideAnyStatus(c) ==
  LET q == AboutOf[c]
      matches == wants[c] = "approve" => q \notin late
  IN  /\ Move(c, "update", "reread")
      /\ row' = [row EXCEPT ![q] =
           IF ~matches THEN @ ELSE IF wants[c] = "approve" THEN "APPROVED" ELSE "REJECTED"]
      /\ won' = IF matches THEN won \cup {c} ELSE won
      /\ UNCHANGED <<recorded, late, text, gateVars, wants, saw>>

\* The handler's update; approval also asks that expiresAt lies ahead.
DecideRow(c) ==
  LET q == AboutOf[c]
      matches == row[q] = "PENDING" /\ (wants[c] = "approve" => q \notin late)
  IN  /\ Move(c, "update", "reread")
      /\ IF matches
           THEN Resolve(q, IF wants[c] = "approve" THEN "APPROVED" ELSE "REJECTED")
           ELSE UNCHANGED row
      /\ won' = IF matches THEN won \cup {c} ELSE won
      /\ UNCHANGED <<recorded, late, text, gateVars, wants, saw>>

\* findUnique; without a slackMessageTs there is no message to redraw.
Reread(c) ==
  /\ Move(c, "reread", IF AboutOf[c] \in recorded THEN "redraw" ELSE "done")
  /\ saw' = [saw EXCEPT ![c] = row[AboutOf[c]]]
  /\ UNCHANGED <<row, recorded, late, text, gateVars, wants, won>>

\* Mutant: the handler does not look at the count of its update.
VerdictIgnoresCount(c) == IF wants[c] = "approve" THEN "executing" ELSE "rejected"

\* What the message says after a press: the decision, or how it was taken before.
Verdict(c) ==
  CASE c \in won /\ wants[c] = "approve"   -> "executing"
    [] c \in won /\ wants[c] = "reject"    -> "rejected"
    [] c \notin won /\ saw[c] = "PENDING" /\ wants[c] = "approve" /\ ~Managed -> "expired"
    [] OTHER                               -> saw[c]

Redraw(c) ==
  /\ Move(c, "redraw", "done")
  /\ \/ text' = [text EXCEPT ![AboutOf[c]] = Verdict(c)]
     \/ "redrawFails" \in Events /\ UNCHANGED text
  /\ UNCHANGED <<row, recorded, late, gateVars, wants, won, saw>>
-----------------------------------------------------------------------------
(* The tool submit_permission_request.                                     *)

\* The tool looks at the row, and at the clock when it is still pending.
Submit(c) ==
  LET q == AboutOf[c] IN
  /\ at[c] = "idle"
  /\ row[q] = "PENDING"
  /\ \/ q \in late /\ at' = [at EXCEPT ![c] = "lapse"]
     \/ /\ "code" \in Events
        /\ q \notin late
        /\ at' = [at EXCEPT ![c] = "redeem"]
  /\ wants' = [wants EXCEPT ![c] = "submit"]
  /\ UNCHANGED <<row, recorded, late, text, gateVars, won, saw>>

Lapse(c) ==
  /\ Move(c, "lapse", "done")
  /\ Resolve(AboutOf[c], "EXPIRED")
  /\ UNCHANGED <<recorded, late, text, gateVars, wants, won, saw>>

\* The update to APPROVED asks for a pending row, not for the time.
Redeem(c) ==
  /\ Move(c, "redeem", "done")
  /\ Resolve(AboutOf[c], "APPROVED")
  /\ UNCHANGED <<recorded, late, text, gateVars, wants, won, saw>>
-----------------------------------------------------------------------------
(* The environment.                                                        *)

ExpiresAtPasses(q) ==
  /\ row[q] # "none"
  /\ q \notin late
  /\ late' = late \cup {q}
  /\ UNCHANGED <<row, recorded, text, gateVars, actorVars>>

\* An awaited call of the gate rejects: run() goes to its catch block.
StepFails(q) ==
  /\ "stepFails" \in Events
  /\ gate[q] \in Waiting \ {"judge"}
  /\ gate' = [gate EXCEPT ![q] = "dead"]
  /\ UNCHANGED <<row, recorded, late, text, read, answer, acted, actorVars>>

Crash ==
  /\ "crash" \in Events
  /\ \E q \in Requests : gate[q] \in Open
  /\ gate' = [q \in Requests |-> IF gate[q] \in Open THEN "dead" ELSE gate[q]]
  /\ at'   = [c \in Actors |-> IF at[c] \in Handling THEN "done" ELSE at[c]]
  /\ UNCHANGED <<row, recorded, late, text, read, answer, acted, wants, won, saw>>
-----------------------------------------------------------------------------
RunStep(q) ==
  \/ Post(q) \/ RecordMessage(q) \/ Poll(q) \/ Judge(q) \/ ExpireRow(q)
  \/ Resume(q) \/ Recall(q) \/ Act(q)

HandlerStep(c) == DecideRow(c) \/ Reread(c) \/ Redraw(c) \/ Lapse(c) \/ Redeem(c)

Next ==
  \/ \E q \in Requests : Request(q) \/ RunStep(q) \/ ExpiresAtPasses(q) \/ StepFails(q)
  \/ \E c \in Actors : Press(c) \/ Submit(c) \/ HandlerStep(c)
  \/ Crash

Spec == Init /\ [][Next]_vars

\* Every await of the gate ends, and so does the time a request is given.
FairSpec ==
  /\ Spec
  /\ \A q \in Requests : WF_vars(RunStep(q)) /\ WF_vars(ExpiresAtPasses(q))
-----------------------------------------------------------------------------
(* Properties.                                                             *)

TypeOK ==
  /\ row \in [Requests -> Statuses \cup {"none"}]
  /\ recorded \subseteq Requests
  /\ late \subseteq Requests
  /\ text \in [Requests -> Texts]
  /\ gate \in [Requests -> Gates]
  /\ read \in [Requests -> Statuses \cup {"none"}]
  /\ answer \in [Requests -> {"none", "approved", "rejected", "timeout"}]
  /\ acted \subseteq Requests
  /\ at \in [Actors -> Handling \cup {"idle", "done"}]
  /\ wants \in [Actors -> {"none", "approve", "reject", "submit"}]
  /\ won \subseteq Actors
  /\ saw \in [Actors -> Statuses \cup {"none"}]

\* What the model is told agrees with the row: nobody revises a decision after
\* the run has acted on it.  (runner.ts 726-732 and every other writer)
AnswerAgrees ==
  \A q \in Requests :
    /\ answer[q] = "approved" => row[q] = "APPROVED"
    /\ answer[q] = "rejected" => row[q] = "REJECTED"

\* A redrawn message tells the decision as it is, also when several users press
\* at once and their handlers redraw in any order.  (interactions.ts 37-57, 91-109)
MessageTellsTruth ==
  \A q \in Requests :
    /\ text[q] = "executing" => row[q] = "APPROVED"
    /\ text[q] = "rejected"  => row[q] = "REJECTED"
    /\ text[q] \in Statuses \ {"PENDING"} => row[q] = text[q]

\* The tool call is made at most once, only after an approval, and the decision
\* is taken once, by whoever comes first.
Promise == INSTANCE Permission WITH
  verdict <- [q \in Requests |->
    CASE row[q] = "PENDING"  -> "open"
      [] row[q] = "APPROVED" -> "approved"
      [] row[q] = "REJECTED" -> "rejected"
      [] row[q] = "EXPIRED"  -> "expired"
      [] OTHER               -> "none"]
PermissionSpec == Promise!PermissionSpec

\* The gate opens or gives up, whatever the users do.  (the bound of runner.ts 711)
EveryGateEnds == \A q \in Requests : gate[q] \in Open ~> gate[q] \in {"done", "dead"}

\* An approval that lands before the run's last poll is carried out, even when the
\* poll that sees it comes after expiresAt.  (the order of runner.ts 726-734)
ApprovalIsCarriedOut ==
  \A q \in Requests :
    row[q] = "APPROVED" /\ gate[q] \in {"post", "record", "poll"} ~> q \in acted

\* interactions.ts 55: "Approved by <@...>. Executing ...".  A run whose user reads
\* this does not tell the model that the request timed out.
ExecutingMeansExecuted ==
  \A q \in Requests : ~(text[q] = "executing" /\ answer[q] = "timeout")
=============================================================================
