------------------------- MODULE ApprovalGateProofs -------------------------
(***************************************************************************)
(* Theorems about ApprovalGate, for every set of requests and of actors,   *)
(* and for every choice of Managed and Events.                             *)
(***************************************************************************)
EXTENDS ApprovalGate, TLAPS

USE DEF actorVars, gateVars

-----------------------------------------------------------------------------
(* Type correctness.                                                       *)

\* The first states have their types.
LEMMA TypeInit == Init => TypeOK
BY DEF Init, TypeOK, Statuses, Texts, Gates, Open, Waiting, Handling

\* Every step keeps the types.
LEMMA TypeStep == TypeOK /\ [Next]_vars => TypeOK'
<1> SUFFICES ASSUME TypeOK, [Next]_vars PROVE TypeOK'
  OBVIOUS
<1> USE ActorsAssumption
    DEF TypeOK, Statuses, Texts, Gates, Open, Waiting, Handling
<1>1. ASSUME NEW q \in Requests, Request(q) PROVE TypeOK'
  BY <1>1 DEF Request, Step
<1>2. ASSUME NEW q \in Requests, Post(q) PROVE TypeOK'
  BY <1>2 DEF Post, Step
<1>3. ASSUME NEW q \in Requests, RecordMessage(q) PROVE TypeOK'
  BY <1>3 DEF RecordMessage, Step
<1>4. ASSUME NEW q \in Requests, Poll(q) PROVE TypeOK'
  BY <1>4 DEF Poll, Step
<1>5. ASSUME NEW q \in Requests, Judge(q) PROVE TypeOK'
  BY <1>5 DEF Judge, JudgeAs, AnswerTo
<1>6. ASSUME NEW q \in Requests, ExpireRow(q) PROVE TypeOK'
  BY <1>6 DEF ExpireRow, Step, Resolve
<1>7. ASSUME NEW q \in Requests, Resume(q) PROVE TypeOK'
  BY <1>7 DEF Resume, Step
<1>8. ASSUME NEW q \in Requests, Recall(q) PROVE TypeOK'
  BY <1>8 DEF Recall, Step
<1>9. ASSUME NEW q \in Requests, Act(q) PROVE TypeOK'
  BY <1>9 DEF Act, Step
<1>10. ASSUME NEW q \in Requests, ExpiresAtPasses(q) PROVE TypeOK'
  BY <1>10 DEF ExpiresAtPasses
<1>11. ASSUME NEW q \in Requests, StepFails(q) PROVE TypeOK'
  BY <1>11 DEF StepFails
<1>12. ASSUME NEW c \in Actors, Press(c) PROVE TypeOK'
  BY <1>12 DEF Press, Move
<1>13. ASSUME NEW c \in Actors, Submit(c) PROVE TypeOK'
  BY <1>13 DEF Submit
<1>14. ASSUME NEW c \in Actors, DecideRow(c) PROVE TypeOK'
  BY <1>14 DEF DecideRow, Move, Resolve
<1>15. ASSUME NEW c \in Actors, Reread(c) PROVE TypeOK'
  BY <1>15 DEF Reread, Move
<1>16. ASSUME NEW c \in Actors, Redraw(c) PROVE TypeOK'
  BY <1>16 DEF Redraw, Move, Verdict
<1>17. ASSUME NEW c \in Actors, Lapse(c) PROVE TypeOK'
  BY <1>17 DEF Lapse, Move, Resolve
<1>18. ASSUME NEW c \in Actors, Redeem(c) PROVE TypeOK'
  BY <1>18 DEF Redeem, Move, Resolve
<1>19. CASE Crash
  BY <1>19 DEF Crash, Open, Waiting, Handling
<1>20. CASE UNCHANGED vars
  BY <1>20 DEF vars
<1>21. QED
  BY <1>1, <1>2, <1>3, <1>4, <1>5, <1>6, <1>7, <1>8, <1>9, <1>10, <1>11, <1>12, <1>13, <1>14, <1>15, <1>16, <1>17, <1>18, <1>19, <1>20 DEF Next, RunStep, HandlerStep

\* Every variable keeps its type.
THEOREM TypeCorrect == Spec => []TypeOK
BY TypeInit, TypeStep, PTL DEF Spec

-----------------------------------------------------------------------------
(* Decisions are final.                                                    *)

Decided == {"APPROVED", "REJECTED", "EXPIRED"}

\* No step changes a row that is decided, since every update asks for a pending
\* row.  The rest of the argument rests on this.
LEMMA DecisionsAreFinal ==
  ASSUME TypeOK, [Next]_vars, NEW p \in Requests, row[p] \in Decided,
         \A q \in Requests : gate[q] = "idle" => row[q] = "none"
  PROVE  row'[p] = row[p]
<1> USE ActorsAssumption DEF TypeOK, Decided
<1>1. ASSUME NEW q \in Requests, Request(q) PROVE row'[p] = row[p]
  BY <1>1 DEF Request, Step
<1>2. ASSUME NEW q \in Requests, Post(q) PROVE row'[p] = row[p]
  BY <1>2 DEF Post, Step
<1>3. ASSUME NEW q \in Requests, RecordMessage(q) PROVE row'[p] = row[p]
  BY <1>3 DEF RecordMessage, Step
<1>4. ASSUME NEW q \in Requests, Poll(q) PROVE row'[p] = row[p]
  BY <1>4 DEF Poll, Step
<1>5. ASSUME NEW q \in Requests, Judge(q) PROVE row'[p] = row[p]
  BY <1>5 DEF Judge, JudgeAs, AnswerTo
<1>6. ASSUME NEW q \in Requests, ExpireRow(q) PROVE row'[p] = row[p]
  BY <1>6 DEF ExpireRow, Step, Resolve
<1>7. ASSUME NEW q \in Requests, Resume(q) PROVE row'[p] = row[p]
  BY <1>7 DEF Resume, Step
<1>8. ASSUME NEW q \in Requests, Recall(q) PROVE row'[p] = row[p]
  BY <1>8 DEF Recall, Step
<1>9. ASSUME NEW q \in Requests, Act(q) PROVE row'[p] = row[p]
  BY <1>9 DEF Act, Step
<1>10. ASSUME NEW q \in Requests, ExpiresAtPasses(q) PROVE row'[p] = row[p]
  BY <1>10 DEF ExpiresAtPasses
<1>11. ASSUME NEW q \in Requests, StepFails(q) PROVE row'[p] = row[p]
  BY <1>11 DEF StepFails
<1>12. ASSUME NEW c \in Actors, Press(c) PROVE row'[p] = row[p]
  BY <1>12 DEF Press, Move
<1>13. ASSUME NEW c \in Actors, Submit(c) PROVE row'[p] = row[p]
  BY <1>13 DEF Submit
<1>14. ASSUME NEW c \in Actors, DecideRow(c) PROVE row'[p] = row[p]
  BY <1>14 DEF DecideRow, Move, Resolve
<1>15. ASSUME NEW c \in Actors, Reread(c) PROVE row'[p] = row[p]
  BY <1>15 DEF Reread, Move
<1>16. ASSUME NEW c \in Actors, Redraw(c) PROVE row'[p] = row[p]
  BY <1>16 DEF Redraw, Move, Verdict
<1>17. ASSUME NEW c \in Actors, Lapse(c) PROVE row'[p] = row[p]
  BY <1>17 DEF Lapse, Move, Resolve
<1>18. ASSUME NEW c \in Actors, Redeem(c) PROVE row'[p] = row[p]
  BY <1>18 DEF Redeem, Move, Resolve
<1>19. CASE Crash
  BY <1>19 DEF Crash, Open, Waiting, Handling
<1>20. CASE UNCHANGED vars
  BY <1>20 DEF vars
<1>21. QED
  BY <1>1, <1>2, <1>3, <1>4, <1>5, <1>6, <1>7, <1>8, <1>9, <1>10, <1>11, <1>12, <1>13, <1>14, <1>15, <1>16, <1>17, <1>18, <1>19, <1>20 DEF Next, RunStep, HandlerStep

-----------------------------------------------------------------------------
(* The invariant behind the safety properties.                             *)

\* Where the run of a request is, compared with its row.
GateInv ==
  \A q \in Requests :
    /\ gate[q] = "idle" => row[q] = "none"
    /\ gate[q] = "act" => row[q] = "APPROVED"
    /\ q \in acted => gate[q] = "done"

\* What the poller has fetched, if a decision, is the decision.
ReadInv == \A q \in Requests : read[q] \in Decided => row[q] = read[q]

\* So is what a handler has fetched; and the row says what the winner wanted.
HandlerInv ==
  \A c \in Actors :
    /\ at[c] = "idle" => c \notin won
    /\ saw[c] \in Decided => row[AboutOf[c]] = saw[c]
    /\ c \in won /\ wants[c] = "approve" => row[AboutOf[c]] = "APPROVED"
    /\ c \in won /\ wants[c] = "reject" => row[AboutOf[c]] = "REJECTED"

IInv == TypeOK /\ GateInv /\ ReadInv /\ HandlerInv /\ AnswerAgrees /\ MessageTellsTruth

\* The invariant holds at the start.
LEMMA InvInit == Init => IInv
BY TypeInit DEF Init, IInv, GateInv, ReadInv, HandlerInv, AnswerAgrees,
   MessageTellsTruth, Decided, Statuses

\* Only an approved row opens the gate, and a call once made is over.
LEMMA GateStep == IInv /\ [Next]_vars => GateInv'
<1> SUFFICES ASSUME IInv, [Next]_vars PROVE GateInv'
  OBVIOUS
<1> USE ActorsAssumption DEF IInv, TypeOK, GateInv, Decided
<1>final. \A p \in Requests : row[p] \in Decided => row'[p] = row[p]
  BY DecisionsAreFinal DEF IInv, GateInv
<1>1. ASSUME NEW q \in Requests, Request(q) PROVE GateInv'
  BY <1>1, <1>final DEF Request, Step
<1>2. ASSUME NEW q \in Requests, Post(q) PROVE GateInv'
  BY <1>2, <1>final DEF Post, Step
<1>3. ASSUME NEW q \in Requests, RecordMessage(q) PROVE GateInv'
  BY <1>3, <1>final DEF RecordMessage, Step
<1>4. ASSUME NEW q \in Requests, Poll(q) PROVE GateInv'
  BY <1>4, <1>final DEF Poll, Step
<1>5. ASSUME NEW q \in Requests, Judge(q) PROVE GateInv'
  BY <1>5, <1>final DEF Judge, JudgeAs, AnswerTo
<1>6. ASSUME NEW q \in Requests, ExpireRow(q) PROVE GateInv'
  BY <1>6, <1>final DEF ExpireRow, Step, Resolve
<1>7. ASSUME NEW q \in Requests, Resume(q) PROVE GateInv'
  BY <1>7, <1>final DEF Resume, Step
<1>8. ASSUME NEW q \in Requests, Recall(q) PROVE GateInv'
  BY <1>8, <1>final DEF Recall, Step
<1>9. ASSUME NEW q \in Requests, Act(q) PROVE GateInv'
  BY <1>9, <1>final DEF Act, Step
<1>10. ASSUME NEW q \in Requests, ExpiresAtPasses(q) PROVE GateInv'
  BY <1>10, <1>final DEF ExpiresAtPasses
<1>11. ASSUME NEW q \in Requests, StepFails(q) PROVE GateInv'
  BY <1>11, <1>final DEF StepFails, Waiting
<1>12. ASSUME NEW c \in Actors, Press(c) PROVE GateInv'
  BY <1>12, <1>final DEF Press, Move
<1>13. ASSUME NEW c \in Actors, Submit(c) PROVE GateInv'
  BY <1>13, <1>final DEF Submit
<1>14. ASSUME NEW c \in Actors, DecideRow(c) PROVE GateInv'
  BY <1>14, <1>final DEF DecideRow, Move, Resolve
<1>15. ASSUME NEW c \in Actors, Reread(c) PROVE GateInv'
  BY <1>15, <1>final DEF Reread, Move
<1>16. ASSUME NEW c \in Actors, Redraw(c) PROVE GateInv'
  BY <1>16, <1>final DEF Redraw, Move, Verdict
<1>17. ASSUME NEW c \in Actors, Lapse(c) PROVE GateInv'
  BY <1>17, <1>final DEF Lapse, Move, Resolve
<1>18. ASSUME NEW c \in Actors, Redeem(c) PROVE GateInv'
  BY <1>18, <1>final DEF Redeem, Move, Resolve
<1>19. CASE Crash
  BY <1>19, <1>final DEF Crash, Open, Waiting, Handling
<1>20. CASE UNCHANGED vars
  BY <1>20, <1>final DEF vars
<1>21. QED
  BY <1>1, <1>2, <1>3, <1>4, <1>5, <1>6, <1>7, <1>8, <1>9, <1>10, <1>11, <1>12, <1>13, <1>14, <1>15, <1>16, <1>17, <1>18, <1>19, <1>20 DEF Next, RunStep, HandlerStep

\* The poller's copy of a decision never grows stale.
LEMMA ReadStep == IInv /\ [Next]_vars => ReadInv'
<1> SUFFICES ASSUME IInv, [Next]_vars PROVE ReadInv'
  OBVIOUS
<1> USE ActorsAssumption DEF IInv, TypeOK, ReadInv, Decided
<1>final. \A p \in Requests : row[p] \in Decided => row'[p] = row[p]
  BY DecisionsAreFinal DEF IInv, GateInv
<1>1. ASSUME NEW q \in Requests, Request(q) PROVE ReadInv'
  BY <1>1, <1>final DEF Request, Step
<1>2. ASSUME NEW q \in Requests, Post(q) PROVE ReadInv'
  BY <1>2, <1>final DEF Post, Step
<1>3. ASSUME NEW q \in Requests, RecordMessage(q) PROVE ReadInv'
  BY <1>3, <1>final DEF RecordMessage, Step
<1>4. ASSUME NEW q \in Requests, Poll(q) PROVE ReadInv'
  BY <1>4, <1>final DEF Poll, Step
<1>5. ASSUME NEW q \in Requests, Judge(q) PROVE ReadInv'
  BY <1>5, <1>final DEF Judge, JudgeAs, AnswerTo
<1>6. ASSUME NEW q \in Requests, ExpireRow(q) PROVE ReadInv'
  BY <1>6, <1>final DEF ExpireRow, Step, Resolve
<1>7. ASSUME NEW q \in Requests, Resume(q) PROVE ReadInv'
  BY <1>7, <1>final DEF Resume, Step
<1>8. ASSUME NEW q \in Requests, Recall(q) PROVE ReadInv'
  BY <1>8, <1>final DEF Recall, Step
<1>9. ASSUME NEW q \in Requests, Act(q) PROVE ReadInv'
  BY <1>9, <1>final DEF Act, Step
<1>10. ASSUME NEW q \in Requests, ExpiresAtPasses(q) PROVE ReadInv'
  BY <1>10, <1>final DEF ExpiresAtPasses
<1>11. ASSUME NEW q \in Requests, StepFails(q) PROVE ReadInv'
  BY <1>11, <1>final DEF StepFails
<1>12. ASSUME NEW c \in Actors, Press(c) PROVE ReadInv'
  BY <1>12, <1>final DEF Press, Move
<1>13. ASSUME NEW c \in Actors, Submit(c) PROVE ReadInv'
  BY <1>13, <1>final DEF Submit
<1>14. ASSUME NEW c \in Actors, DecideRow(c) PROVE ReadInv'
  BY <1>14, <1>final DEF DecideRow, Move, Resolve
<1>15. ASSUME NEW c \in Actors, Reread(c) PROVE ReadInv'
  BY <1>15, <1>final DEF Reread, Move
<1>16. ASSUME NEW c \in Actors, Redraw(c) PROVE ReadInv'
  BY <1>16, <1>final DEF Redraw, Move, Verdict
<1>17. ASSUME NEW c \in Actors, Lapse(c) PROVE ReadInv'
  BY <1>17, <1>final DEF Lapse, Move, Resolve
<1>18. ASSUME NEW c \in Actors, Redeem(c) PROVE ReadInv'
  BY <1>18, <1>final DEF Redeem, Move, Resolve
<1>19. CASE Crash
  BY <1>19, <1>final DEF Crash, Open, Waiting, Handling
<1>20. CASE UNCHANGED vars
  BY <1>20, <1>final DEF vars
<1>21. QED
  BY <1>1, <1>2, <1>3, <1>4, <1>5, <1>6, <1>7, <1>8, <1>9, <1>10, <1>11, <1>12, <1>13, <1>14, <1>15, <1>16, <1>17, <1>18, <1>19, <1>20 DEF Next, RunStep, HandlerStep

\* Nor does a handler's, nor the decision of the one that won.
LEMMA HandlersStep == IInv /\ [Next]_vars => HandlerInv'
<1> SUFFICES ASSUME IInv, [Next]_vars PROVE HandlerInv'
  OBVIOUS
<1> USE ActorsAssumption DEF IInv, TypeOK, HandlerInv, Decided
<1>final. \A p \in Requests : row[p] \in Decided => row'[p] = row[p]
  BY DecisionsAreFinal DEF IInv, GateInv
<1>1. ASSUME NEW q \in Requests, Request(q) PROVE HandlerInv'
  BY <1>1, <1>final DEF Request, Step
<1>2. ASSUME NEW q \in Requests, Post(q) PROVE HandlerInv'
  BY <1>2, <1>final DEF Post, Step
<1>3. ASSUME NEW q \in Requests, RecordMessage(q) PROVE HandlerInv'
  BY <1>3, <1>final DEF RecordMessage, Step
<1>4. ASSUME NEW q \in Requests, Poll(q) PROVE HandlerInv'
  BY <1>4, <1>final DEF Poll, Step
<1>5. ASSUME NEW q \in Requests, Judge(q) PROVE HandlerInv'
  BY <1>5, <1>final DEF Judge, JudgeAs, AnswerTo
<1>6. ASSUME NEW q \in Requests, ExpireRow(q) PROVE HandlerInv'
  BY <1>6, <1>final DEF ExpireRow, Step, Resolve
<1>7. ASSUME NEW q \in Requests, Resume(q) PROVE HandlerInv'
  BY <1>7, <1>final DEF Resume, Step
<1>8. ASSUME NEW q \in Requests, Recall(q) PROVE HandlerInv'
  BY <1>8, <1>final DEF Recall, Step
<1>9. ASSUME NEW q \in Requests, Act(q) PROVE HandlerInv'
  BY <1>9, <1>final DEF Act, Step
<1>10. ASSUME NEW q \in Requests, ExpiresAtPasses(q) PROVE HandlerInv'
  BY <1>10, <1>final DEF ExpiresAtPasses
<1>11. ASSUME NEW q \in Requests, StepFails(q) PROVE HandlerInv'
  BY <1>11, <1>final DEF StepFails
<1>12. ASSUME NEW c \in Actors, Press(c) PROVE HandlerInv'
  BY <1>12, <1>final DEF Press, Move
<1>13. ASSUME NEW c \in Actors, Submit(c) PROVE HandlerInv'
  BY <1>13, <1>final DEF Submit
<1>14. ASSUME NEW c \in Actors, DecideRow(c) PROVE HandlerInv'
  BY <1>14, <1>final DEF DecideRow, Move, Resolve
<1>15. ASSUME NEW c \in Actors, Reread(c) PROVE HandlerInv'
  BY <1>15, <1>final DEF Reread, Move
<1>16. ASSUME NEW c \in Actors, Redraw(c) PROVE HandlerInv'
  BY <1>16, <1>final DEF Redraw, Move, Verdict
<1>17. ASSUME NEW c \in Actors, Lapse(c) PROVE HandlerInv'
  BY <1>17, <1>final DEF Lapse, Move, Resolve
<1>18. ASSUME NEW c \in Actors, Redeem(c) PROVE HandlerInv'
  BY <1>18, <1>final DEF Redeem, Move, Resolve
<1>19. CASE Crash
  BY <1>19, <1>final DEF Crash, Open, Waiting, Handling
<1>20. CASE UNCHANGED vars
  BY <1>20, <1>final DEF vars
<1>21. QED
  BY <1>1, <1>2, <1>3, <1>4, <1>5, <1>6, <1>7, <1>8, <1>9, <1>10, <1>11, <1>12, <1>13, <1>14, <1>15, <1>16, <1>17, <1>18, <1>19, <1>20 DEF Next, RunStep, HandlerStep

\* The answer is taken from the poller's copy.
LEMMA AnswerStep == IInv /\ [Next]_vars => AnswerAgrees'
<1> SUFFICES ASSUME IInv, [Next]_vars PROVE AnswerAgrees'
  OBVIOUS
<1> USE ActorsAssumption DEF IInv, TypeOK, ReadInv, AnswerAgrees, Decided
<1>final. \A p \in Requests : row[p] \in Decided => row'[p] = row[p]
  BY DecisionsAreFinal DEF IInv, GateInv
<1>1. ASSUME NEW q \in Requests, Request(q) PROVE AnswerAgrees'
  BY <1>1, <1>final DEF Request, Step
<1>2. ASSUME NEW q \in Requests, Post(q) PROVE AnswerAgrees'
  BY <1>2, <1>final DEF Post, Step
<1>3. ASSUME NEW q \in Requests, RecordMessage(q) PROVE AnswerAgrees'
  BY <1>3, <1>final DEF RecordMessage, Step
<1>4. ASSUME NEW q \in Requests, Poll(q) PROVE AnswerAgrees'
  BY <1>4, <1>final DEF Poll, Step
<1>5. ASSUME NEW q \in Requests, Judge(q) PROVE AnswerAgrees'
  BY <1>5, <1>final DEF Judge, JudgeAs, AnswerTo
<1>6. ASSUME NEW q \in Requests, ExpireRow(q) PROVE AnswerAgrees'
  BY <1>6, <1>final DEF ExpireRow, Step, Resolve
<1>7. ASSUME NEW q \in Requests, Resume(q) PROVE AnswerAgrees'
  BY <1>7, <1>final DEF Resume, Step
<1>8. ASSUME NEW q \in Requests, Recall(q) PROVE AnswerAgrees'
  BY <1>8, <1>final DEF Recall, Step
<1>9. ASSUME NEW q \in Requests, Act(q) PROVE AnswerAgrees'
  BY <1>9, <1>final DEF Act, Step
<1>10. ASSUME NEW q \in Requests, ExpiresAtPasses(q) PROVE AnswerAgrees'
  BY <1>10, <1>final DEF ExpiresAtPasses
<1>11. ASSUME NEW q \in Requests, StepFails(q) PROVE AnswerAgrees'
  BY <1>11, <1>final DEF StepFails
<1>12. ASSUME NEW c \in Actors, Press(c) PROVE AnswerAgrees'
  BY <1>12, <1>final DEF Press, Move
<1>13. ASSUME NEW c \in Actors, Submit(c) PROVE AnswerAgrees'
  BY <1>13, <1>final DEF Submit
<1>14. ASSUME NEW c \in Actors, DecideRow(c) PROVE AnswerAgrees'
  BY <1>14, <1>final DEF DecideRow, Move, Resolve
<1>15. ASSUME NEW c \in Actors, Reread(c) PROVE AnswerAgrees'
  BY <1>15, <1>final DEF Reread, Move
<1>16. ASSUME NEW c \in Actors, Redraw(c) PROVE AnswerAgrees'
  BY <1>16, <1>final DEF Redraw, Move, Verdict
<1>17. ASSUME NEW c \in Actors, Lapse(c) PROVE AnswerAgrees'
  BY <1>17, <1>final DEF Lapse, Move, Resolve
<1>18. ASSUME NEW c \in Actors, Redeem(c) PROVE AnswerAgrees'
  BY <1>18, <1>final DEF Redeem, Move, Resolve
<1>19. CASE Crash
  BY <1>19, <1>final DEF Crash, Open, Waiting, Handling
<1>20. CASE UNCHANGED vars
  BY <1>20, <1>final DEF vars
<1>21. QED
  BY <1>1, <1>2, <1>3, <1>4, <1>5, <1>6, <1>7, <1>8, <1>9, <1>10, <1>11, <1>12, <1>13, <1>14, <1>15, <1>16, <1>17, <1>18, <1>19, <1>20 DEF Next, RunStep, HandlerStep

\* The message is taken from the handler's copy, or from its victory.
LEMMA MessageStep == IInv /\ [Next]_vars => MessageTellsTruth'
<1> SUFFICES ASSUME IInv, [Next]_vars PROVE MessageTellsTruth'
  OBVIOUS
<1> USE ActorsAssumption DEF IInv, TypeOK, HandlerInv, MessageTellsTruth, Decided, Statuses
<1>final. \A p \in Requests : row[p] \in Decided => row'[p] = row[p]
  BY DecisionsAreFinal DEF IInv, GateInv
<1>1. ASSUME NEW q \in Requests, Request(q) PROVE MessageTellsTruth'
  BY <1>1, <1>final DEF Request, Step
<1>2. ASSUME NEW q \in Requests, Post(q) PROVE MessageTellsTruth'
  BY <1>2, <1>final DEF Post, Step
<1>3. ASSUME NEW q \in Requests, RecordMessage(q) PROVE MessageTellsTruth'
  BY <1>3, <1>final DEF RecordMessage, Step
<1>4. ASSUME NEW q \in Requests, Poll(q) PROVE MessageTellsTruth'
  BY <1>4, <1>final DEF Poll, Step
<1>5. ASSUME NEW q \in Requests, Judge(q) PROVE MessageTellsTruth'
  BY <1>5, <1>final DEF Judge, JudgeAs, AnswerTo
<1>6. ASSUME NEW q \in Requests, ExpireRow(q) PROVE MessageTellsTruth'
  BY <1>6, <1>final DEF ExpireRow, Step, Resolve
<1>7. ASSUME NEW q \in Requests, Resume(q) PROVE MessageTellsTruth'
  BY <1>7, <1>final DEF Resume, Step
<1>8. ASSUME NEW q \in Requests, Recall(q) PROVE MessageTellsTruth'
  BY <1>8, <1>final DEF Recall, Step
<1>9. ASSUME NEW q \in Requests, Act(q) PROVE MessageTellsTruth'
  BY <1>9, <1>final DEF Act, Step
<1>10. ASSUME NEW q \in Requests, ExpiresAtPasses(q) PROVE MessageTellsTruth'
  BY <1>10, <1>final DEF ExpiresAtPasses
<1>11. ASSUME NEW q \in Requests, StepFails(q) PROVE MessageTellsTruth'
  BY <1>11, <1>final DEF StepFails
<1>12. ASSUME NEW c \in Actors, Press(c) PROVE MessageTellsTruth'
  BY <1>12, <1>final DEF Press, Move
<1>13. ASSUME NEW c \in Actors, Submit(c) PROVE MessageTellsTruth'
  BY <1>13, <1>final DEF Submit
<1>14. ASSUME NEW c \in Actors, DecideRow(c) PROVE MessageTellsTruth'
  BY <1>14, <1>final DEF DecideRow, Move, Resolve
<1>15. ASSUME NEW c \in Actors, Reread(c) PROVE MessageTellsTruth'
  BY <1>15, <1>final DEF Reread, Move
<1>16. ASSUME NEW c \in Actors, Redraw(c) PROVE MessageTellsTruth'
  BY <1>16, <1>final DEF Redraw, Move, Verdict
<1>17. ASSUME NEW c \in Actors, Lapse(c) PROVE MessageTellsTruth'
  BY <1>17, <1>final DEF Lapse, Move, Resolve
<1>18. ASSUME NEW c \in Actors, Redeem(c) PROVE MessageTellsTruth'
  BY <1>18, <1>final DEF Redeem, Move, Resolve
<1>19. CASE Crash
  BY <1>19, <1>final DEF Crash, Open, Waiting, Handling
<1>20. CASE UNCHANGED vars
  BY <1>20, <1>final DEF vars
<1>21. QED
  BY <1>1, <1>2, <1>3, <1>4, <1>5, <1>6, <1>7, <1>8, <1>9, <1>10, <1>11, <1>12, <1>13, <1>14, <1>15, <1>16, <1>17, <1>18, <1>19, <1>20 DEF Next, RunStep, HandlerStep

\* The invariant is inductive.
LEMMA InvStep == IInv /\ [Next]_vars => IInv'
BY TypeStep, GateStep, ReadStep, HandlersStep, AnswerStep, MessageStep DEF IInv

\* And so it always holds.
LEMMA Invariant == Spec => []IInv
BY InvInit, InvStep, PTL DEF Spec

\* What the run tells the model agrees with the row of the request, for any number
\* of users, requests and failures.
THEOREM AnswersAgree == Spec => []AnswerAgrees
<1>1. IInv => AnswerAgrees
  BY DEF IInv
<1>2. QED
  BY <1>1, Invariant, PTL

\* A redrawn Slack message never claims a decision other than the row's, in
\* whatever order the handlers of several presses run.
THEOREM MessagesTellTruth == Spec => []MessageTellsTruth
<1>1. IInv => MessageTellsTruth
  BY DEF IInv
<1>2. QED
  BY <1>1, Invariant, PTL

-----------------------------------------------------------------------------
(* The gate keeps the promise of Permission.                               *)

\* The four things a step can do to the rows and the calls that were made.
Asks(q)      == row[q] = "none" /\ row' = [row EXCEPT ![q] = "PENDING"] /\ acted' = acted
Settles(q,d) == row[q] = "PENDING" /\ row' = [row EXCEPT ![q] = d] /\ acted' = acted
Performs(q)  == /\ row[q] = "APPROVED" /\ q \notin acted
                /\ acted' = acted \cup {q} /\ row' = row
Stutters     == row' = row /\ acted' = acted

PromiseStep ==
  \/ Stutters
  \/ \E q \in Requests : Asks(q) \/ Performs(q) \/ \E d \in Decided : Settles(q, d)

\* The update that asks for a pending row settles it, or leaves everything alone.
LEMMA ResolveSettles ==
  ASSUME TypeOK, NEW q \in Requests, NEW d \in Decided, Resolve(q, d), acted' = acted
  PROVE  PromiseStep
<1>1. CASE row[q] = "PENDING"
  BY <1>1 DEF PromiseStep, Settles, Resolve, TypeOK
<1>2. CASE row[q] # "PENDING"
  <2>1. row' = row
    BY <1>2 DEF Resolve, TypeOK
  <2>2. QED
    BY <2>1 DEF PromiseStep, Stutters
<1>3. QED
  BY <1>1, <1>2

\* Every step does one of them, or nothing: rows are only ever asked for or settled,
\* and a call is made once and behind an open gate.
LEMMA EveryStepKeepsPromise == IInv /\ [Next]_vars => PromiseStep
<1> SUFFICES ASSUME IInv, [Next]_vars PROVE PromiseStep
  OBVIOUS
<1> USE ActorsAssumption DEF IInv, TypeOK
<1>1. ASSUME NEW q \in Requests, Request(q) PROVE PromiseStep
  BY <1>1 DEF Request, Step, GateInv, PromiseStep, Asks
<1>2. ASSUME NEW q \in Requests, Post(q) PROVE PromiseStep
  BY <1>2 DEF Post, PromiseStep, Stutters
<1>3. ASSUME NEW q \in Requests, RecordMessage(q) PROVE PromiseStep
  BY <1>3 DEF RecordMessage, PromiseStep, Stutters
<1>4. ASSUME NEW q \in Requests, Poll(q) PROVE PromiseStep
  BY <1>4 DEF Poll, PromiseStep, Stutters
<1>5. ASSUME NEW q \in Requests, Judge(q) PROVE PromiseStep
  BY <1>5 DEF Judge, JudgeAs, PromiseStep, Stutters
<1>6. ASSUME NEW q \in Requests, ExpireRow(q) PROVE PromiseStep
  BY <1>6, ResolveSettles DEF ExpireRow, Decided
<1>7. ASSUME NEW q \in Requests, Resume(q) PROVE PromiseStep
  BY <1>7 DEF Resume, PromiseStep, Stutters
<1>8. ASSUME NEW q \in Requests, Recall(q) PROVE PromiseStep
  BY <1>8 DEF Recall, PromiseStep, Stutters
<1>9. ASSUME NEW q \in Requests, Act(q) PROVE PromiseStep
  BY <1>9 DEF Act, Step, GateInv, PromiseStep, Performs
<1>10. ASSUME NEW q \in Requests, ExpiresAtPasses(q) PROVE PromiseStep
  BY <1>10 DEF ExpiresAtPasses, PromiseStep, Stutters
<1>11. ASSUME NEW q \in Requests, StepFails(q) PROVE PromiseStep
  BY <1>11 DEF StepFails, PromiseStep, Stutters
<1>12. ASSUME NEW c \in Actors, Press(c) PROVE PromiseStep
  BY <1>12 DEF Press, PromiseStep, Stutters
<1>13. ASSUME NEW c \in Actors, Submit(c) PROVE PromiseStep
  BY <1>13 DEF Submit, PromiseStep, Stutters
<1>14. ASSUME NEW c \in Actors, DecideRow(c) PROVE PromiseStep
  <2>1. CASE UNCHANGED row
    BY <1>14, <2>1 DEF DecideRow, PromiseStep, Stutters
  <2>2. CASE Resolve(AboutOf[c], IF wants[c] = "approve" THEN "APPROVED" ELSE "REJECTED")
    BY <1>14, <2>2, ResolveSettles DEF DecideRow, Decided
  <2>3. QED
    BY <1>14, <2>1, <2>2 DEF DecideRow
<1>15. ASSUME NEW c \in Actors, Reread(c) PROVE PromiseStep
  BY <1>15 DEF Reread, PromiseStep, Stutters
<1>16. ASSUME NEW c \in Actors, Redraw(c) PROVE PromiseStep
  BY <1>16 DEF Redraw, PromiseStep, Stutters
<1>17. ASSUME NEW c \in Actors, Lapse(c) PROVE PromiseStep
  BY <1>17, ResolveSettles DEF Lapse, Decided
<1>18. ASSUME NEW c \in Actors, Redeem(c) PROVE PromiseStep
  BY <1>18, ResolveSettles DEF Redeem, Decided
<1>19. CASE Crash
  BY <1>19 DEF Crash, PromiseStep, Stutters
<1>20. CASE UNCHANGED vars
  BY <1>20 DEF vars, PromiseStep, Stutters
<1>21. QED
  BY <1>1, <1>2, <1>3, <1>4, <1>5, <1>6, <1>7, <1>8, <1>9, <1>10, <1>11, <1>12, <1>13, <1>14, <1>15, <1>16, <1>17, <1>18, <1>19, <1>20 DEF Next, RunStep, HandlerStep

\* Seen through the mapping of ApprovalGate, each of them is a step of Permission.
LEMMA PromiseRefined ==
  IInv /\ [Next]_vars => [Promise!PermissionNext]_(Promise!permissionVars)
<1> SUFFICES ASSUME IInv, [Next]_vars, ~Stutters
             PROVE  Promise!PermissionNext
  BY DEF Stutters, Promise!permissionVars
<1> USE DEF IInv, TypeOK
<1>1. PICK q \in Requests : Asks(q) \/ Performs(q) \/ \E d \in Decided : Settles(q, d)
  BY EveryStepKeepsPromise DEF PromiseStep
<1>2. CASE Asks(q)
  <2>1. Promise!Ask(q)
    BY <1>2 DEF Asks, Promise!Ask
  <2>2. QED
    BY <2>1 DEF Promise!PermissionNext
<1>3. CASE Performs(q)
  <2>1. Promise!Perform(q)
    BY <1>3 DEF Performs, Promise!Perform
  <2>2. QED
    BY <2>1 DEF Promise!PermissionNext
<1>4. ASSUME NEW d \in Decided, Settles(q, d) PROVE Promise!Decide(q)
  BY <1>4 DEF Settles, Decided, Promise!Decide, Promise!Decisions
<1>5. QED
  BY <1>1, <1>2, <1>3, <1>4 DEF Promise!PermissionNext

\* A request is decided at most once and for good, and its tool call is made at most
\* once and only after approval.
THEOREM PermissionIsKept == Spec => PermissionSpec
<1>1. Init => Promise!PermissionInit
  BY DEF Init, Promise!PermissionInit
<1>2. QED
  BY <1>1, Invariant, PromiseRefined, PTL DEF Spec, PermissionSpec, Promise!PermissionSpec
=============================================================================
