--------------------------- MODULE AgentRunsProofs ---------------------------
(***************************************************************************)
(* Theorems about AgentRuns, for every set of threads and runs, every      *)
(* limit and every choice of Events.                                       *)
(***************************************************************************)
EXTENDS AgentRuns, FiniteSetTheorems, TLAPS

USE DEF threadRow, locals, slotVars

-----------------------------------------------------------------------------
(* Type correctness.                                                       *)

\* Where a transition goes on is a label, and what it asks for is a phase.
LEMMA TransitionTables ==
  /\ \A l \in DOMAIN Target : Target[l] \in ThreadPhases
  /\ DOMAIN After = DOMAIN Target
  /\ \A l \in DOMAIN After : After[l] \in Labels
BY DEF Target, After, ThreadPhases, Labels, InFlight, BeforeTry, InTry, Working, Cleanup

\* The initial rows and counters have their types.
LEMMA TypeInit == Init => TypeOK
BY LimitAssumption DEF Init, TypeOK, Labels, ThreadPhases

\* The round counter stays in its range because a run inside a tool round has
\* one left: the guard of the loop in execute().
RoundInv ==
  \A r \in Runs :
    pc[r] \in {"useTools", "tools", "gate", "approval", "ungate"} =>
      round[r] < MaxToolRounds

\* Every step keeps the types; the bound of round needs RoundInv in FinishTools.
LEMMA TypeStep == TypeOK /\ RoundInv /\ [Next]_vars => TypeOK'
<1> SUFFICES ASSUME TypeOK, RoundInv, [Next]_vars PROVE TypeOK'
  OBVIOUS
<1> USE ThreadAssumption, LimitAssumption
    DEF TypeOK, Labels, InFlight, BeforeTry, InTry, Working, Cleanup
<1>1. ASSUME NEW r \in Runs, ReadPhase(r) PROVE TypeOK'
  BY <1>1 DEF ReadPhase, Throw, Goto
<1>2. ASSUME NEW r \in Runs, SetPhase(r) PROVE TypeOK'
  BY <1>2, TransitionTables DEF SetPhase, Throw, Goto, After
<1>3. ASSUME NEW r \in Runs, EnsureNotLocked(r) PROVE TypeOK'
  BY <1>3 DEF EnsureNotLocked, Goto
<1>4. ASSUME NEW r \in Runs, CreateRow(r) PROVE TypeOK'
  BY <1>4 DEF CreateRow, At, Goto
<1>5. ASSUME NEW r \in Runs, TakeSlot(r) PROVE TypeOK'
  BY <1>5 DEF TakeSlot, Goto
<1>6. ASSUME NEW r \in Runs, SlotRefused(r) PROVE TypeOK'
  BY <1>6 DEF SlotRefused, At, Goto
<1>7. ASSUME NEW r \in Runs, TakeLock(r) PROVE TypeOK'
  BY <1>7 DEF TakeLock, Goto, ThreadPhases
<1>8. ASSUME NEW r \in Runs, LockRefused(r) PROVE TypeOK'
  BY <1>8 DEF LockRefused, Throw, Goto
<1>9. ASSUME NEW r \in Runs, Chat(r) PROVE TypeOK'
  BY <1>9 DEF Chat, Goto
<1>10. ASSUME NEW r \in Runs, ApprovalResolved(r) PROVE TypeOK'
  BY <1>10 DEF ApprovalResolved, At, Goto
<1>11. ASSUME NEW r \in Runs, FinishTools(r) PROVE TypeOK'
  BY <1>11 DEF FinishTools, At, Goto, Drain, RoundInv
<1>12. ASSUME NEW r \in Runs, Finish(r) PROVE TypeOK'
  BY <1>12 DEF Finish, At, Goto
<1>13. ASSUME NEW r \in Runs, Park(r) PROVE TypeOK'
  BY <1>13 DEF Park, At, Goto, ResetThread, Drain, ThreadPhases
<1>14. ASSUME NEW r \in Runs, MarkFailed(r) PROVE TypeOK'
  BY <1>14 DEF MarkFailed, At, Goto
<1>15. ASSUME NEW r \in Runs, ResetAfterError(r) PROVE TypeOK'
  BY <1>15 DEF ResetAfterError, At, Goto, ResetThread, ThreadPhases
<1>16. ASSUME NEW r \in Runs, Unlock(r) PROVE TypeOK'
  BY <1>16 DEF Unlock, At, Goto
<1>17. ASSUME NEW r \in Runs, FreeSlot(r) PROVE TypeOK'
  BY <1>17 DEF FreeSlot, Leave, Goto
<1>18. ASSUME NEW r \in Runs, Inject(r) PROVE TypeOK'
  BY <1>18 DEF Inject, At, Goto
<1>19. ASSUME NEW r \in Runs, Upsert(r) PROVE TypeOK'
  BY <1>19 DEF Upsert, Goto, ThreadPhases
<1>20. ASSUME NEW r \in Runs, AskApproval(r) PROVE TypeOK'
  BY <1>20 DEF AskApproval, At, Goto
<1>21. ASSUME NEW r \in Runs, StepFails(r) PROVE TypeOK'
  BY <1>21 DEF StepFails, Throw, Goto
<1>22. ASSUME NEW r \in Runs, LockReplyLost(r) PROVE TypeOK'
  BY <1>22 DEF LockReplyLost, Throw, Goto, ThreadPhases
<1>23. ASSUME NEW r \in Runs, SlotReplyLost(r) PROVE TypeOK'
  BY <1>23 DEF SlotReplyLost, Throw, Goto
<1>24. ASSUME NEW r \in Runs, CleanupFails(r) PROVE TypeOK'
  BY <1>24 DEF CleanupFails, At, Leave, Goto
<1>25. ASSUME NEW r \in Runs, LockTimeout(r) PROVE TypeOK'
  BY <1>25 DEF LockTimeout
<1>26. ASSUME NEW r \in Runs, SlotTimeout(r) PROVE TypeOK'
  BY <1>26 DEF SlotTimeout
<1>27. ASSUME MarkStale PROVE TypeOK'
  BY <1>27 DEF MarkStale, ThreadPhases
<1>28. ASSUME CancelStaleRuns PROVE TypeOK'
  BY <1>28 DEF CancelStaleRuns
<1>29. ASSUME DetectorFails PROVE TypeOK'
  BY <1>29 DEF DetectorFails
<1>30. ASSUME Crash PROVE TypeOK'
  BY <1>30 DEF Crash
<1>31. CASE UNCHANGED vars
  BY <1>31 DEF vars
<1>32. QED
  BY <1>1, <1>2, <1>3, <1>4, <1>5, <1>6, <1>7, <1>8, <1>9, <1>10, <1>11,
     <1>12, <1>13, <1>14, <1>15, <1>16, <1>17, <1>18, <1>19, <1>20, <1>21,
     <1>22, <1>23, <1>24, <1>25, <1>26, <1>27, <1>28, <1>29, <1>30, <1>31
     DEF Next, Progress, Faults

\* A run past llm.chat with tool calls has a round to spare (runner.ts 564).
LEMMA RoundStep == TypeOK /\ RoundInv /\ [Next]_vars => RoundInv'
<1> SUFFICES ASSUME TypeOK, RoundInv, [Next]_vars PROVE RoundInv'
  OBVIOUS
<1> USE LimitAssumption DEF TypeOK, RoundInv
<1>1. ASSUME NEW r \in Runs, ReadPhase(r) PROVE RoundInv'
  BY <1>1 DEF ReadPhase, Throw, Goto
<1>2. ASSUME NEW r \in Runs, SetPhase(r) PROVE RoundInv'
  BY <1>2 DEF SetPhase, Throw, Goto, After, Target, After
<1>3. ASSUME NEW r \in Runs, EnsureNotLocked(r) PROVE RoundInv'
  BY <1>3 DEF EnsureNotLocked, Goto
<1>4. ASSUME NEW r \in Runs, CreateRow(r) PROVE RoundInv'
  BY <1>4 DEF CreateRow, At, Goto
<1>5. ASSUME NEW r \in Runs, TakeSlot(r) PROVE RoundInv'
  BY <1>5 DEF TakeSlot, Goto
<1>6. ASSUME NEW r \in Runs, SlotRefused(r) PROVE RoundInv'
  BY <1>6 DEF SlotRefused, At, Goto
<1>7. ASSUME NEW r \in Runs, TakeLock(r) PROVE RoundInv'
  BY <1>7 DEF TakeLock, Goto
<1>8. ASSUME NEW r \in Runs, LockRefused(r) PROVE RoundInv'
  BY <1>8 DEF LockRefused, Throw, Goto
<1>9. ASSUME NEW r \in Runs, Chat(r) PROVE RoundInv'
  BY <1>9 DEF Chat, Goto
<1>10. ASSUME NEW r \in Runs, ApprovalResolved(r) PROVE RoundInv'
  BY <1>10 DEF ApprovalResolved, At, Goto
<1>11. ASSUME NEW r \in Runs, FinishTools(r) PROVE RoundInv'
  BY <1>11 DEF FinishTools, At, Goto, Drain
<1>12. ASSUME NEW r \in Runs, Finish(r) PROVE RoundInv'
  BY <1>12 DEF Finish, At, Goto
<1>13. ASSUME NEW r \in Runs, Park(r) PROVE RoundInv'
  BY <1>13 DEF Park, At, Goto, ResetThread, Drain
<1>14. ASSUME NEW r \in Runs, MarkFailed(r) PROVE RoundInv'
  BY <1>14 DEF MarkFailed, At, Goto
<1>15. ASSUME NEW r \in Runs, ResetAfterError(r) PROVE RoundInv'
  BY <1>15 DEF ResetAfterError, At, Goto, ResetThread
<1>16. ASSUME NEW r \in Runs, Unlock(r) PROVE RoundInv'
  BY <1>16 DEF Unlock, At, Goto
<1>17. ASSUME NEW r \in Runs, FreeSlot(r) PROVE RoundInv'
  BY <1>17 DEF FreeSlot, Leave, Goto
<1>18. ASSUME NEW r \in Runs, Inject(r) PROVE RoundInv'
  BY <1>18 DEF Inject, At, Goto
<1>19. ASSUME NEW r \in Runs, Upsert(r) PROVE RoundInv'
  BY <1>19 DEF Upsert, Goto
<1>20. ASSUME NEW r \in Runs, AskApproval(r) PROVE RoundInv'
  BY <1>20 DEF AskApproval, At, Goto
<1>21. ASSUME NEW r \in Runs, StepFails(r) PROVE RoundInv'
  BY <1>21 DEF StepFails, Throw, Goto
<1>22. ASSUME NEW r \in Runs, LockReplyLost(r) PROVE RoundInv'
  BY <1>22 DEF LockReplyLost, Throw, Goto
<1>23. ASSUME NEW r \in Runs, SlotReplyLost(r) PROVE RoundInv'
  BY <1>23 DEF SlotReplyLost, Throw, Goto
<1>24. ASSUME NEW r \in Runs, CleanupFails(r) PROVE RoundInv'
  BY <1>24 DEF CleanupFails, At, Leave, Goto
<1>25. ASSUME NEW r \in Runs, LockTimeout(r) PROVE RoundInv'
  BY <1>25 DEF LockTimeout
<1>26. ASSUME NEW r \in Runs, SlotTimeout(r) PROVE RoundInv'
  BY <1>26 DEF SlotTimeout
<1>27. ASSUME MarkStale PROVE RoundInv'
  BY <1>27 DEF MarkStale
<1>28. ASSUME CancelStaleRuns PROVE RoundInv'
  BY <1>28 DEF CancelStaleRuns
<1>29. ASSUME DetectorFails PROVE RoundInv'
  BY <1>29 DEF DetectorFails
<1>30. ASSUME Crash PROVE RoundInv'
  BY <1>30 DEF Crash
<1>31. CASE UNCHANGED vars
  BY <1>31 DEF vars
<1>32. QED
  BY <1>1, <1>2, <1>3, <1>4, <1>5, <1>6, <1>7, <1>8, <1>9, <1>10, <1>11,
     <1>12, <1>13, <1>14, <1>15, <1>16, <1>17, <1>18, <1>19, <1>20, <1>21,
     <1>22, <1>23, <1>24, <1>25, <1>26, <1>27, <1>28, <1>29, <1>30, <1>31
     DEF Next, Progress, Faults

\* Every variable of the model keeps its type.
THEOREM TypeCorrect == Spec => []TypeOK
<1>1. Init => TypeOK /\ RoundInv
  BY TypeInit DEF Init, RoundInv
<1>2. TypeOK /\ RoundInv /\ [Next]_vars => (TypeOK /\ RoundInv)'
  BY TypeStep, RoundStep
<1>3. QED
  BY <1>1, <1>2, PTL DEF Spec
-----------------------------------------------------------------------------
(* The thread lock.                                                        *)

BeforeLock == {"idle", "prompt", "takeLock"} \cup BeforeTry

\* Why two runs in time never share a thread: lockAcquired is TRUE exactly in the
\* locked part of run(), lockedBy names such a run until its lease is overdue,
\* and a run that has not asked for the lock yet left no trace in its columns.
LockInv ==
  /\ \A r \in Runs : pc[r] \in Working => r \in holds
  /\ \A r \in holds : pc[r] \in Working \cup {"failed", "reset", "unlock"}
  /\ \A r \in Runs :
       pc[r] \in BeforeLock => lockedBy[ThreadOf[r]] # r /\ r \notin overdue
  /\ \A r \in holds \ overdue : lockedBy[ThreadOf[r]] = r

\* Before the first message nobody works and nobody holds a lock.
LEMMA LockInit == Init => LockInv
BY RunsAssumption, ThreadAssumption DEF Init, LockInv, Working

\* No step of a run, of the detector or of the environment breaks LockInv.
LEMMA LockStep == TypeOK /\ LockInv /\ [Next]_vars => LockInv'
<1> SUFFICES ASSUME TypeOK, LockInv, [Next]_vars PROVE LockInv'
  OBVIOUS
<1> USE RunsAssumption, ThreadAssumption
    DEF TypeOK, LockInv, Working, BeforeLock, BeforeTry
<1>1. ASSUME NEW r \in Runs, ReadPhase(r) PROVE LockInv'
  BY <1>1 DEF ReadPhase, Throw, Goto, Target
<1>2. ASSUME NEW r \in Runs, SetPhase(r) PROVE LockInv'
  BY <1>2 DEF SetPhase, Throw, Goto, After, Target, After
<1>3. ASSUME NEW r \in Runs, EnsureNotLocked(r) PROVE LockInv'
  BY <1>3 DEF EnsureNotLocked, Goto
<1>4. ASSUME NEW r \in Runs, CreateRow(r) PROVE LockInv'
  BY <1>4 DEF CreateRow, At, Goto
<1>5. ASSUME NEW r \in Runs, TakeSlot(r) PROVE LockInv'
  BY <1>5 DEF TakeSlot, Goto
<1>6. ASSUME NEW r \in Runs, SlotRefused(r) PROVE LockInv'
  BY <1>6 DEF SlotRefused, At, Goto
<1>7. ASSUME NEW r \in Runs, TakeLock(r) PROVE LockInv'
  BY <1>7 DEF TakeLock, Goto, Acquirable
<1>8. ASSUME NEW r \in Runs, LockRefused(r) PROVE LockInv'
  BY <1>8 DEF LockRefused, Throw, Goto
<1>9. ASSUME NEW r \in Runs, Chat(r) PROVE LockInv'
  BY <1>9 DEF Chat, Goto
<1>10. ASSUME NEW r \in Runs, ApprovalResolved(r) PROVE LockInv'
  BY <1>10 DEF ApprovalResolved, At, Goto
<1>11. ASSUME NEW r \in Runs, FinishTools(r) PROVE LockInv'
  BY <1>11 DEF FinishTools, At, Goto, Drain
<1>12. ASSUME NEW r \in Runs, Finish(r) PROVE LockInv'
  BY <1>12 DEF Finish, At, Goto
<1>13. ASSUME NEW r \in Runs, Park(r) PROVE LockInv'
  BY <1>13 DEF Park, At, Goto, ResetThread, Drain
<1>14. ASSUME NEW r \in Runs, MarkFailed(r) PROVE LockInv'
  BY <1>14 DEF MarkFailed, At, Goto
<1>15. ASSUME NEW r \in Runs, ResetAfterError(r) PROVE LockInv'
  BY <1>15 DEF ResetAfterError, At, Goto, ResetThread
<1>16. ASSUME NEW r \in Runs, Unlock(r) PROVE LockInv'
  BY <1>16 DEF Unlock, At, Goto
<1>17. ASSUME NEW r \in Runs, FreeSlot(r) PROVE LockInv'
  BY <1>17 DEF FreeSlot, Leave, Goto
<1>18. ASSUME NEW r \in Runs, Inject(r) PROVE LockInv'
  BY <1>18 DEF Inject, At, Goto
<1>19. ASSUME NEW r \in Runs, Upsert(r) PROVE LockInv'
  BY <1>19 DEF Upsert, Goto
<1>20. ASSUME NEW r \in Runs, AskApproval(r) PROVE LockInv'
  BY <1>20 DEF AskApproval, At, Goto
<1>21. ASSUME NEW r \in Runs, StepFails(r) PROVE LockInv'
  BY <1>21 DEF StepFails, Throw, Goto, InTry
<1>22. ASSUME NEW r \in Runs, LockReplyLost(r) PROVE LockInv'
  BY <1>22 DEF LockReplyLost, Throw, Goto, Acquirable
<1>23. ASSUME NEW r \in Runs, SlotReplyLost(r) PROVE LockInv'
  BY <1>23 DEF SlotReplyLost, Throw, Goto
<1>24. ASSUME NEW r \in Runs, CleanupFails(r) PROVE LockInv'
  BY <1>24 DEF CleanupFails, At, Leave, Goto
<1>25. ASSUME NEW r \in Runs, LockTimeout(r) PROVE LockInv'
  BY <1>25 DEF LockTimeout
<1>26. ASSUME NEW r \in Runs, SlotTimeout(r) PROVE LockInv'
  BY <1>26 DEF SlotTimeout
<1>27. ASSUME MarkStale PROVE LockInv'
  BY <1>27 DEF MarkStale, StaleCandidates, Busy, RunsOf, InFlight, InTry, Cleanup
<1>28. ASSUME CancelStaleRuns PROVE LockInv'
  BY <1>28 DEF CancelStaleRuns
<1>29. ASSUME DetectorFails PROVE LockInv'
  BY <1>29 DEF DetectorFails
<1>30. ASSUME Crash PROVE LockInv'
  BY <1>30 DEF Crash, InFlight, InTry, Cleanup
<1>31. CASE UNCHANGED vars
  BY <1>31 DEF vars
<1>32. QED
  BY <1>1, <1>2, <1>3, <1>4, <1>5, <1>6, <1>7, <1>8, <1>9, <1>10, <1>11,
     <1>12, <1>13, <1>14, <1>15, <1>16, <1>17, <1>18, <1>19, <1>20, <1>21,
     <1>22, <1>23, <1>24, <1>25, <1>26, <1>27, <1>28, <1>29, <1>30, <1>31
     DEF Next, Progress, Faults

\* Types and LockInv hold in every reachable state.
LEMMA LockAlways == Spec => [](TypeOK /\ LockInv)
<1>1. TypeOK /\ LockInv /\ [Next]_vars => LockInv'
  BY LockStep
<1>2. QED
  BY <1>1, LockInit, TypeCorrect, PTL DEF Spec

\* Two runs work on the same thread only when one of them has outlived its lease,
\* whatever fails, crashes or arrives together.
THEOREM LeaseIsExclusive == Spec => []LeaseExclusive
<1>1. TypeOK /\ LockInv => LeaseExclusive
  BY DEF LockInv, LeaseExclusive
<1>2. QED
  BY <1>1, LockAlways, PTL

\* Every step of the program is a step of the abstract lease or leaves it alone.
LEMMA LeaseStep ==
  TypeOK /\ LockInv /\ [Next]_vars => [Lease!LeaseNext]_(Lease!leaseVars)
<1> SUFFICES ASSUME TypeOK, LockInv, [Next]_vars
             PROVE  Lease!LeaseNext \/ UNCHANGED <<lockedBy, holds, overdue>>
  BY DEF Lease!leaseVars
<1> USE RunsAssumption, ThreadAssumption DEF TypeOK, LockInv
<1>1. ASSUME NEW r \in Runs, TakeLock(r) PROVE Lease!LeaseNext \/ UNCHANGED <<lockedBy, holds, overdue>>
  <2>1. CASE Acquirable(ThreadOf[r])
    <3>1. Lease!Acquire(r)
      BY <1>1, <2>1 DEF TakeLock, Acquirable, Lease!Acquire, Lease!Takeable, BeforeLock, Working
    <3>2. QED
      BY <3>1 DEF Lease!LeaseNext
  <2>2. CASE ~Acquirable(ThreadOf[r])
    BY <1>1, <2>2 DEF TakeLock
  <2>3. QED
    BY <2>1, <2>2
<1>2. ASSUME NEW r \in Runs, LockReplyLost(r) PROVE Lease!LeaseNext
  <2>1. Lease!Acquire(r)
    BY <1>2 DEF LockReplyLost, Acquirable, Lease!Acquire, Lease!Takeable, BeforeLock, Working
  <2>2. QED
    BY <2>1 DEF Lease!LeaseNext
<1>3. ASSUME NEW r \in Runs, Unlock(r) PROVE Lease!LeaseNext \/ UNCHANGED <<lockedBy, holds, overdue>>
  <2>1. CASE r \in holds
    <3>1. Lease!Release(r)
      BY <1>3, <2>1 DEF Unlock, Lease!Release
    <3>2. QED
      BY <3>1 DEF Lease!LeaseNext
  <2>2. CASE r \notin holds
    BY <1>3, <2>2 DEF Unlock
  <2>3. QED
    BY <2>1, <2>2
<1>4. ASSUME NEW r \in Runs, CleanupFails(r) PROVE Lease!LeaseNext \/ UNCHANGED <<lockedBy, holds, overdue>>
  <2>1. CASE r \in holds /\ holds' = holds \ {r}
    <3>1. Lease!Abandon({r})
      BY <1>4, <2>1 DEF CleanupFails, Lease!Abandon
    <3>2. QED
      BY <3>1 DEF Lease!LeaseNext
  <2>2. CASE UNCHANGED holds
    BY <1>4, <2>2 DEF CleanupFails
  <2>3. QED
    BY <1>4, <2>1, <2>2 DEF CleanupFails
<1>5. ASSUME NEW r \in Runs, LockTimeout(r) PROVE Lease!LeaseNext
  <2>1. Lease!Expire(r)
    BY <1>5 DEF LockTimeout, Lease!Expire
  <2>2. QED
    BY <2>1 DEF Lease!LeaseNext
<1>6. ASSUME MarkStale PROVE Lease!LeaseNext
  <2>1. PICK stale \in SUBSET StaleCandidates :
          /\ lockedBy' = [t \in Threads |-> IF t \in stale THEN NoRun ELSE lockedBy[t]]
          /\ UNCHANGED <<holds, overdue>>
    BY <1>6 DEF MarkStale
  <2>2. stale \in SUBSET Threads
    BY DEF StaleCandidates
  <2>3. \A r \in holds : ThreadOf[r] \notin stale
    BY DEF StaleCandidates, Busy, RunsOf, InFlight, InTry, Cleanup
  <2>4. Lease!Clear(stale)
    BY <2>1, <2>3 DEF Lease!Clear
  <2>5. QED
    BY <2>2, <2>4 DEF Lease!LeaseNext
<1>7. ASSUME Crash PROVE Lease!LeaseNext \/ UNCHANGED <<lockedBy, holds, overdue>>
  <2>1. CASE holds = {}
    BY <1>7, <2>1 DEF Crash
  <2>2. CASE holds # {}
    <3>1. Lease!Abandon(holds)
      BY <1>7, <2>2 DEF Crash, Lease!Abandon
    <3>2. QED
      BY <3>1 DEF Lease!LeaseNext
  <2>3. QED
    BY <2>1, <2>2
<1>8. ASSUME NEW r \in Runs,
             \/ Upsert(r) \/ AskApproval(r) \/ ReadPhase(r) \/ SetPhase(r)
             \/ EnsureNotLocked(r) \/ CreateRow(r) \/ TakeSlot(r) \/ SlotRefused(r)
             \/ LockRefused(r) \/ Chat(r) \/ ApprovalResolved(r) \/ FinishTools(r)
             \/ Finish(r) \/ Park(r) \/ MarkFailed(r) \/ ResetAfterError(r)
             \/ FreeSlot(r) \/ Inject(r) \/ StepFails(r) \/ SlotReplyLost(r)
             \/ SlotTimeout(r)
      PROVE  UNCHANGED <<lockedBy, holds, overdue>>
  BY <1>8 DEF Upsert, AskApproval, ReadPhase, SetPhase, EnsureNotLocked, CreateRow,
       TakeSlot, SlotRefused, LockRefused, Chat, ApprovalResolved, FinishTools, Finish,
       Park, MarkFailed, ResetAfterError, FreeSlot, Inject, StepFails, SlotReplyLost,
       SlotTimeout
<1>9. ASSUME CancelStaleRuns \/ DetectorFails \/ UNCHANGED vars
      PROVE  UNCHANGED <<lockedBy, holds, overdue>>
  BY <1>9 DEF CancelStaleRuns, DetectorFails, vars
<1>10. QED
  BY <1>1, <1>2, <1>3, <1>4, <1>5, <1>6, <1>7, <1>8, <1>9 DEF Next, Progress, Faults

\* runner.ts and stale.ts use the lock columns as the abstract lease allows.
THEOREM LeaseRefined == Spec => LeaseSpec
<1>1. Init => Lease!LeaseInit
  BY DEF Init, Lease!LeaseInit
<1>2. TypeOK /\ LockInv /\ [Next]_vars => [Lease!LeaseNext]_(Lease!leaseVars)
  BY LeaseStep
<1>3. QED
  BY <1>1, <1>2, LockAlways, PTL DEF Spec, LeaseSpec, Lease!LeaseSpec
-----------------------------------------------------------------------------
(* What a thread looks like between runs.                                  *)

\* A phase other than the two resting ones belongs to a run that will still reset
\* it, or to a run that died before it could.
ReadyInv ==
  \A t \in Threads :
    \/ phase[t] \in {"IDLE", "TRIGGER"}
    \/ \E r \in RunsOf(t) : pc[r] \in InTry \cup {"failed", "reset", "dead"}

\* Every step that leaves a resting phase is made by a run that will reset it.
LEMMA ReadyStep ==
  ASSUME "cleanupFails" \notin Events
  PROVE  TypeOK /\ ReadyInv /\ [Next]_vars => ReadyInv'
<1> SUFFICES ASSUME TypeOK, ReadyInv, [Next]_vars PROVE ReadyInv'
  OBVIOUS
<1> USE ThreadAssumption DEF TypeOK, ReadyInv, RunsOf, InTry, Working
<1>1. ASSUME NEW r \in Runs, ReadPhase(r) PROVE ReadyInv'
  BY <1>1 DEF ReadPhase, Throw, Goto, BeforeTry
<1>2. ASSUME NEW r \in Runs, SetPhase(r) PROVE ReadyInv'
  BY <1>2 DEF SetPhase, Throw, Goto, After, Target, After, BeforeTry
<1>3. ASSUME NEW r \in Runs, EnsureNotLocked(r) PROVE ReadyInv'
  BY <1>3 DEF EnsureNotLocked, Goto
<1>4. ASSUME NEW r \in Runs, CreateRow(r) PROVE ReadyInv'
  BY <1>4 DEF CreateRow, At, Goto
<1>5. ASSUME NEW r \in Runs, TakeSlot(r) PROVE ReadyInv'
  BY <1>5 DEF TakeSlot, Goto
<1>6. ASSUME NEW r \in Runs, SlotRefused(r) PROVE ReadyInv'
  BY <1>6 DEF SlotRefused, At, Goto
<1>7. ASSUME NEW r \in Runs, TakeLock(r) PROVE ReadyInv'
  BY <1>7 DEF TakeLock, Goto
<1>8. ASSUME NEW r \in Runs, LockRefused(r) PROVE ReadyInv'
  BY <1>8 DEF LockRefused, Throw, Goto, BeforeTry
<1>9. ASSUME NEW r \in Runs, Chat(r) PROVE ReadyInv'
  BY <1>9 DEF Chat, Goto
<1>10. ASSUME NEW r \in Runs, ApprovalResolved(r) PROVE ReadyInv'
  BY <1>10 DEF ApprovalResolved, At, Goto
<1>11. ASSUME NEW r \in Runs, FinishTools(r) PROVE ReadyInv'
  BY <1>11 DEF FinishTools, At, Goto, Drain
<1>12. ASSUME NEW r \in Runs, Finish(r) PROVE ReadyInv'
  BY <1>12 DEF Finish, At, Goto
<1>13. ASSUME NEW r \in Runs, Park(r) PROVE ReadyInv'
  BY <1>13 DEF Park, At, Goto, ResetThread, Drain
<1>14. ASSUME NEW r \in Runs, MarkFailed(r) PROVE ReadyInv'
  BY <1>14 DEF MarkFailed, At, Goto
<1>15. ASSUME NEW r \in Runs, ResetAfterError(r) PROVE ReadyInv'
  BY <1>15 DEF ResetAfterError, At, Goto, ResetThread
<1>16. ASSUME NEW r \in Runs, Unlock(r) PROVE ReadyInv'
  BY <1>16 DEF Unlock, At, Goto
<1>17. ASSUME NEW r \in Runs, FreeSlot(r) PROVE ReadyInv'
  BY <1>17 DEF FreeSlot, Leave, Goto
<1>18. ASSUME NEW r \in Runs, Inject(r) PROVE ReadyInv'
  BY <1>18 DEF Inject, At, Goto
<1>19. ASSUME NEW r \in Runs, Upsert(r) PROVE ReadyInv'
  BY <1>19 DEF Upsert, Goto
<1>20. ASSUME NEW r \in Runs, AskApproval(r) PROVE ReadyInv'
  BY <1>20 DEF AskApproval, At, Goto
<1>21. ASSUME NEW r \in Runs, StepFails(r) PROVE ReadyInv'
  BY <1>21 DEF StepFails, Throw, Goto, BeforeTry
<1>22. ASSUME NEW r \in Runs, LockReplyLost(r) PROVE ReadyInv'
  BY <1>22 DEF LockReplyLost, Throw, Goto, BeforeTry
<1>23. ASSUME NEW r \in Runs, SlotReplyLost(r) PROVE ReadyInv'
  BY <1>23 DEF SlotReplyLost, Throw, Goto, BeforeTry
<1>24. ASSUME NEW r \in Runs, CleanupFails(r) PROVE ReadyInv'
  BY <1>24 DEF CleanupFails, At, Leave, Goto
<1>25. ASSUME NEW r \in Runs, LockTimeout(r) PROVE ReadyInv'
  BY <1>25 DEF LockTimeout
<1>26. ASSUME NEW r \in Runs, SlotTimeout(r) PROVE ReadyInv'
  BY <1>26 DEF SlotTimeout
<1>27. ASSUME MarkStale PROVE ReadyInv'
  BY <1>27 DEF MarkStale
<1>28. ASSUME CancelStaleRuns PROVE ReadyInv'
  BY <1>28 DEF CancelStaleRuns
<1>29. ASSUME DetectorFails PROVE ReadyInv'
  BY <1>29 DEF DetectorFails
<1>30. ASSUME Crash PROVE ReadyInv'
  BY <1>30 DEF Crash, InFlight, Cleanup
<1>31. CASE UNCHANGED vars
  BY <1>31 DEF vars
<1>32. QED
  BY <1>1, <1>2, <1>3, <1>4, <1>5, <1>6, <1>7, <1>8, <1>9, <1>10, <1>11,
     <1>12, <1>13, <1>14, <1>15, <1>16, <1>17, <1>18, <1>19, <1>20, <1>21,
     <1>22, <1>23, <1>24, <1>25, <1>26, <1>27, <1>28, <1>29, <1>30, <1>31
     DEF Next, Progress, Faults

\* Between runs a thread is ready for its next message, provided the write of the
\* catch block succeeds: every run that left a resting phase resets it.
THEOREM ThreadsAreLeftReady ==
  ASSUME "cleanupFails" \notin Events
  PROVE  Spec => []ThreadLeftReady
<1>1. Init => ReadyInv
  BY DEF Init, ReadyInv
<1>2. TypeOK /\ ReadyInv /\ [Next]_vars => ReadyInv'
  BY ReadyStep
<1>3. ReadyInv => ThreadLeftReady
  BY DEF ReadyInv, ThreadLeftReady, Busy, RunsOf, InFlight, Cleanup
<1>4. QED
  BY <1>1, <1>2, <1>3, TypeCorrect, PTL DEF Spec
-----------------------------------------------------------------------------
(* The stale detector and the runs at work.                                *)

\* While a run is in flight its thread exists and is not STALE.
RunningInv ==
  /\ \A r \in Runs : pc[r] \in InFlight => status[ThreadOf[r]] \in {"ACTIVE", "WAITING"}
  /\ WorkingRunIsRunning

\* The rows of runs at work stay RUNNING, between the detector's updates too.
LEMMA RunningStep == TypeOK /\ RunningInv /\ [Next]_vars => RunningInv'
<1> SUFFICES ASSUME TypeOK, RunningInv, [Next]_vars PROVE RunningInv'
  OBVIOUS
<1> USE ThreadAssumption
    DEF TypeOK, RunningInv, WorkingRunIsRunning, InFlight, BeforeTry, InTry, Working, Cleanup
<1>1. ASSUME NEW r \in Runs, ReadPhase(r) PROVE RunningInv'
  BY <1>1 DEF ReadPhase, Throw, Goto, Target
<1>2. ASSUME NEW r \in Runs, SetPhase(r) PROVE RunningInv'
  BY <1>2 DEF SetPhase, Throw, Goto, After, Target, After
<1>3. ASSUME NEW r \in Runs, EnsureNotLocked(r) PROVE RunningInv'
  BY <1>3 DEF EnsureNotLocked, Goto
<1>4. ASSUME NEW r \in Runs, CreateRow(r) PROVE RunningInv'
  BY <1>4 DEF CreateRow, At, Goto
<1>5. ASSUME NEW r \in Runs, TakeSlot(r) PROVE RunningInv'
  BY <1>5 DEF TakeSlot, Goto
<1>6. ASSUME NEW r \in Runs, SlotRefused(r) PROVE RunningInv'
  BY <1>6 DEF SlotRefused, At, Goto
<1>7. ASSUME NEW r \in Runs, TakeLock(r) PROVE RunningInv'
  BY <1>7 DEF TakeLock, Goto
<1>8. ASSUME NEW r \in Runs, LockRefused(r) PROVE RunningInv'
  BY <1>8 DEF LockRefused, Throw, Goto
<1>9. ASSUME NEW r \in Runs, Chat(r) PROVE RunningInv'
  BY <1>9 DEF Chat, Goto
<1>10. ASSUME NEW r \in Runs, ApprovalResolved(r) PROVE RunningInv'
  BY <1>10 DEF ApprovalResolved, At, Goto
<1>11. ASSUME NEW r \in Runs, FinishTools(r) PROVE RunningInv'
  BY <1>11 DEF FinishTools, At, Goto, Drain
<1>12. ASSUME NEW r \in Runs, Finish(r) PROVE RunningInv'
  BY <1>12 DEF Finish, At, Goto
<1>13. ASSUME NEW r \in Runs, Park(r) PROVE RunningInv'
  BY <1>13 DEF Park, At, Goto, ResetThread, Drain
<1>14. ASSUME NEW r \in Runs, MarkFailed(r) PROVE RunningInv'
  BY <1>14 DEF MarkFailed, At, Goto
<1>15. ASSUME NEW r \in Runs, ResetAfterError(r) PROVE RunningInv'
  BY <1>15 DEF ResetAfterError, At, Goto, ResetThread
<1>16. ASSUME NEW r \in Runs, Unlock(r) PROVE RunningInv'
  BY <1>16 DEF Unlock, At, Goto
<1>17. ASSUME NEW r \in Runs, FreeSlot(r) PROVE RunningInv'
  BY <1>17 DEF FreeSlot, Leave, Goto
<1>18. ASSUME NEW r \in Runs, Inject(r) PROVE RunningInv'
  BY <1>18 DEF Inject, At, Goto
<1>19. ASSUME NEW r \in Runs, Upsert(r) PROVE RunningInv'
  BY <1>19 DEF Upsert, Goto
<1>20. ASSUME NEW r \in Runs, AskApproval(r) PROVE RunningInv'
  BY <1>20 DEF AskApproval, At, Goto
<1>21. ASSUME NEW r \in Runs, StepFails(r) PROVE RunningInv'
  BY <1>21 DEF StepFails, Throw, Goto
<1>22. ASSUME NEW r \in Runs, LockReplyLost(r) PROVE RunningInv'
  BY <1>22 DEF LockReplyLost, Throw, Goto
<1>23. ASSUME NEW r \in Runs, SlotReplyLost(r) PROVE RunningInv'
  BY <1>23 DEF SlotReplyLost, Throw, Goto
<1>24. ASSUME NEW r \in Runs, CleanupFails(r) PROVE RunningInv'
  BY <1>24 DEF CleanupFails, At, Leave, Goto
<1>25. ASSUME NEW r \in Runs, LockTimeout(r) PROVE RunningInv'
  BY <1>25 DEF LockTimeout
<1>26. ASSUME NEW r \in Runs, SlotTimeout(r) PROVE RunningInv'
  BY <1>26 DEF SlotTimeout
<1>27. ASSUME MarkStale PROVE RunningInv'
  BY <1>27 DEF MarkStale, StaleCandidates, Busy, RunsOf
<1>28. ASSUME CancelStaleRuns PROVE RunningInv'
  BY <1>28 DEF CancelStaleRuns
<1>29. ASSUME DetectorFails PROVE RunningInv'
  BY <1>29 DEF DetectorFails
<1>30. ASSUME Crash PROVE RunningInv'
  BY <1>30 DEF Crash
<1>31. CASE UNCHANGED vars
  BY <1>31 DEF vars
<1>32. QED
  BY <1>1, <1>2, <1>3, <1>4, <1>5, <1>6, <1>7, <1>8, <1>9, <1>10, <1>11,
     <1>12, <1>13, <1>14, <1>15, <1>16, <1>17, <1>18, <1>19, <1>20, <1>21,
     <1>22, <1>23, <1>24, <1>25, <1>26, <1>27, <1>28, <1>29, <1>30, <1>31
     DEF Next, Progress, Faults

\* The detector never cancels a run that is still at work, although it takes two
\* updates and new runs may start between them.
THEOREM WorkingRunsAreRunning == Spec => []WorkingRunIsRunning
<1>1. Init => RunningInv
  BY DEF Init, RunningInv, WorkingRunIsRunning, InFlight, BeforeTry, InTry, Working, Cleanup
<1>2. TypeOK /\ RunningInv /\ [Next]_vars => RunningInv'
  BY RunningStep
<1>3. RunningInv => WorkingRunIsRunning
  BY DEF RunningInv
<1>4. QED
  BY <1>1, <1>2, <1>3, TypeCorrect, PTL DEF Spec
-----------------------------------------------------------------------------
(* The concurrency slots.                                                  *)

\* A run past its acquire owns a slot until it outlives the slot's time to live,
\* and the slots taken never exceed the limit.
SlotInv ==
  /\ Cardinality(slots) <= MaxConcurrentRuns
  /\ \A r \in Runs : pc[r] \in InTry \cup Cleanup /\ r \notin outlived => r \in slots

\* Finite sets of runs, and what acquire and release do to their size.
LEMMA SlotCounting ==
  ASSUME NEW S \in SUBSET Runs
  PROVE  /\ Cardinality(S) \in Nat
         /\ \A T \in SUBSET S : Cardinality(T) <= Cardinality(S)
         /\ \A r \in Runs : Cardinality(S \cup {r}) <= Cardinality(S) + 1
<1>1. IsFiniteSet(S)
  BY RunsAssumption, FS_Subset
<1>2. QED
  BY <1>1, FS_Subset, FS_AddElement, FS_CardinalityType

\* acquire counts before it adds, and no other step adds to slots.
LEMMA SlotStep == TypeOK /\ SlotInv /\ [Next]_vars => SlotInv'
<1> SUFFICES ASSUME TypeOK, SlotInv, [Next]_vars PROVE SlotInv'
  OBVIOUS
<1> USE LimitAssumption DEF TypeOK, SlotInv, InTry, Working, Cleanup, BeforeTry
<1> DEFINE kept == slots \ outlived
<1>0. /\ kept \in SUBSET Runs
      /\ Cardinality(kept) \in Nat
      /\ Cardinality(kept) <= MaxConcurrentRuns
      /\ \A r \in Runs : Cardinality(kept) < MaxConcurrentRuns =>
                           Cardinality(kept \cup {r}) <= MaxConcurrentRuns
  <2>1. kept \in SUBSET Runs /\ kept \in SUBSET slots /\ slots \in SUBSET Runs
    OBVIOUS
  <2>2. Cardinality(kept) \in Nat /\ Cardinality(slots) \in Nat /\ Cardinality(kept) <= Cardinality(slots)
    BY <2>1, SlotCounting
  <2>3. ASSUME NEW r \in Runs, Cardinality(kept) < MaxConcurrentRuns
        PROVE  Cardinality(kept \cup {r}) <= MaxConcurrentRuns
    <3>1. kept \cup {r} \in SUBSET Runs
      OBVIOUS
    <3>2. Cardinality(kept \cup {r}) \in Nat /\ Cardinality(kept \cup {r}) <= Cardinality(kept) + 1
      BY <3>1, <2>1, SlotCounting
    <3>3. QED
      BY <3>2, <2>2, <2>3
  <2>4. QED
    BY <2>1, <2>2, <2>3
<1>1. ASSUME NEW r \in Runs, ReadPhase(r) PROVE SlotInv'
  BY <1>1 DEF ReadPhase, Throw, Goto, Target
<1>2. ASSUME NEW r \in Runs, SetPhase(r) PROVE SlotInv'
  BY <1>2 DEF SetPhase, Throw, Goto, After, Target, After
<1>3. ASSUME NEW r \in Runs, EnsureNotLocked(r) PROVE SlotInv'
  BY <1>3 DEF EnsureNotLocked, Goto
<1>4. ASSUME NEW r \in Runs, CreateRow(r) PROVE SlotInv'
  BY <1>4 DEF CreateRow, At, Goto
<1>5. ASSUME NEW r \in Runs, TakeSlot(r) PROVE SlotInv'
  <2>1. Cardinality(slots') <= MaxConcurrentRuns
    BY <1>0, <1>5 DEF TakeSlot
  <2>2. QED
    BY <2>1, <1>5 DEF TakeSlot, Goto
<1>6. ASSUME NEW r \in Runs, SlotRefused(r) PROVE SlotInv'
  BY <1>6 DEF SlotRefused, At, Goto
<1>7. ASSUME NEW r \in Runs, TakeLock(r) PROVE SlotInv'
  BY <1>7 DEF TakeLock, Goto
<1>8. ASSUME NEW r \in Runs, LockRefused(r) PROVE SlotInv'
  BY <1>8 DEF LockRefused, Throw, Goto
<1>9. ASSUME NEW r \in Runs, Chat(r) PROVE SlotInv'
  BY <1>9 DEF Chat, Goto
<1>10. ASSUME NEW r \in Runs, ApprovalResolved(r) PROVE SlotInv'
  BY <1>10 DEF ApprovalResolved, At, Goto
<1>11. ASSUME NEW r \in Runs, FinishTools(r) PROVE SlotInv'
  BY <1>11 DEF FinishTools, At, Goto, Drain
<1>12. ASSUME NEW r \in Runs, Finish(r) PROVE SlotInv'
  BY <1>12 DEF Finish, At, Goto
<1>13. ASSUME NEW r \in Runs, Park(r) PROVE SlotInv'
  BY <1>13 DEF Park, At, Goto, ResetThread, Drain
<1>14. ASSUME NEW r \in Runs, MarkFailed(r) PROVE SlotInv'
  BY <1>14 DEF MarkFailed, At, Goto
<1>15. ASSUME NEW r \in Runs, ResetAfterError(r) PROVE SlotInv'
  BY <1>15 DEF ResetAfterError, At, Goto, ResetThread
<1>16. ASSUME NEW r \in Runs, Unlock(r) PROVE SlotInv'
  BY <1>16 DEF Unlock, At, Goto
<1>17. ASSUME NEW r \in Runs, FreeSlot(r) PROVE SlotInv'
  <2>1. slots \ {r} \in SUBSET slots /\ slots \in SUBSET Runs
    OBVIOUS
  <2>2. Cardinality(slots \ {r}) <= Cardinality(slots) /\ Cardinality(slots) \in Nat
        /\ Cardinality(slots \ {r}) \in Nat
    BY <2>1, SlotCounting
  <2>3. Cardinality(slots') <= MaxConcurrentRuns
    BY <2>2, <1>17 DEF FreeSlot
  <2>4. QED
    BY <2>3, <1>17 DEF FreeSlot, Leave, Goto
<1>18. ASSUME NEW r \in Runs, Inject(r) PROVE SlotInv'
  BY <1>18 DEF Inject, At, Goto
<1>19. ASSUME NEW r \in Runs, Upsert(r) PROVE SlotInv'
  BY <1>19 DEF Upsert, Goto
<1>20. ASSUME NEW r \in Runs, AskApproval(r) PROVE SlotInv'
  BY <1>20 DEF AskApproval, At, Goto
<1>21. ASSUME NEW r \in Runs, StepFails(r) PROVE SlotInv'
  BY <1>21 DEF StepFails, Throw, Goto
<1>22. ASSUME NEW r \in Runs, LockReplyLost(r) PROVE SlotInv'
  BY <1>22 DEF LockReplyLost, Throw, Goto
<1>23. ASSUME NEW r \in Runs, SlotReplyLost(r) PROVE SlotInv'
  <2>1. Cardinality(slots') <= MaxConcurrentRuns
    BY <1>0, <1>23 DEF SlotReplyLost
  <2>2. QED
    BY <2>1, <1>23 DEF SlotReplyLost, Throw, Goto
<1>24. ASSUME NEW r \in Runs, CleanupFails(r) PROVE SlotInv'
  BY <1>24 DEF CleanupFails, At, Leave, Goto
<1>25. ASSUME NEW r \in Runs, LockTimeout(r) PROVE SlotInv'
  BY <1>25 DEF LockTimeout
<1>26. ASSUME NEW r \in Runs, SlotTimeout(r) PROVE SlotInv'
  BY <1>26 DEF SlotTimeout
<1>27. ASSUME MarkStale PROVE SlotInv'
  BY <1>27 DEF MarkStale
<1>28. ASSUME CancelStaleRuns PROVE SlotInv'
  BY <1>28 DEF CancelStaleRuns
<1>29. ASSUME DetectorFails PROVE SlotInv'
  BY <1>29 DEF DetectorFails
<1>30. ASSUME Crash PROVE SlotInv'
  BY <1>30, FS_EmptySet DEF Crash, InFlight
<1>31. CASE UNCHANGED vars
  BY <1>31 DEF vars
<1>32. QED
  BY <1>1, <1>2, <1>3, <1>4, <1>5, <1>6, <1>7, <1>8, <1>9, <1>10, <1>11,
     <1>12, <1>13, <1>14, <1>15, <1>16, <1>17, <1>18, <1>19, <1>20, <1>21,
     <1>22, <1>23, <1>24, <1>25, <1>26, <1>27, <1>28, <1>29, <1>30, <1>31
     DEF Next, Progress, Faults

\* The runs that hold their slot in time never exceed the limit of the workspace.
THEOREM LimitIsKept == Spec => []WithinLimit
<1>1. Init => SlotInv
  BY LimitAssumption, FS_EmptySet DEF Init, SlotInv, InTry, Working, Cleanup
<1>2. TypeOK /\ SlotInv /\ [Next]_vars => SlotInv'
  BY SlotStep
<1>3. TypeOK /\ SlotInv => WithinLimit
  <2> SUFFICES ASSUME TypeOK, SlotInv PROVE WithinLimit
    OBVIOUS
  <2> DEFINE inTime == {r \in Runs : pc[r] \in InTry \cup Cleanup /\ r \notin outlived}
  <2>1. inTime \in SUBSET slots
    BY DEF SlotInv
  <2>2. Cardinality(inTime) <= Cardinality(slots) /\ Cardinality(inTime) \in Nat /\ Cardinality(slots) \in Nat
    BY <2>1, SlotCounting DEF TypeOK
  <2>3. QED
    BY <2>2, LimitAssumption DEF SlotInv, WithinLimit
<1>4. QED
  BY <1>1, <1>2, <1>3, TypeCorrect, PTL DEF Spec
-----------------------------------------------------------------------------
(* The rows of runs.                                                       *)

\* A run that goes into the catch block with anything but a ThreadLockedError has a
\* RUNNING row, and one that has not created its row has none.
ClosedInv ==
  /\ \A r \in Runs : pc[r] = "failed" /\ outcome[r] # "locked" => runStatus[r] = "RUNNING"
  /\ \A r \in Runs : pc[r] \in {"idle", "trigger", "checkLock", "createRow"} => runStatus[r] = "none"

LEMMA ClosedStep ==
  ASSUME "stepFails" \notin Events
  PROVE  TypeOK /\ RunningInv /\ ClosedInv /\ [Next]_vars => ClosedInv'
<1> SUFFICES ASSUME TypeOK, RunningInv, ClosedInv, [Next]_vars PROVE ClosedInv'
  OBVIOUS
<1> USE ThreadAssumption
    DEF TypeOK, RunningInv, WorkingRunIsRunning, ClosedInv, InFlight, BeforeTry, InTry, Working,
        Cleanup
<1>1. ASSUME NEW r \in Runs, ReadPhase(r) PROVE ClosedInv'
  BY <1>1 DEF ReadPhase, Throw, Goto, Target
<1>2. ASSUME NEW r \in Runs, SetPhase(r) PROVE ClosedInv'
  BY <1>2 DEF SetPhase, Throw, Goto, After, Target
<1>3. ASSUME NEW r \in Runs, EnsureNotLocked(r) PROVE ClosedInv'
  BY <1>3 DEF EnsureNotLocked, Goto
<1>4. ASSUME NEW r \in Runs, CreateRow(r) PROVE ClosedInv'
  BY <1>4 DEF CreateRow, At, Goto
<1>5. ASSUME NEW r \in Runs, TakeSlot(r) PROVE ClosedInv'
  BY <1>5 DEF TakeSlot, Goto
<1>6. ASSUME NEW r \in Runs, SlotRefused(r) PROVE ClosedInv'
  BY <1>6 DEF SlotRefused, At, Goto
<1>7. ASSUME NEW r \in Runs, TakeLock(r) PROVE ClosedInv'
  BY <1>7 DEF TakeLock, Goto, Acquirable
<1>8. ASSUME NEW r \in Runs, LockRefused(r) PROVE ClosedInv'
  BY <1>8 DEF LockRefused, Throw, Goto
<1>9. ASSUME NEW r \in Runs, Chat(r) PROVE ClosedInv'
  BY <1>9 DEF Chat, Goto
<1>10. ASSUME NEW r \in Runs, ApprovalResolved(r) PROVE ClosedInv'
  BY <1>10 DEF ApprovalResolved, At, Goto
<1>11. ASSUME NEW r \in Runs, FinishTools(r) PROVE ClosedInv'
  BY <1>11 DEF FinishTools, At, Goto, Drain
<1>12. ASSUME NEW r \in Runs, Finish(r) PROVE ClosedInv'
  BY <1>12 DEF Finish, At, Goto
<1>13. ASSUME NEW r \in Runs, Park(r) PROVE ClosedInv'
  BY <1>13 DEF Park, At, Goto, ResetThread, Drain
<1>14. ASSUME NEW r \in Runs, MarkFailed(r) PROVE ClosedInv'
  BY <1>14 DEF MarkFailed, At, Goto
<1>15. ASSUME NEW r \in Runs, ResetAfterError(r) PROVE ClosedInv'
  BY <1>15 DEF ResetAfterError, At, Goto, ResetThread
<1>16. ASSUME NEW r \in Runs, Unlock(r) PROVE ClosedInv'
  BY <1>16 DEF Unlock, At, Goto
<1>17. ASSUME NEW r \in Runs, FreeSlot(r) PROVE ClosedInv'
  BY <1>17 DEF FreeSlot, Leave, Goto
<1>18. ASSUME NEW r \in Runs, Inject(r) PROVE ClosedInv'
  BY <1>18 DEF Inject, At, Goto
<1>19. ASSUME NEW r \in Runs, Upsert(r) PROVE ClosedInv'
  BY <1>19 DEF Upsert, Goto
<1>20. ASSUME NEW r \in Runs, AskApproval(r) PROVE ClosedInv'
  BY <1>20 DEF AskApproval, At, Goto
<1>21. ASSUME NEW r \in Runs, StepFails(r) PROVE ClosedInv'
  BY <1>21 DEF StepFails, Throw, Goto
<1>22. ASSUME NEW r \in Runs, LockReplyLost(r) PROVE ClosedInv'
  BY <1>22 DEF LockReplyLost, Throw, Goto, Acquirable
<1>23. ASSUME NEW r \in Runs, SlotReplyLost(r) PROVE ClosedInv'
  BY <1>23 DEF SlotReplyLost, Throw, Goto
<1>24. ASSUME NEW r \in Runs, CleanupFails(r) PROVE ClosedInv'
  BY <1>24 DEF CleanupFails, At, Leave, Goto
<1>25. ASSUME NEW r \in Runs, LockTimeout(r) PROVE ClosedInv'
  BY <1>25 DEF LockTimeout
<1>26. ASSUME NEW r \in Runs, SlotTimeout(r) PROVE ClosedInv'
  BY <1>26 DEF SlotTimeout
<1>27. ASSUME MarkStale PROVE ClosedInv'
  BY <1>27 DEF MarkStale, StaleCandidates, Busy, RunsOf
<1>28. ASSUME CancelStaleRuns PROVE ClosedInv'
  BY <1>28 DEF CancelStaleRuns
<1>29. ASSUME DetectorFails PROVE ClosedInv'
  BY <1>29 DEF DetectorFails
<1>30. ASSUME Crash PROVE ClosedInv'
  BY <1>30 DEF Crash
<1>31. CASE UNCHANGED vars
  BY <1>31 DEF vars
<1>32. QED
  BY <1>1, <1>2, <1>3, <1>4, <1>5, <1>6, <1>7, <1>8, <1>9, <1>10, <1>11,
     <1>12, <1>13, <1>14, <1>15, <1>16, <1>17, <1>18, <1>19, <1>20, <1>21,
     <1>22, <1>23, <1>24, <1>25, <1>26, <1>27, <1>28, <1>29, <1>30, <1>31
     DEF Next, Progress, Faults

\* What a step does to the row of a run that is closed: nothing.
LEMMA ClosedRowStep ==
  ASSUME TypeOK, RunningInv, ClosedInv, [Next]_vars,
         NEW s \in Runs, runStatus[s] \in {"COMPLETED", "FAILED", "CANCELLED"}
  PROVE  runStatus'[s] = runStatus[s]
<1> USE ThreadAssumption
    DEF TypeOK, RunningInv, WorkingRunIsRunning, ClosedInv, InFlight, BeforeTry, InTry, Working,
        Cleanup
<1>1. ASSUME NEW r \in Runs, ReadPhase(r) PROVE runStatus'[s] = runStatus[s]
  BY <1>1 DEF ReadPhase, Throw, Goto, Target
<1>2. ASSUME NEW r \in Runs, SetPhase(r) PROVE runStatus'[s] = runStatus[s]
  BY <1>2 DEF SetPhase, Throw, Goto, After, Target
<1>3. ASSUME NEW r \in Runs, EnsureNotLocked(r) PROVE runStatus'[s] = runStatus[s]
  BY <1>3 DEF EnsureNotLocked, Goto
<1>4. ASSUME NEW r \in Runs, CreateRow(r) PROVE runStatus'[s] = runStatus[s]
  BY <1>4 DEF CreateRow, At, Goto
<1>5. ASSUME NEW r \in Runs, TakeSlot(r) PROVE runStatus'[s] = runStatus[s]
  BY <1>5 DEF TakeSlot, Goto
<1>6. ASSUME NEW r \in Runs, SlotRefused(r) PROVE runStatus'[s] = runStatus[s]
  BY <1>6 DEF SlotRefused, At, Goto
<1>7. ASSUME NEW r \in Runs, TakeLock(r) PROVE runStatus'[s] = runStatus[s]
  BY <1>7 DEF TakeLock, Goto, Acquirable
<1>8. ASSUME NEW r \in Runs, LockRefused(r) PROVE runStatus'[s] = runStatus[s]
  BY <1>8 DEF LockRefused, Throw, Goto
<1>9. ASSUME NEW r \in Runs, Chat(r) PROVE runStatus'[s] = runStatus[s]
  BY <1>9 DEF Chat, Goto
<1>10. ASSUME NEW r \in Runs, ApprovalResolved(r) PROVE runStatus'[s] = runStatus[s]
  BY <1>10 DEF ApprovalResolved, At, Goto
<1>11. ASSUME NEW r \in Runs, FinishTools(r) PROVE runStatus'[s] = runStatus[s]
  BY <1>11 DEF FinishTools, At, Goto, Drain
<1>12. ASSUME NEW r \in Runs, Finish(r) PROVE runStatus'[s] = runStatus[s]
  BY <1>12 DEF Finish, At, Goto
<1>13. ASSUME NEW r \in Runs, Park(r) PROVE runStatus'[s] = runStatus[s]
  BY <1>13 DEF Park, At, Goto, ResetThread, Drain
<1>14. ASSUME NEW r \in Runs, MarkFailed(r) PROVE runStatus'[s] = runStatus[s]
  BY <1>14 DEF MarkFailed, At, Goto
<1>15. ASSUME NEW r \in Runs, ResetAfterError(r) PROVE runStatus'[s] = runStatus[s]
  BY <1>15 DEF ResetAfterError, At, Goto, ResetThread
<1>16. ASSUME NEW r \in Runs, Unlock(r) PROVE runStatus'[s] = runStatus[s]
  BY <1>16 DEF Unlock, At, Goto
<1>17. ASSUME NEW r \in Runs, FreeSlot(r) PROVE runStatus'[s] = runStatus[s]
  BY <1>17 DEF FreeSlot, Leave, Goto
<1>18. ASSUME NEW r \in Runs, Inject(r) PROVE runStatus'[s] = runStatus[s]
  BY <1>18 DEF Inject, At, Goto
<1>19. ASSUME NEW r \in Runs, Upsert(r) PROVE runStatus'[s] = runStatus[s]
  BY <1>19 DEF Upsert, Goto
<1>20. ASSUME NEW r \in Runs, AskApproval(r) PROVE runStatus'[s] = runStatus[s]
  BY <1>20 DEF AskApproval, At, Goto
<1>21. ASSUME NEW r \in Runs, StepFails(r) PROVE runStatus'[s] = runStatus[s]
  BY <1>21 DEF StepFails, Throw, Goto
<1>22. ASSUME NEW r \in Runs, LockReplyLost(r) PROVE runStatus'[s] = runStatus[s]
  BY <1>22 DEF LockReplyLost, Throw, Goto, Acquirable
<1>23. ASSUME NEW r \in Runs, SlotReplyLost(r) PROVE runStatus'[s] = runStatus[s]
  BY <1>23 DEF SlotReplyLost, Throw, Goto
<1>24. ASSUME NEW r \in Runs, CleanupFails(r) PROVE runStatus'[s] = runStatus[s]
  BY <1>24 DEF CleanupFails, At, Leave, Goto
<1>25. ASSUME NEW r \in Runs, LockTimeout(r) PROVE runStatus'[s] = runStatus[s]
  BY <1>25 DEF LockTimeout
<1>26. ASSUME NEW r \in Runs, SlotTimeout(r) PROVE runStatus'[s] = runStatus[s]
  BY <1>26 DEF SlotTimeout
<1>27. ASSUME MarkStale PROVE runStatus'[s] = runStatus[s]
  BY <1>27 DEF MarkStale, StaleCandidates, Busy, RunsOf
<1>28. ASSUME CancelStaleRuns PROVE runStatus'[s] = runStatus[s]
  BY <1>28 DEF CancelStaleRuns
<1>29. ASSUME DetectorFails PROVE runStatus'[s] = runStatus[s]
  BY <1>29 DEF DetectorFails
<1>30. ASSUME Crash PROVE runStatus'[s] = runStatus[s]
  BY <1>30 DEF Crash
<1>31. CASE UNCHANGED vars
  BY <1>31 DEF vars
<1>32. QED
  BY <1>1, <1>2, <1>3, <1>4, <1>5, <1>6, <1>7, <1>8, <1>9, <1>10, <1>11,
     <1>12, <1>13, <1>14, <1>15, <1>16, <1>17, <1>18, <1>19, <1>20, <1>21,
     <1>22, <1>23, <1>24, <1>25, <1>26, <1>27, <1>28, <1>29, <1>30, <1>31
     DEF Next, Progress, Faults

\* A closed row is never written again, by its run or by the detector, as long as no
\* awaited call of run() rejects: one that rejects after the row was closed has it
\* written once more.  (runner.ts 262, 334-390, stale.ts 59-69)
THEOREM ClosedRunsStay ==
  ASSUME "stepFails" \notin Events
  PROVE  Spec => ClosedRunStaysClosed
<1>1. Init => RunningInv /\ ClosedInv
  BY DEF Init, RunningInv, ClosedInv, WorkingRunIsRunning, InFlight, BeforeTry, InTry, Working,
         Cleanup
<1>2. TypeOK /\ RunningInv /\ ClosedInv /\ [Next]_vars => RunningInv' /\ ClosedInv'
  BY RunningStep, ClosedStep
<1>3. TypeOK /\ RunningInv /\ ClosedInv /\ [Next]_vars =>
        [\A r \in Runs :
           runStatus[r] \in {"COMPLETED", "FAILED", "CANCELLED"} =>
             runStatus'[r] = runStatus[r]]_vars
  BY ClosedRowStep
<1>4. QED
  BY <1>1, <1>2, <1>3, TypeCorrect, PTL DEF Spec, ClosedRunStaysClosed
-----------------------------------------------------------------------------
(* A call has one row and one end.                                         *)

\* A call that is over, or in its catch and finally blocks, and what its row says then.
Rejecting == Events \cap {"stepFails", "replyLost", "cleanupFails"} # {}
Unrecorded == IF Rejecting THEN {"RUNNING", "COMPLETED"} ELSE {}

EndsAs(r, rows) ==
  \/ outcome[r] = "locked" /\ runStatus[r] = "CANCELLED"
  \/ outcome[r] = "error"  /\ runStatus[r] \in rows

RowInv ==
  \A r \in Runs :
    /\ pc[r] \in {"idle", "trigger", "checkLock", "createRow"} => runStatus[r] = "none"
    /\ pc[r] = "park"   => runStatus[r] = "COMPLETED"
    /\ pc[r] = "failed" => EndsAs(r, {"RUNNING"} \cup Unrecorded)
    /\ pc[r] = "reset"  => EndsAs(r, {"FAILED"} \cup Unrecorded)
    /\ pc[r] \in {"unlock", "freeSlot"} =>
         \/ outcome[r] = "ok" /\ runStatus[r] = "COMPLETED"
         \/ EndsAs(r, {"FAILED"} \cup Unrecorded)
    /\ pc[r] = "react"  => outcome[r] = "locked" /\ runStatus[r] \in {"none", "CANCELLED"}
    /\ pc[r] = "ended"  => outcome[r] # "none"

LEMMA RowStep == TypeOK /\ RunningInv /\ RowInv /\ [Next]_vars => RowInv'
<1> SUFFICES ASSUME TypeOK, RunningInv, RowInv, [Next]_vars PROVE RowInv'
  OBVIOUS
<1> USE ThreadAssumption
    DEF TypeOK, RunningInv, WorkingRunIsRunning, RowInv, EndsAs, Unrecorded, Rejecting, InFlight,
        BeforeTry, InTry, Working, Cleanup
<1>1. ASSUME NEW r \in Runs, ReadPhase(r) PROVE RowInv'
  BY <1>1 DEF ReadPhase, Throw, Goto, Target
<1>2. ASSUME NEW r \in Runs, SetPhase(r) PROVE RowInv'
  BY <1>2 DEF SetPhase, Throw, Goto, After, Target
<1>3. ASSUME NEW r \in Runs, EnsureNotLocked(r) PROVE RowInv'
  BY <1>3 DEF EnsureNotLocked, Goto
<1>4. ASSUME NEW r \in Runs, CreateRow(r) PROVE RowInv'
  BY <1>4 DEF CreateRow, At, Goto
<1>5. ASSUME NEW r \in Runs, TakeSlot(r) PROVE RowInv'
  BY <1>5 DEF TakeSlot, Goto
<1>6. ASSUME NEW r \in Runs, SlotRefused(r) PROVE RowInv'
  BY <1>6 DEF SlotRefused, At, Goto
<1>7. ASSUME NEW r \in Runs, TakeLock(r) PROVE RowInv'
  BY <1>7 DEF TakeLock, Goto, Acquirable
<1>8. ASSUME NEW r \in Runs, LockRefused(r) PROVE RowInv'
  BY <1>8 DEF LockRefused, Throw, Goto
<1>9. ASSUME NEW r \in Runs, Chat(r) PROVE RowInv'
  BY <1>9 DEF Chat, Goto
<1>10. ASSUME NEW r \in Runs, ApprovalResolved(r) PROVE RowInv'
  BY <1>10 DEF ApprovalResolved, At, Goto
<1>11. ASSUME NEW r \in Runs, FinishTools(r) PROVE RowInv'
  BY <1>11 DEF FinishTools, At, Goto, Drain
<1>12. ASSUME NEW r \in Runs, Finish(r) PROVE RowInv'
  BY <1>12 DEF Finish, At, Goto
<1>13. ASSUME NEW r \in Runs, Park(r) PROVE RowInv'
  BY <1>13 DEF Park, At, Goto, ResetThread, Drain
<1>14. ASSUME NEW r \in Runs, MarkFailed(r) PROVE RowInv'
  BY <1>14 DEF MarkFailed, At, Goto
<1>15. ASSUME NEW r \in Runs, ResetAfterError(r) PROVE RowInv'
  BY <1>15 DEF ResetAfterError, At, Goto, ResetThread
<1>16. ASSUME NEW r \in Runs, Unlock(r) PROVE RowInv'
  BY <1>16 DEF Unlock, At, Goto
<1>17. ASSUME NEW r \in Runs, FreeSlot(r) PROVE RowInv'
  BY <1>17 DEF FreeSlot, Leave, Goto
<1>18. ASSUME NEW r \in Runs, Inject(r) PROVE RowInv'
  BY <1>18 DEF Inject, At, Goto
<1>19. ASSUME NEW r \in Runs, Upsert(r) PROVE RowInv'
  BY <1>19 DEF Upsert, Goto
<1>20. ASSUME NEW r \in Runs, AskApproval(r) PROVE RowInv'
  BY <1>20 DEF AskApproval, At, Goto
<1>21. ASSUME NEW r \in Runs, StepFails(r) PROVE RowInv'
  BY <1>21 DEF StepFails, Throw, Goto
<1>22. ASSUME NEW r \in Runs, LockReplyLost(r) PROVE RowInv'
  BY <1>22 DEF LockReplyLost, Throw, Goto, Acquirable
<1>23. ASSUME NEW r \in Runs, SlotReplyLost(r) PROVE RowInv'
  BY <1>23 DEF SlotReplyLost, Throw, Goto
<1>24. ASSUME NEW r \in Runs, CleanupFails(r) PROVE RowInv'
  BY <1>24 DEF CleanupFails, At, Leave, Goto
<1>25. ASSUME NEW r \in Runs, LockTimeout(r) PROVE RowInv'
  BY <1>25 DEF LockTimeout
<1>26. ASSUME NEW r \in Runs, SlotTimeout(r) PROVE RowInv'
  BY <1>26 DEF SlotTimeout
<1>27. ASSUME MarkStale PROVE RowInv'
  BY <1>27 DEF MarkStale, StaleCandidates, Busy, RunsOf
<1>28. ASSUME CancelStaleRuns PROVE RowInv'
  BY <1>28 DEF CancelStaleRuns
<1>29. ASSUME DetectorFails PROVE RowInv'
  BY <1>29 DEF DetectorFails
<1>30. ASSUME Crash PROVE RowInv'
  BY <1>30 DEF Crash
<1>31. CASE UNCHANGED vars
  BY <1>31 DEF vars
<1>32. QED
  BY <1>1, <1>2, <1>3, <1>4, <1>5, <1>6, <1>7, <1>8, <1>9, <1>10, <1>11,
     <1>12, <1>13, <1>14, <1>15, <1>16, <1>17, <1>18, <1>19, <1>20, <1>21, <1>22,
     <1>23, <1>24, <1>25, <1>26, <1>27, <1>28, <1>29, <1>30, <1>31
     DEF Next, Progress, Faults

\* What the caller is told when the call moves on, or ends.
LEMMA CallMoves ==
  ASSUME TypeOK, NEW r \in Runs, pc[r] \in InFlight \cup {"idle"},
         NEW l \in InFlight \cup {"ended"}, pc' = [pc EXCEPT ![r] = l],
         NEW how, outcome' = [outcome EXCEPT ![r] = how]
  PROVE  /\ Told[r] = "none"
         /\ l # "ended" => Told' = Told
         /\ l = "ended" => Told' = [Told EXCEPT ![r] = how]
<1>1. Told[r] = "none"
  <2>1. pc[r] # "ended" /\ pc[r] # "dead"
    BY DEF InFlight, BeforeTry, InTry, Working, Cleanup
  <2>2. QED
    BY <2>1 DEF Told
<1>2. \A s \in Runs : s # r => pc'[s] = pc[s] /\ outcome'[s] = outcome[s]
  BY DEF TypeOK
<1>3. pc'[r] = l /\ outcome'[r] = how
  BY DEF TypeOK
<1>4. ASSUME l # "ended" PROVE Told' = Told
  <2>1. l \notin {"ended", "dead"}
    BY <1>4 DEF InFlight, BeforeTry, InTry, Working, Cleanup
  <2>2. \A s \in Runs : Told'[s] = Told[s]
    BY <1>1, <1>2, <1>3, <2>1 DEF Told
  <2>3. QED
    BY <2>2 DEF Told
<1>5. ASSUME l = "ended" PROVE Told' = [Told EXCEPT ![r] = how]
  <2>1. \A s \in Runs : Told'[s] = IF s = r THEN how ELSE Told[s]
    BY <1>2, <1>3, <1>5 DEF Told
  <2>2. QED
    BY <2>1 DEF Told
<1>6. QED
  BY <1>1, <1>4, <1>5

\* Steps of a call that neither end it nor touch its row.
LEMMA SilentStep ==
  ASSUME TypeOK, NEW r \in Runs,
         \/ EnsureNotLocked(r) \/ TakeSlot(r) \/ TakeLock(r) \/ Chat(r) \/ ApprovalResolved(r)
         \/ FinishTools(r) \/ Park(r) \/ ResetAfterError(r) \/ Unlock(r) \/ Upsert(r)
         \/ AskApproval(r)
  PROVE  UNCHANGED <<runStatus, Told>>
<1>1. PICK l \in InFlight, how \in {"none", "ok", "locked", "busy", "error"} :
        pc[r] \in InFlight \cup {"idle"} /\ pc' = [pc EXCEPT ![r] = l]
        /\ outcome' = [outcome EXCEPT ![r] = how] /\ UNCHANGED runStatus
  <2> USE DEF TypeOK, Goto, At, InFlight, BeforeTry, InTry, Working, Cleanup
  <2>1. outcome = [outcome EXCEPT ![r] = outcome[r]]
    OBVIOUS
  <2>2. CASE EnsureNotLocked(r) \/ Park(r)
    BY <2>1, <2>2 DEF EnsureNotLocked, Park
  <2>3. CASE TakeSlot(r) \/ TakeLock(r) \/ Chat(r) \/ ApprovalResolved(r)
    BY <2>1, <2>3 DEF TakeSlot, TakeLock, Chat, ApprovalResolved
  <2>4. CASE FinishTools(r) \/ ResetAfterError(r) \/ Unlock(r) \/ Upsert(r) \/ AskApproval(r)
    BY <2>1, <2>4 DEF FinishTools, ResetAfterError, Unlock, Upsert, AskApproval
  <2>5. QED
    BY <2>2, <2>3, <2>4
<1>2. l # "ended"
  BY DEF InFlight, BeforeTry, InTry, Working, Cleanup
<1>3. QED
  BY <1>1, <1>2, CallMoves

\* An await that rejects ends a call before its try block, and leads it to the catch
\* block inside it.
LEMMA ThrowStep ==
  ASSUME TypeOK, RunningInv, RowInv, NEW r \in Runs, pc[r] \in BeforeTry \cup InTry,
         Throw(r, "error"), UNCHANGED runStatus,
         pc[r] \in {"takeSlot", "slotRefused"} => Rejecting
  PROVE  Call!Reject(r) \/ UNCHANGED <<runStatus, Told>>
<1>1. outcome' = [outcome EXCEPT ![r] = "error"] /\ pc[r] \in InFlight
  BY DEF Throw, InFlight
<1>2. CASE pc[r] \in BeforeTry
  <2>1. pc' = [pc EXCEPT ![r] = "ended"]
    BY <1>2 DEF Throw, Goto
  <2>2. Told' = [Told EXCEPT ![r] = "error"] /\ Told[r] = "none"
    BY <1>1, <2>1, CallMoves
  <2>3. \/ runStatus[r] = "none"
        \/ runStatus[r] = "RUNNING" /\ Rejecting
    BY <1>2 DEF RowInv, RunningInv, WorkingRunIsRunning, BeforeTry
  <2>4. QED
    BY <2>2, <2>3 DEF Call!Reject, Call!Tell, Call!InCall, Rejecting
<1>3. CASE pc[r] \notin BeforeTry
  <2>1. pc' = [pc EXCEPT ![r] = "failed"] /\ "failed" \in InFlight /\ "failed" # "ended"
    BY <1>3 DEF Throw, Goto, InFlight, Cleanup
  <2>2. QED
    BY <1>1, <2>1, CallMoves
<1>4. QED
  BY <1>2, <1>3

\* The end of a call that went through its finally block.
LEMMA LeaveStep ==
  ASSUME TypeOK, RowInv, NEW r \in Runs, pc[r] = "freeSlot", UNCHANGED <<runStatus, outcome>>,
         pc' = [pc EXCEPT ![r] = IF outcome[r] = "locked" THEN "react" ELSE "ended"]
  PROVE  Call!Answer(r) \/ Call!Reject(r) \/ UNCHANGED <<runStatus, Told>>
<1>1. outcome' = [outcome EXCEPT ![r] = outcome[r]] /\ pc[r] \in InFlight /\ "react" \in InFlight
  BY DEF TypeOK, InFlight, Cleanup
<1>2. CASE outcome[r] = "locked"
  <2>1. pc' = [pc EXCEPT ![r] = "react"] /\ "react" # "ended"
    BY <1>2
  <2>2. QED
    BY <1>1, <2>1, CallMoves
<1>3. CASE outcome[r] # "locked"
  <2>1. pc' = [pc EXCEPT ![r] = "ended"]
    BY <1>3
  <2>2. Told' = [Told EXCEPT ![r] = outcome[r]] /\ Told[r] = "none"
    BY <1>1, <2>1, CallMoves
  <2>3. \/ outcome[r] = "ok" /\ runStatus[r] = "COMPLETED"
        \/ outcome[r] = "error" /\ runStatus[r] \in {"FAILED"} \cup Unrecorded
    BY <1>3 DEF RowInv, EndsAs
  <2>4. QED
    BY <2>2, <2>3 DEF Call!Answer, Call!Reject, Call!Tell, Call!InCall, Unrecorded, Rejecting
<1>4. QED
  BY <1>2, <1>3

\* The steps that write a row.
LEMMA RecordStep ==
  ASSUME TypeOK, RunningInv, RowInv, NEW r \in Runs,
         \/ CreateRow(r) \/ SlotRefused(r) \/ LockRefused(r) \/ Finish(r) \/ MarkFailed(r)
  PROVE  \/ Call!Open(r) \/ Call!TurnAway(r) \/ Call!Decline(r) \/ Call!Complete(r)
         \/ Call!RecordFailure(r)
         \/ UNCHANGED <<runStatus, Told>>
<1> USE DEF TypeOK, InFlight, BeforeTry, InTry, Working, Cleanup, At, Goto
<1>0. outcome = [outcome EXCEPT ![r] = outcome[r]]
  OBVIOUS
<1>1. CASE CreateRow(r)
  <2>1. pc[r] = "createRow" /\ pc' = [pc EXCEPT ![r] = "takeSlot"]
        /\ outcome' = [outcome EXCEPT ![r] = outcome[r]]
    BY <1>0, <1>1 DEF CreateRow
  <2>2. Told' = Told /\ Told[r] = "none"
    <3>1. pc[r] \in InFlight \cup {"idle"} /\ "takeSlot" \in InFlight /\ "takeSlot" # "ended"
      BY <2>1
    <3>2. QED
      BY <2>1, <3>1, CallMoves
  <2>3. runStatus[r] = "none" /\ runStatus' = [runStatus EXCEPT ![r] = "RUNNING"]
    BY <1>1, <2>1 DEF CreateRow, RowInv
  <2>4. QED
    BY <2>2, <2>3 DEF Call!Open, Call!Record, Call!InCall
<1>2. CASE SlotRefused(r)
  <2>1. pc[r] = "slotRefused" /\ pc' = [pc EXCEPT ![r] = "ended"]
        /\ outcome' = [outcome EXCEPT ![r] = "busy"]
    BY <1>2 DEF SlotRefused
  <2>2. Told' = [Told EXCEPT ![r] = "busy"] /\ Told[r] = "none"
    BY <2>1, CallMoves
  <2>3. runStatus[r] = "RUNNING" /\ runStatus' = [runStatus EXCEPT ![r] = "CANCELLED"]
    BY <1>2, <2>1 DEF SlotRefused, RunningInv, WorkingRunIsRunning
  <2>4. QED
    BY <2>2, <2>3 DEF Call!TurnAway, Call!Record, Call!Tell, Call!InCall
<1>3. CASE LockRefused(r)
  <2>1. pc[r] = "lockRefused" /\ pc' = [pc EXCEPT ![r] = "failed"]
        /\ outcome' = [outcome EXCEPT ![r] = "locked"]
    BY <1>3 DEF LockRefused, Throw
  <2>2. Told' = Told /\ Told[r] = "none"
    <3>1. pc[r] \in InFlight \cup {"idle"} /\ "failed" \in InFlight /\ "failed" # "ended"
      BY <2>1
    <3>2. QED
      BY <2>1, <3>1, CallMoves
  <2>3. runStatus[r] = "RUNNING" /\ runStatus' = [runStatus EXCEPT ![r] = "CANCELLED"]
    BY <1>3, <2>1 DEF LockRefused, RunningInv, WorkingRunIsRunning
  <2>4. QED
    BY <2>2, <2>3 DEF Call!Decline, Call!Record, Call!InCall
<1>4. CASE Finish(r)
  <2>1. pc[r] = "finish" /\ pc' = [pc EXCEPT ![r] = "park"]
        /\ outcome' = [outcome EXCEPT ![r] = outcome[r]]
    BY <1>0, <1>4 DEF Finish
  <2>2. Told' = Told /\ Told[r] = "none"
    <3>1. pc[r] \in InFlight \cup {"idle"} /\ "park" \in InFlight /\ "park" # "ended"
      BY <2>1
    <3>2. QED
      BY <2>1, <3>1, CallMoves
  <2>3. runStatus[r] = "RUNNING" /\ runStatus' = [runStatus EXCEPT ![r] = "COMPLETED"]
    BY <1>4, <2>1 DEF Finish, RunningInv, WorkingRunIsRunning
  <2>4. QED
    BY <2>2, <2>3 DEF Call!Complete, Call!Record, Call!InCall
<1>5. CASE MarkFailed(r)
  <2>1. pc[r] = "failed" /\ pc' = [pc EXCEPT ![r] = "reset"]
        /\ outcome' = [outcome EXCEPT ![r] = outcome[r]]
    BY <1>0, <1>5 DEF MarkFailed
  <2>2. Told' = Told /\ Told[r] = "none"
    <3>1. pc[r] \in InFlight \cup {"idle"} /\ "reset" \in InFlight /\ "reset" # "ended"
      BY <2>1
    <3>2. QED
      BY <2>1, <3>1, CallMoves
  <2>3. CASE outcome[r] = "locked"
    BY <1>5, <2>2, <2>3 DEF MarkFailed
  <2>4. CASE outcome[r] # "locked"
    <3>1. runStatus' = [runStatus EXCEPT ![r] = "FAILED"]
      BY <1>5, <2>4 DEF MarkFailed
    <3>2. runStatus[r] \in {"RUNNING"} \cup Unrecorded
      BY <2>1, <2>4 DEF RowInv, EndsAs
    <3>3. QED
      BY <2>2, <3>1, <3>2
         DEF Call!RecordFailure, Call!Record, Call!InCall, Unrecorded, Rejecting
  <2>5. QED
    BY <2>3, <2>4
<1>6. QED
  BY <1>1, <1>2, <1>3, <1>4, <1>5

\* Every step of the runs, the detector and the environment is one of the abstract call's,
\* or leaves row and caller alone.
LEMMA CallStep ==
  TypeOK /\ RunningInv /\ RowInv /\ [Next]_vars => [Call!CallNext]_(Call!callVars)
<1> SUFFICES ASSUME TypeOK, RunningInv, RowInv, [Next]_vars
             PROVE  Call!CallNext \/ UNCHANGED <<runStatus, Told>>
  BY DEF Call!callVars
<1>1. ASSUME NEW r \in Runs,
             ReadPhase(r) \/ SetPhase(r) \/ StepFails(r) \/ LockReplyLost(r) \/ SlotReplyLost(r)
      PROVE  Call!CallNext \/ UNCHANGED <<runStatus, Told>>
  <2>1. CASE Throw(r, "error")
    <3>1. pc[r] \in BeforeTry \cup InTry /\ UNCHANGED runStatus
      BY <1>1 DEF ReadPhase, SetPhase, StepFails, LockReplyLost, SlotReplyLost, Target, BeforeTry,
                  InTry, Working
    <3>2. pc[r] \in {"takeSlot", "slotRefused"} => Rejecting
      BY <1>1 DEF ReadPhase, SetPhase, StepFails, LockReplyLost, SlotReplyLost, Target, Rejecting
    <3>3. QED
      BY <2>1, <3>1, <3>2, ThrowStep DEF Call!CallNext
  <2>2. CASE ~Throw(r, "error")
    <3>1. CASE ReadPhase(r)
      BY <2>2, <3>1 DEF ReadPhase, Told
    <3>2. CASE SetPhase(r)
      <4>1. /\ pc[r] \in InFlight /\ After[pc[r]] \in InFlight /\ After[pc[r]] # "ended"
            /\ pc' = [pc EXCEPT ![r] = After[pc[r]]] /\ UNCHANGED <<runStatus, outcome>>
        BY <2>2, <3>2 DEF SetPhase, Goto, Target, After, InFlight, BeforeTry, InTry, Working, Cleanup
      <4>2. outcome' = [outcome EXCEPT ![r] = outcome[r]]
        BY <4>1 DEF TypeOK
      <4>3. QED
        BY <4>1, <4>2, CallMoves
    <3>3. QED
      BY <1>1, <2>2, <3>1, <3>2 DEF StepFails, LockReplyLost, SlotReplyLost
  <2>3. QED
    BY <2>1, <2>2
<1>2. ASSUME NEW r \in Runs, FreeSlot(r) \/ CleanupFails(r)
      PROVE  Call!CallNext \/ UNCHANGED <<runStatus, Told>>
  <2>0. UNCHANGED <<runStatus, outcome>>
    BY <1>2 DEF FreeSlot, CleanupFails
  <2>1. CASE pc[r] = "freeSlot"
    <3>1. pc' = [pc EXCEPT ![r] = IF outcome[r] = "locked" THEN "react" ELSE "ended"]
      BY <1>2, <2>1 DEF FreeSlot, CleanupFails, Leave, At, Goto
    <3>2. QED
      BY <2>0, <2>1, <3>1, LeaveStep DEF Call!CallNext
  <2>2. CASE pc[r] # "freeSlot"
    <3>1. PICK l \in {"reset", "unlock", "freeSlot"} :
            pc[r] \in {"failed", "reset", "unlock"} /\ pc' = [pc EXCEPT ![r] = l]
      BY <1>2, <2>2 DEF FreeSlot, CleanupFails, At, Goto
    <3>2. pc[r] \in InFlight /\ l \in InFlight /\ l # "ended"
      BY <3>1 DEF InFlight, Cleanup
    <3>3. outcome' = [outcome EXCEPT ![r] = outcome[r]]
      BY <2>0 DEF TypeOK
    <3>4. QED
      BY <2>0, <3>1, <3>2, <3>3, CallMoves
  <2>3. QED
    BY <2>1, <2>2
<1>3. ASSUME NEW r \in Runs, Inject(r) PROVE Call!CallNext
  <2>1. /\ pc[r] = "react" /\ pc' = [pc EXCEPT ![r] = "ended"] /\ UNCHANGED <<runStatus, outcome>>
        /\ pc[r] \in InFlight
    BY <1>3 DEF Inject, At, Goto, InFlight
  <2>2. outcome' = [outcome EXCEPT ![r] = "locked"] /\ runStatus[r] \in {"none", "CANCELLED"}
    BY <2>1 DEF RowInv, TypeOK
  <2>3. Told' = [Told EXCEPT ![r] = "locked"] /\ Told[r] = "none"
    BY <2>1, <2>2, CallMoves
  <2>4. QED
    BY <2>1, <2>2, <2>3 DEF Call!Postpone, Call!Tell, Call!InCall, Call!CallNext
<1>4. ASSUME CancelStaleRuns PROVE Call!CallNext \/ UNCHANGED <<runStatus, Told>>
  <2> DEFINE left == {r \in Runs : runStatus[r] = "RUNNING" /\ status[ThreadOf[r]] = "STALE"}
  <2>1. UNCHANGED Told
    BY <1>4 DEF CancelStaleRuns, Told
  <2>2. runStatus' = [r \in Runs |-> IF r \in left THEN "CANCELLED" ELSE runStatus[r]]
    BY <1>4 DEF CancelStaleRuns
  <2>3. ASSUME NEW r \in left PROVE Told[r] # "none"
    <3>1. pc[r] \notin InFlight \cup {"idle"}
      BY ThreadAssumption DEF RunningInv, RowInv
    <3>2. pc[r] \in {"ended", "dead"}
      BY <3>1 DEF TypeOK, Labels
    <3>3. QED
      BY <3>2 DEF RowInv, Told
  <2>4. CASE left = {}
    BY <2>1, <2>2, <2>4 DEF TypeOK
  <2>5. CASE left # {}
    <3>1. Call!Sweep(left)
      BY <2>1, <2>2, <2>3, <2>5 DEF Call!Sweep, Call!InCall
    <3>2. left \in SUBSET Runs
      OBVIOUS
    <3>3. QED
      BY <3>1, <3>2 DEF Call!CallNext
  <2>6. QED
    BY <2>4, <2>5
<1>5. ASSUME Crash PROVE Call!CallNext
  <2> DEFINE gone == {r \in Runs : pc[r] \in InFlight}
  <2>1. UNCHANGED <<runStatus, outcome>> /\ gone # {}
        /\ pc' = [r \in Runs |-> IF r \in gone THEN "dead" ELSE pc[r]]
    BY <1>5 DEF Crash
  <2>2. \A r \in gone : Told[r] = "none"
    BY DEF Told, InFlight, BeforeTry, InTry, Working, Cleanup
  <2>3. Told' = [r \in Runs |-> IF r \in gone THEN "lost" ELSE Told[r]]
    BY <2>1 DEF Told
  <2>4. Call!Die(gone)
    BY <2>1, <2>2, <2>3 DEF Call!Die, Call!InCall
  <2>5. gone \in SUBSET Runs
    OBVIOUS
  <2>6. QED
    BY <2>4, <2>5 DEF Call!CallNext
<1>6. ASSUME NEW r \in Runs, LockTimeout(r) \/ SlotTimeout(r) PROVE UNCHANGED <<runStatus, Told>>
  BY <1>6 DEF LockTimeout, SlotTimeout, Told
<1>7. ASSUME MarkStale \/ DetectorFails \/ UNCHANGED vars PROVE UNCHANGED <<runStatus, Told>>
  BY <1>7 DEF MarkStale, DetectorFails, Told, vars
<1>8. QED
  BY <1>1, <1>2, <1>3, <1>4, <1>5, <1>6, <1>7, SilentStep, RecordStep
     DEF Next, Progress, Faults, Call!CallNext

\* run() implements the abstract call: one row and one end, and the two agree, whatever
\* rejects, overlaps, dies or is swept.
THEOREM CallsAreAnswered == Spec => CallSpec
<1>1. Init => RunningInv /\ RowInv /\ Call!CallInit
  BY DEF Init, RunningInv, WorkingRunIsRunning, RowInv, InFlight, BeforeTry, InTry, Working,
         Cleanup, Call!CallInit, Told
<1>2. TypeOK /\ RunningInv /\ RowInv /\ [Next]_vars => RunningInv' /\ RowInv'
  BY RunningStep, RowStep
<1>3. TypeOK /\ RunningInv /\ RowInv /\ [Next]_vars => [Call!CallNext]_(Call!callVars)
  BY CallStep
<1>4. QED
  BY <1>1, <1>2, <1>3, TypeCorrect, PTL DEF Spec, CallSpec, Call!RunCallSpec
-----------------------------------------------------------------------------
(* What a run leaves behind.                                               *)

\* A lock belongs to a run whose lockAcquired is TRUE, or that died with it; a slot to a
\* run past its acquire that has not released it, or that died with it.
HoldInv ==
  /\ \A r \in Runs : lockedBy[ThreadOf[r]] = r => r \in holds \/ pc[r] = "dead"
  /\ \A r \in slots : pc[r] \in InTry \cup Cleanup \cup {"dead"}

LEMMA HoldStep ==
  ASSUME Events \cap {"replyLost", "cleanupFails"} = {}
  PROVE  TypeOK /\ LockInv /\ HoldInv /\ [Next]_vars => HoldInv'
<1> SUFFICES ASSUME TypeOK, LockInv, HoldInv, [Next]_vars PROVE HoldInv'
  OBVIOUS
<1> USE RunsAssumption, ThreadAssumption
    DEF TypeOK, LockInv, HoldInv, InTry, Working, Cleanup, BeforeTry
<1>1. ASSUME NEW r \in Runs, ReadPhase(r) PROVE HoldInv'
  BY <1>1 DEF ReadPhase, Throw, Goto, Target
<1>2. ASSUME NEW r \in Runs, SetPhase(r) PROVE HoldInv'
  BY <1>2 DEF SetPhase, Throw, Goto, After, Target
<1>3. ASSUME NEW r \in Runs, EnsureNotLocked(r) PROVE HoldInv'
  BY <1>3 DEF EnsureNotLocked, Goto
<1>4. ASSUME NEW r \in Runs, CreateRow(r) PROVE HoldInv'
  BY <1>4 DEF CreateRow, At, Goto
<1>5. ASSUME NEW r \in Runs, TakeSlot(r) PROVE HoldInv'
  BY <1>5 DEF TakeSlot, Goto
<1>6. ASSUME NEW r \in Runs, SlotRefused(r) PROVE HoldInv'
  BY <1>6 DEF SlotRefused, At, Goto
<1>7. ASSUME NEW r \in Runs, TakeLock(r) PROVE HoldInv'
  BY <1>7 DEF TakeLock, Goto, Acquirable
<1>8. ASSUME NEW r \in Runs, LockRefused(r) PROVE HoldInv'
  BY <1>8 DEF LockRefused, Throw, Goto
<1>9. ASSUME NEW r \in Runs, Chat(r) PROVE HoldInv'
  BY <1>9 DEF Chat, Goto
<1>10. ASSUME NEW r \in Runs, ApprovalResolved(r) PROVE HoldInv'
  BY <1>10 DEF ApprovalResolved, At, Goto
<1>11. ASSUME NEW r \in Runs, FinishTools(r) PROVE HoldInv'
  BY <1>11 DEF FinishTools, At, Goto, Drain
<1>12. ASSUME NEW r \in Runs, Finish(r) PROVE HoldInv'
  BY <1>12 DEF Finish, At, Goto
<1>13. ASSUME NEW r \in Runs, Park(r) PROVE HoldInv'
  BY <1>13 DEF Park, At, Goto, ResetThread, Drain
<1>14. ASSUME NEW r \in Runs, MarkFailed(r) PROVE HoldInv'
  BY <1>14 DEF MarkFailed, At, Goto
<1>15. ASSUME NEW r \in Runs, ResetAfterError(r) PROVE HoldInv'
  BY <1>15 DEF ResetAfterError, At, Goto, ResetThread
<1>16. ASSUME NEW r \in Runs, Unlock(r) PROVE HoldInv'
  BY <1>16 DEF Unlock, At, Goto
<1>17. ASSUME NEW r \in Runs, FreeSlot(r) PROVE HoldInv'
  BY <1>17 DEF FreeSlot, Leave, Goto
<1>18. ASSUME NEW r \in Runs, Inject(r) PROVE HoldInv'
  BY <1>18 DEF Inject, At, Goto
<1>19. ASSUME NEW r \in Runs, Upsert(r) PROVE HoldInv'
  BY <1>19 DEF Upsert, Goto
<1>20. ASSUME NEW r \in Runs, AskApproval(r) PROVE HoldInv'
  BY <1>20 DEF AskApproval, At, Goto
<1>21. ASSUME NEW r \in Runs, StepFails(r) PROVE HoldInv'
  BY <1>21 DEF StepFails, Throw, Goto
<1>22. ASSUME NEW r \in Runs, LockReplyLost(r) PROVE HoldInv'
  BY <1>22 DEF LockReplyLost, Throw, Goto, Acquirable
<1>23. ASSUME NEW r \in Runs, SlotReplyLost(r) PROVE HoldInv'
  BY <1>23 DEF SlotReplyLost, Throw, Goto
<1>24. ASSUME NEW r \in Runs, CleanupFails(r) PROVE HoldInv'
  BY <1>24 DEF CleanupFails, At, Leave, Goto
<1>25. ASSUME NEW r \in Runs, LockTimeout(r) PROVE HoldInv'
  BY <1>25 DEF LockTimeout
<1>26. ASSUME NEW r \in Runs, SlotTimeout(r) PROVE HoldInv'
  BY <1>26 DEF SlotTimeout
<1>27. ASSUME MarkStale PROVE HoldInv'
  BY <1>27 DEF MarkStale, StaleCandidates, Busy, RunsOf
<1>28. ASSUME CancelStaleRuns PROVE HoldInv'
  BY <1>28 DEF CancelStaleRuns
<1>29. ASSUME DetectorFails PROVE HoldInv'
  BY <1>29 DEF DetectorFails
<1>30. ASSUME Crash PROVE HoldInv'
  BY <1>30 DEF Crash, InFlight
<1>31. CASE UNCHANGED vars
  BY <1>31 DEF vars
<1>32. QED
  BY <1>1, <1>2, <1>3, <1>4, <1>5, <1>6, <1>7, <1>8, <1>9, <1>10, <1>11,
     <1>12, <1>13, <1>14, <1>15, <1>16, <1>17, <1>18, <1>19, <1>20, <1>21,
     <1>22, <1>23, <1>24, <1>25, <1>26, <1>27, <1>28, <1>29, <1>30, <1>31
     DEF Next, Progress, Faults

\* A call of run() that is over left nothing behind, no lock and no slot, whatever step of
\* it was rejected, as long as what its clean-up asks for takes place and is answered.
\* (the finally block, runner.ts 316-323 and 392-407)
THEOREM EndedRunsHold ==
  ASSUME Events \cap {"replyLost", "cleanupFails"} = {}
  PROVE  Spec => []EndedRunsHoldNothing
<1>1. Init => HoldInv
  BY RunsAssumption, ThreadAssumption DEF Init, HoldInv
<1>2. TypeOK /\ LockInv /\ HoldInv /\ [Next]_vars => HoldInv'
  BY HoldStep
<1>3. LockInv /\ HoldInv => EndedRunsHoldNothing
  BY DEF LockInv, HoldInv, EndedRunsHoldNothing, InTry, Working, Cleanup
<1>4. QED
  BY <1>1, <1>2, <1>3, LockAlways, PTL DEF Spec
-----------------------------------------------------------------------------
(* Runs that nothing disturbs.                                             *)

\* The phase of the thread at each await of its only run.
PhaseAt ==
  [trigger  |-> "IDLE",             checkLock   |-> "TRIGGER",
   createRow |-> "TRIGGER",         takeSlot    |-> "TRIGGER",
   slotRefused |-> "TRIGGER",       prompt      |-> "TRIGGER",
   takeLock |-> "PROMPT_INJECTION", reason      |-> "THREAD_LOCK",
   chat     |-> "REASONING",        useTools    |-> "REASONING",
   complete |-> "REASONING",        tools       |-> "TOOL_LOOP",
   gate     |-> "TOOL_LOOP",        resume      |-> "TOOL_LOOP",
   approval |-> "DRAFT_GATE",       ungate      |-> "DRAFT_GATE",
   finish   |-> "COMPLETION",       park        |-> "COMPLETION",
   unlock   |-> "IDLE",             freeSlot    |-> "IDLE"]

\* Runs of one thread follow each other; each finds the thread at rest, takes the lock
\* that it has found free, and no await of it rejects.
AloneInv ==
  /\ \A r, s \in Runs :
       ThreadOf[r] = ThreadOf[s] /\ pc[r] \in InFlight /\ pc[s] \in InFlight => r = s
  /\ \A r \in Runs : pc[r] \notin {"failed", "reset", "lockRefused", "dead"}
  /\ OnlyFaultsFailRuns
PhaseInv ==
  /\ \A r \in Runs : pc[r] \in DOMAIN PhaseAt => phase[ThreadOf[r]] = PhaseAt[pc[r]]
  /\ \A r \in Runs : pc[r] = "react" => phase[ThreadOf[r]] \in {"IDLE", "TRIGGER"}
  /\ \A t \in Threads : ~Busy(t) => phase[t] \in {"IDLE", "TRIGGER"}
  /\ \A r \in Runs : seen[r] # NotRead => seen[r] = phase[ThreadOf[r]] /\ pc[r] \in DOMAIN Target
FreeInv ==
  /\ \A t \in Threads : lockedBy[t] # NoRun => ThreadOf[lockedBy[t]] = t
  /\ \A r \in Runs :
       pc[r] \in {"createRow", "takeSlot", "prompt", "takeLock"} => Acquirable(ThreadOf[r])
SerialInv == AloneInv /\ PhaseInv /\ FreeInv

\* Every phase that run() and execute() ask for is allowed where they ask for it, and is
\* the one they go on in.
LEMMA PhasesMatch ==
  ASSUME NEW l \in DOMAIN Target
  PROVE  /\ l \in DOMAIN PhaseAt /\ IsValidTransition(PhaseAt[l], Target[l])
         /\ After[l] \in DOMAIN PhaseAt /\ PhaseAt[After[l]] = Target[l]
<1>1. l \in {"trigger", "prompt", "reason", "useTools", "gate", "ungate", "resume", "complete"}
  BY DEF Target
<1>2. l \in DOMAIN PhaseAt /\ After[l] \in DOMAIN PhaseAt /\ PhaseAt[After[l]] = Target[l]
  BY <1>1 DEF PhaseAt, After, Target
<1>3. IsValidTransition(PhaseAt[l], Target[l])
  BY <1>1 DEF PhaseAt, Target, IsValidTransition, VALID_TRANSITIONS, ThreadPhases
<1>4. QED
  BY <1>2, <1>3

LEMMA AloneStep ==
  ASSUME Events \cap {"overlap", "crash", "stepFails", "replyLost"} = {}
  PROVE  TypeOK /\ SerialInv /\ [Next]_vars => AloneInv'
<1> SUFFICES ASSUME TypeOK, SerialInv, [Next]_vars PROVE AloneInv'
  OBVIOUS
<1> USE RunsAssumption, ThreadAssumption
    DEF TypeOK, SerialInv, AloneInv, PhaseInv, PhaseAt, FreeInv, OnlyFaultsFailRuns,
        InFlight, BeforeTry, InTry, Working, Cleanup, Busy, RunsOf
<1>1. ASSUME NEW r \in Runs, ReadPhase(r) PROVE AloneInv'
  <2>1. /\ pc[r] \in DOMAIN Target /\ pc[r] \in DOMAIN PhaseAt
        /\ IsValidTransition(phase[ThreadOf[r]], Target[pc[r]])
    BY <1>1, PhasesMatch DEF ReadPhase
  <2>2. UNCHANGED <<pc, outcome>>
    BY <1>1, <2>1 DEF ReadPhase
  <2>3. QED
    BY <2>2
<1>2. ASSUME NEW r \in Runs, SetPhase(r) PROVE AloneInv'
  <2>1. pc[r] \in DOMAIN Target /\ phase[ThreadOf[r]] = seen[r]
    BY <1>2 DEF SetPhase
  <2>2. pc' = [pc EXCEPT ![r] = After[pc[r]]] /\ UNCHANGED outcome
    BY <1>2, <2>1 DEF SetPhase, Goto
  <2>3. pc[r] \in InFlight /\ After[pc[r]] \in InFlight \ {"failed", "reset", "lockRefused"}
    BY <2>1 DEF Target, After
  <2>4. QED
    BY <2>2, <2>3
<1>3. ASSUME NEW r \in Runs, EnsureNotLocked(r) PROVE AloneInv'
  BY <1>3 DEF EnsureNotLocked, Goto
<1>4. ASSUME NEW r \in Runs, CreateRow(r) PROVE AloneInv'
  BY <1>4 DEF CreateRow, At, Goto
<1>5. ASSUME NEW r \in Runs, TakeSlot(r) PROVE AloneInv'
  BY <1>5 DEF TakeSlot, Goto
<1>6. ASSUME NEW r \in Runs, SlotRefused(r) PROVE AloneInv'
  BY <1>6 DEF SlotRefused, At, Goto
<1>7. ASSUME NEW r \in Runs, TakeLock(r) PROVE AloneInv'
  BY <1>7 DEF TakeLock, Goto, Acquirable
<1>8. ASSUME NEW r \in Runs, LockRefused(r) PROVE AloneInv'
  BY <1>8 DEF LockRefused, Throw, Goto
<1>9. ASSUME NEW r \in Runs, Chat(r) PROVE AloneInv'
  BY <1>9 DEF Chat, Goto
<1>10. ASSUME NEW r \in Runs, ApprovalResolved(r) PROVE AloneInv'
  BY <1>10 DEF ApprovalResolved, At, Goto
<1>11. ASSUME NEW r \in Runs, FinishTools(r) PROVE AloneInv'
  BY <1>11 DEF FinishTools, At, Goto, Drain
<1>12. ASSUME NEW r \in Runs, Finish(r) PROVE AloneInv'
  BY <1>12 DEF Finish, At, Goto
<1>13. ASSUME NEW r \in Runs, Park(r) PROVE AloneInv'
  BY <1>13 DEF Park, At, Goto, ResetThread, Drain
<1>14. ASSUME NEW r \in Runs, MarkFailed(r) PROVE AloneInv'
  BY <1>14 DEF MarkFailed, At, Goto
<1>15. ASSUME NEW r \in Runs, ResetAfterError(r) PROVE AloneInv'
  BY <1>15 DEF ResetAfterError, At, Goto, ResetThread
<1>16. ASSUME NEW r \in Runs, Unlock(r) PROVE AloneInv'
  BY <1>16 DEF Unlock, At, Goto
<1>17. ASSUME NEW r \in Runs, FreeSlot(r) PROVE AloneInv'
  BY <1>17 DEF FreeSlot, Leave, Goto
<1>18. ASSUME NEW r \in Runs, Inject(r) PROVE AloneInv'
  BY <1>18 DEF Inject, At, Goto
<1>19. ASSUME NEW r \in Runs, Upsert(r) PROVE AloneInv'
  BY <1>19 DEF Upsert, Goto
<1>20. ASSUME NEW r \in Runs, AskApproval(r) PROVE AloneInv'
  BY <1>20 DEF AskApproval, At, Goto
<1>21. ASSUME NEW r \in Runs, StepFails(r) PROVE AloneInv'
  BY <1>21 DEF StepFails, Throw, Goto
<1>22. ASSUME NEW r \in Runs, LockReplyLost(r) PROVE AloneInv'
  BY <1>22 DEF LockReplyLost, Throw, Goto, Acquirable
<1>23. ASSUME NEW r \in Runs, SlotReplyLost(r) PROVE AloneInv'
  BY <1>23 DEF SlotReplyLost, Throw, Goto
<1>24. ASSUME NEW r \in Runs, CleanupFails(r) PROVE AloneInv'
  BY <1>24 DEF CleanupFails, At, Leave, Goto
<1>25. ASSUME NEW r \in Runs, LockTimeout(r) PROVE AloneInv'
  BY <1>25 DEF LockTimeout
<1>26. ASSUME NEW r \in Runs, SlotTimeout(r) PROVE AloneInv'
  BY <1>26 DEF SlotTimeout
<1>27. ASSUME MarkStale PROVE AloneInv'
  BY <1>27 DEF MarkStale, StaleCandidates, Busy, RunsOf
<1>28. ASSUME CancelStaleRuns PROVE AloneInv'
  BY <1>28 DEF CancelStaleRuns
<1>29. ASSUME DetectorFails PROVE AloneInv'
  BY <1>29 DEF DetectorFails
<1>30. ASSUME Crash PROVE AloneInv'
  BY <1>30 DEF Crash
<1>31. CASE UNCHANGED vars
  BY <1>31 DEF vars
<1>32. QED
  BY <1>1, <1>2, <1>3, <1>4, <1>5, <1>6, <1>7, <1>8, <1>9, <1>10, <1>11,
     <1>12, <1>13, <1>14, <1>15, <1>16, <1>17, <1>18, <1>19, <1>20, <1>21,
     <1>22, <1>23, <1>24, <1>25, <1>26, <1>27, <1>28, <1>29, <1>30, <1>31
     DEF Next, Progress, Faults

\* A step of one run whose thread is then in the phase of the await it goes to.
LEMMA MoveKeepsPhases ==
  ASSUME TypeOK, SerialInv, NEW r \in Runs, pc[r] \in InFlight, NEW l,
         pc' = [pc EXCEPT ![r] = l],
         \A t \in Threads : t # ThreadOf[r] => phase'[t] = phase[t],
         \A s \in Runs : s # r => seen'[s] = seen[s],
         seen'[r] = NotRead \/ (seen'[r] = phase'[ThreadOf[r]] /\ l \in DOMAIN Target),
         \/ l \in DOMAIN PhaseAt /\ phase'[ThreadOf[r]] = PhaseAt[l]
         \/ l \in {"react", "ended"} /\ phase'[ThreadOf[r]] \in {"IDLE", "TRIGGER"}
  PROVE  PhaseInv'
<1> USE ThreadAssumption DEF TypeOK
<1>1. pc'[r] = l /\ \A s \in Runs : s # r => pc'[s] = pc[s]
  OBVIOUS
<1>2. \A s \in Runs : s # r /\ ThreadOf[s] = ThreadOf[r] => pc[s] \notin InFlight
  BY DEF SerialInv, AloneInv
<1>3. "react" \in InFlight /\ "react" \notin DOMAIN PhaseAt /\ "ended" \notin InFlight \cup DOMAIN PhaseAt
      /\ DOMAIN PhaseAt \subseteq InFlight /\ DOMAIN Target \subseteq InFlight
  BY DEF PhaseAt, Target, InFlight, BeforeTry, InTry, Working, Cleanup
<1>4. ASSUME NEW s \in Runs, s # r
      PROVE  /\ pc'[s] = pc[s] /\ seen'[s] = seen[s]
             /\ pc[s] \in InFlight => phase'[ThreadOf[s]] = phase[ThreadOf[s]]
             /\ pc[s] \in DOMAIN PhaseAt => phase[ThreadOf[s]] = PhaseAt[pc[s]]
             /\ pc[s] = "react" => phase[ThreadOf[s]] \in {"IDLE", "TRIGGER"}
             /\ seen[s] # NotRead => seen[s] = phase[ThreadOf[s]] /\ pc[s] \in DOMAIN Target
  BY <1>1, <1>2, <1>4 DEF SerialInv, PhaseInv
<1>5. ASSUME NEW s \in Runs
      PROVE  /\ pc'[s] \in DOMAIN PhaseAt => phase'[ThreadOf[s]] = PhaseAt[pc'[s]]
             /\ pc'[s] = "react" => phase'[ThreadOf[s]] \in {"IDLE", "TRIGGER"}
             /\ seen'[s] # NotRead => seen'[s] = phase'[ThreadOf[s]] /\ pc'[s] \in DOMAIN Target
  <2>1. CASE s = r
    BY <1>1, <1>3, <2>1
  <2>2. CASE s # r
    BY <1>3, <1>4, <2>2
  <2>3. QED
    BY <2>1, <2>2
<1>6. ASSUME NEW t \in Threads, ~Busy(t)' PROVE phase'[t] \in {"IDLE", "TRIGGER"}
  <2>1. CASE t = ThreadOf[r]
    BY <1>1, <1>3, <1>6, <2>1 DEF Busy, RunsOf
  <2>2. CASE t # ThreadOf[r]
    <3>1. ASSUME NEW s \in Runs, ThreadOf[s] = t PROVE pc[s] \notin InFlight
      <4>1. s # r
        BY <2>2, <3>1
      <4>2. pc'[s] = pc[s] /\ pc'[s] \notin InFlight
        BY <1>1, <1>6, <3>1, <4>1 DEF Busy, RunsOf
      <4>3. QED
        BY <4>2
    <3>2. ~Busy(t)
      BY <3>1 DEF Busy, RunsOf
    <3>3. QED
      BY <2>2, <3>2 DEF SerialInv, PhaseInv
  <2>3. QED
    BY <2>1, <2>2
<1>7. QED
  BY <1>5, <1>6 DEF PhaseInv

LEMMA PhaseStep ==
  ASSUME Events \cap {"overlap", "crash", "stepFails", "replyLost"} = {}
  PROVE  TypeOK /\ SerialInv /\ [Next]_vars => PhaseInv'
<1> SUFFICES ASSUME TypeOK, SerialInv, [Next]_vars PROVE PhaseInv'
  OBVIOUS
<1> USE RunsAssumption, ThreadAssumption
    DEF TypeOK, SerialInv, AloneInv, PhaseInv, PhaseAt, Target,
        InFlight, BeforeTry, InTry, Working, Cleanup, Busy, RunsOf
<1>1. ASSUME NEW r \in Runs, ReadPhase(r) PROVE PhaseInv'
  <2>1. /\ pc[r] \in DOMAIN Target /\ pc[r] \in DOMAIN PhaseAt
        /\ IsValidTransition(phase[ThreadOf[r]], Target[pc[r]])
    BY <1>1, PhasesMatch DEF ReadPhase
  <2>2. UNCHANGED <<pc, phase>> /\ seen' = [seen EXCEPT ![r] = phase[ThreadOf[r]]]
    BY <1>1, <2>1 DEF ReadPhase
  <2>3. pc' = [pc EXCEPT ![r] = pc[r]] /\ phase'[ThreadOf[r]] = PhaseAt[pc[r]]
    BY <2>1, <2>2
  <2>4. QED
    BY <2>1, <2>2, <2>3, MoveKeepsPhases
<1>2. ASSUME NEW r \in Runs, SetPhase(r) PROVE PhaseInv'
  <2>1. /\ pc[r] \in DOMAIN Target /\ phase[ThreadOf[r]] = seen[r]
        /\ phase' = [phase EXCEPT ![ThreadOf[r]] = Target[pc[r]]]
        /\ pc' = [pc EXCEPT ![r] = After[pc[r]]] /\ seen' = [seen EXCEPT ![r] = NotRead]
    BY <1>2 DEF SetPhase, Goto
  <2>2. After[pc[r]] \in DOMAIN PhaseAt /\ PhaseAt[After[pc[r]]] = Target[pc[r]]
    BY <2>1, PhasesMatch
  <2> DEFINE l == After[pc[r]]
  <2>3. pc' = [pc EXCEPT ![r] = l] /\ l \in DOMAIN PhaseAt /\ phase'[ThreadOf[r]] = PhaseAt[l]
    BY <2>1, <2>2
  <2> HIDE DEF l
  <2>4. seen'[r] = NotRead /\ pc[r] \in InFlight
    BY <2>1
  <2>5. QED
    BY <2>1, <2>3, <2>4, MoveKeepsPhases
<1>3. ASSUME NEW r \in Runs, EnsureNotLocked(r) PROVE PhaseInv'
  <2>1. pc[r] = "checkLock" /\ UNCHANGED <<phase, seen>>
        /\ (pc' = [pc EXCEPT ![r] = "react"] \/ pc' = [pc EXCEPT ![r] = "createRow"])
    BY <1>3 DEF EnsureNotLocked, Goto
  <2>2. seen[r] = NotRead /\ phase[ThreadOf[r]] = "TRIGGER"
    BY <2>1
  <2>3. QED
    BY <2>1, <2>2, MoveKeepsPhases
<1>4. ASSUME NEW r \in Runs, CreateRow(r) PROVE PhaseInv'
  BY <1>4 DEF CreateRow, At, Goto
<1>5. ASSUME NEW r \in Runs, TakeSlot(r) PROVE PhaseInv'
  BY <1>5 DEF TakeSlot, Goto
<1>6. ASSUME NEW r \in Runs, SlotRefused(r) PROVE PhaseInv'
  BY <1>6 DEF SlotRefused, At, Goto
<1>7. ASSUME NEW r \in Runs, TakeLock(r) PROVE PhaseInv'
  <2>1. pc[r] = "takeLock" /\ UNCHANGED seen /\ seen[r] = NotRead
    BY <1>7 DEF TakeLock
  <2>2. Acquirable(ThreadOf[r])
    BY <2>1 DEF FreeInv
  <2>3. pc' = [pc EXCEPT ![r] = "reason"] /\ phase' = [phase EXCEPT ![ThreadOf[r]] = "THREAD_LOCK"]
    BY <1>7, <2>2 DEF TakeLock, Goto
  <2>4. QED
    BY <2>1, <2>3, MoveKeepsPhases
<1>8. ASSUME NEW r \in Runs, LockRefused(r) PROVE PhaseInv'
  BY <1>8 DEF LockRefused, Throw, Goto
<1>9. ASSUME NEW r \in Runs, Chat(r) PROVE PhaseInv'
  <2>1. pc[r] = "chat" /\ UNCHANGED <<phase, seen>>
        /\ (pc' = [pc EXCEPT ![r] = "useTools"] \/ pc' = [pc EXCEPT ![r] = "complete"])
    BY <1>9 DEF Chat, Goto
  <2>2. seen[r] = NotRead /\ phase[ThreadOf[r]] = "REASONING"
    BY <2>1
  <2>3. QED
    BY <2>1, <2>2, MoveKeepsPhases
<1>10. ASSUME NEW r \in Runs, ApprovalResolved(r) PROVE PhaseInv'
  BY <1>10 DEF ApprovalResolved, At, Goto
<1>11. ASSUME NEW r \in Runs, FinishTools(r) PROVE PhaseInv'
  BY <1>11 DEF FinishTools, At, Goto, Drain
<1>12. ASSUME NEW r \in Runs, Finish(r) PROVE PhaseInv'
  BY <1>12 DEF Finish, At, Goto
<1>13. ASSUME NEW r \in Runs, Park(r) PROVE PhaseInv'
  BY <1>13 DEF Park, At, Goto, ResetThread, Drain
<1>14. ASSUME NEW r \in Runs, MarkFailed(r) PROVE PhaseInv'
  BY <1>14 DEF MarkFailed, At, Goto
<1>15. ASSUME NEW r \in Runs, ResetAfterError(r) PROVE PhaseInv'
  BY <1>15 DEF ResetAfterError, At, Goto, ResetThread
<1>16. ASSUME NEW r \in Runs, Unlock(r) PROVE PhaseInv'
  BY <1>16 DEF Unlock, At, Goto
<1>17. ASSUME NEW r \in Runs, FreeSlot(r) PROVE PhaseInv'
  BY <1>17 DEF FreeSlot, Leave, Goto
<1>18. ASSUME NEW r \in Runs, Inject(r) PROVE PhaseInv'
  BY <1>18 DEF Inject, At, Goto
<1>19. ASSUME NEW r \in Runs, Upsert(r) PROVE PhaseInv'
  BY <1>19 DEF Upsert, Goto
<1>20. ASSUME NEW r \in Runs, AskApproval(r) PROVE PhaseInv'
  BY <1>20 DEF AskApproval, At, Goto
<1>21. ASSUME NEW r \in Runs, StepFails(r) PROVE PhaseInv'
  BY <1>21 DEF StepFails, Throw, Goto
<1>22. ASSUME NEW r \in Runs, LockReplyLost(r) PROVE PhaseInv'
  BY <1>22 DEF LockReplyLost, Throw, Goto, Acquirable
<1>23. ASSUME NEW r \in Runs, SlotReplyLost(r) PROVE PhaseInv'
  BY <1>23 DEF SlotReplyLost, Throw, Goto
<1>24. ASSUME NEW r \in Runs, CleanupFails(r) PROVE PhaseInv'
  <2>1. pc[r] \in {"unlock", "freeSlot"} /\ UNCHANGED <<phase, seen>>
    BY <1>24 DEF CleanupFails, At
  <2>2. PICK l \in {"freeSlot", "react", "ended"} : pc' = [pc EXCEPT ![r] = l]
    BY <1>24, <2>1 DEF CleanupFails, At, Leave, Goto
  <2>3. phase[ThreadOf[r]] = "IDLE" /\ seen[r] = NotRead
    BY <2>1
  <2>4. QED
    BY <2>1, <2>2, <2>3, MoveKeepsPhases
<1>25. ASSUME NEW r \in Runs, LockTimeout(r) PROVE PhaseInv'
  BY <1>25 DEF LockTimeout
<1>26. ASSUME NEW r \in Runs, SlotTimeout(r) PROVE PhaseInv'
  BY <1>26 DEF SlotTimeout
<1>27. ASSUME MarkStale PROVE PhaseInv'
  BY <1>27 DEF MarkStale, StaleCandidates, Busy, RunsOf
<1>28. ASSUME CancelStaleRuns PROVE PhaseInv'
  BY <1>28 DEF CancelStaleRuns
<1>29. ASSUME DetectorFails PROVE PhaseInv'
  BY <1>29 DEF DetectorFails
<1>30. ASSUME Crash PROVE PhaseInv'
  BY <1>30 DEF Crash
<1>31. CASE UNCHANGED vars
  BY <1>31 DEF vars
<1>32. QED
  BY <1>1, <1>2, <1>3, <1>4, <1>5, <1>6, <1>7, <1>8, <1>9, <1>10, <1>11,
     <1>12, <1>13, <1>14, <1>15, <1>16, <1>17, <1>18, <1>19, <1>20, <1>21,
     <1>22, <1>23, <1>24, <1>25, <1>26, <1>27, <1>28, <1>29, <1>30, <1>31
     DEF Next, Progress, Faults

LEMMA FreeStep ==
  ASSUME Events \cap {"overlap", "crash", "stepFails", "replyLost"} = {}
  PROVE  TypeOK /\ SerialInv /\ [Next]_vars => FreeInv'
<1> SUFFICES ASSUME TypeOK, SerialInv, [Next]_vars PROVE FreeInv'
  OBVIOUS
<1> USE RunsAssumption, ThreadAssumption
    DEF TypeOK, SerialInv, AloneInv, FreeInv, Acquirable,
        InFlight, BeforeTry, InTry, Working, Cleanup, Busy, RunsOf
<1>1. ASSUME NEW r \in Runs, ReadPhase(r) PROVE FreeInv'
  BY <1>1 DEF ReadPhase, Throw, Goto, Target
<1>2. ASSUME NEW r \in Runs, SetPhase(r) PROVE FreeInv'
  BY <1>2 DEF SetPhase, Throw, Goto, After, Target
<1>3. ASSUME NEW r \in Runs, EnsureNotLocked(r) PROVE FreeInv'
  BY <1>3 DEF EnsureNotLocked, IsLocked, Goto
<1>4. ASSUME NEW r \in Runs, CreateRow(r) PROVE FreeInv'
  BY <1>4 DEF CreateRow, At, Goto
<1>5. ASSUME NEW r \in Runs, TakeSlot(r) PROVE FreeInv'
  BY <1>5 DEF TakeSlot, Goto
<1>6. ASSUME NEW r \in Runs, SlotRefused(r) PROVE FreeInv'
  BY <1>6 DEF SlotRefused, At, Goto
<1>7. ASSUME NEW r \in Runs, TakeLock(r) PROVE FreeInv'
  BY <1>7 DEF TakeLock, Goto, Acquirable
<1>8. ASSUME NEW r \in Runs, LockRefused(r) PROVE FreeInv'
  BY <1>8 DEF LockRefused, Throw, Goto
<1>9. ASSUME NEW r \in Runs, Chat(r) PROVE FreeInv'
  BY <1>9 DEF Chat, Goto
<1>10. ASSUME NEW r \in Runs, ApprovalResolved(r) PROVE FreeInv'
  BY <1>10 DEF ApprovalResolved, At, Goto
<1>11. ASSUME NEW r \in Runs, FinishTools(r) PROVE FreeInv'
  BY <1>11 DEF FinishTools, At, Goto, Drain
<1>12. ASSUME NEW r \in Runs, Finish(r) PROVE FreeInv'
  BY <1>12 DEF Finish, At, Goto
<1>13. ASSUME NEW r \in Runs, Park(r) PROVE FreeInv'
  BY <1>13 DEF Park, At, Goto, ResetThread, Drain
<1>14. ASSUME NEW r \in Runs, MarkFailed(r) PROVE FreeInv'
  BY <1>14 DEF MarkFailed, At, Goto
<1>15. ASSUME NEW r \in Runs, ResetAfterError(r) PROVE FreeInv'
  BY <1>15 DEF ResetAfterError, At, Goto, ResetThread
<1>16. ASSUME NEW r \in Runs, Unlock(r) PROVE FreeInv'
  BY <1>16 DEF Unlock, At, Goto
<1>17. ASSUME NEW r \in Runs, FreeSlot(r) PROVE FreeInv'
  BY <1>17 DEF FreeSlot, Leave, Goto
<1>18. ASSUME NEW r \in Runs, Inject(r) PROVE FreeInv'
  BY <1>18 DEF Inject, At, Goto
<1>19. ASSUME NEW r \in Runs, Upsert(r) PROVE FreeInv'
  BY <1>19 DEF Upsert, Goto
<1>20. ASSUME NEW r \in Runs, AskApproval(r) PROVE FreeInv'
  BY <1>20 DEF AskApproval, At, Goto
<1>21. ASSUME NEW r \in Runs, StepFails(r) PROVE FreeInv'
  BY <1>21 DEF StepFails, Throw, Goto
<1>22. ASSUME NEW r \in Runs, LockReplyLost(r) PROVE FreeInv'
  BY <1>22 DEF LockReplyLost, Throw, Goto, Acquirable
<1>23. ASSUME NEW r \in Runs, SlotReplyLost(r) PROVE FreeInv'
  BY <1>23 DEF SlotReplyLost, Throw, Goto
<1>24. ASSUME NEW r \in Runs, CleanupFails(r) PROVE FreeInv'
  BY <1>24 DEF CleanupFails, At, Leave, Goto
<1>25. ASSUME NEW r \in Runs, LockTimeout(r) PROVE FreeInv'
  BY <1>25 DEF LockTimeout
<1>26. ASSUME NEW r \in Runs, SlotTimeout(r) PROVE FreeInv'
  BY <1>26 DEF SlotTimeout
<1>27. ASSUME MarkStale PROVE FreeInv'
  BY <1>27 DEF MarkStale, StaleCandidates, Busy, RunsOf
<1>28. ASSUME CancelStaleRuns PROVE FreeInv'
  BY <1>28 DEF CancelStaleRuns
<1>29. ASSUME DetectorFails PROVE FreeInv'
  BY <1>29 DEF DetectorFails
<1>30. ASSUME Crash PROVE FreeInv'
  BY <1>30 DEF Crash
<1>31. CASE UNCHANGED vars
  BY <1>31 DEF vars
<1>32. QED
  BY <1>1, <1>2, <1>3, <1>4, <1>5, <1>6, <1>7, <1>8, <1>9, <1>10, <1>11,
     <1>12, <1>13, <1>14, <1>15, <1>16, <1>17, <1>18, <1>19, <1>20, <1>21,
     <1>22, <1>23, <1>24, <1>25, <1>26, <1>27, <1>28, <1>29, <1>30, <1>31
     DEF Next, Progress, Faults

\* What no run of a thread overlaps, and whose calls succeed, does not fail, in whatever
\* order execute() asks for phases, and although leases and slots time out and the
\* detector looks on.  (lifecycle.ts VALID_TRANSITIONS, runner.ts 541-641)
THEOREM UndisturbedRunsSucceed ==
  ASSUME Events \cap {"overlap", "crash", "stepFails", "replyLost"} = {}
  PROVE  Spec => []OnlyFaultsFailRuns
<1>1. Init => SerialInv
  BY DEF Init, SerialInv, AloneInv, PhaseInv, FreeInv, OnlyFaultsFailRuns, PhaseAt, InFlight,
         BeforeTry, InTry, Working, Cleanup
<1>2. TypeOK /\ SerialInv /\ [Next]_vars => SerialInv'
  BY AloneStep, PhaseStep, FreeStep DEF SerialInv
<1>3. SerialInv => OnlyFaultsFailRuns
  BY DEF SerialInv, AloneInv
<1>4. QED
  BY <1>1, <1>2, <1>3, TypeCorrect, PTL DEF Spec
=============================================================================
