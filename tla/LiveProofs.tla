----------------------------- MODULE LiveProofs -----------------------------
(***************************************************************************)
(* The instances of AgentRuns and CronScheduler in MCLive and              *)
(* MCCronScheduler inherit what AgentRunsProofs and CronSchedulerProofs    *)
(* prove for every value of the constants.                                 *)
(***************************************************************************)
EXTENDS MCLive, MCCronScheduler, FiniteSetTheorems, TLAPS

-----------------------------------------------------------------------------
(* Runs that end clean.                                                    *)

SerialRuns == INSTANCE AgentRunsProofs WITH
  ThreadOf <- [r \in Runs |-> t1], MaxConcurrentRuns <- 2, MaxToolRounds <- 2,
  SharedSlots <- FALSE, Events <- SerialEvents, pc <- runPc

FaultyRuns == INSTANCE AgentRunsProofs WITH
  ThreadOf <- [r \in Runs |-> t1], MaxConcurrentRuns <- 1, MaxToolRounds <- 1,
  SharedSlots <- FALSE, Events <- FaultEvents, pc <- runPc

\* The two messages of the one thread.
LEMMA RunsAssumed ==
  /\ t1 \in Threads
  /\ NoRun \notin Runs /\ IsFiniteSet(Runs)
<1>1. IsFiniteSet({r1})
  BY FS_Singleton
<1>2. IsFiniteSet({r1} \cup {r2})
  BY <1>1, FS_AddElement
<1>3. {r1} \cup {r2} = Runs
  BY RunEventsAssumption
<1>4. QED
  BY <1>2, <1>3, RunEventsAssumption

\* What AgentRuns assumes of its constants holds of the instance's.
LEMMA SerialAssumed ==
  /\ SerialRuns!RunsAssumption /\ SerialRuns!ThreadAssumption
  /\ SerialRuns!LimitAssumption /\ SerialRuns!EventsAssumption
<1>1. SerialRuns!RunsAssumption
  BY RunsAssumed DEF IsFiniteSet, SerialRuns!IsFiniteSet
<1>2. SerialRuns!ThreadAssumption
  BY RunsAssumed
<1>3. SerialRuns!EventsAssumption
  BY RunEventsAssumption DEF SerialRuns!EnvironmentEvents
<1>4. SerialRuns!LimitAssumption
  OBVIOUS
<1>5. QED
  BY <1>1, <1>2, <1>3, <1>4

\* The theorem of AgentRunsProofs, for the instance's constants.
LEMMA SerialClean == SerialRuns!Spec => []SerialRuns!OnlyFaultsFailRuns
<1>1. SerialEvents \cap {"overlap", "crash", "stepFails", "replyLost"} = {}
  BY RunEventsAssumption
<1>2. QED
  BY <1>1, SerialAssumed, SerialRuns!UndisturbedRunsSucceed

\* The instance of the proofs holds copies of AgentRuns' definitions; expanded, they say
\* what those of Serial say.
LEMMA SerialAgrees ==
  /\ Serial!Init <=> SerialRuns!Init
  /\ Serial!Next <=> SerialRuns!Next
  /\ Serial!OnlyFaultsFailRuns <=> SerialRuns!OnlyFaultsFailRuns
<1>1. Serial!Init <=> SerialRuns!Init
  BY Zenon DEF Serial!Init, SerialRuns!Init, Serial!NotRead, SerialRuns!NotRead
<1>2. Serial!OnlyFaultsFailRuns <=> SerialRuns!OnlyFaultsFailRuns
  BY Zenon DEF Serial!OnlyFaultsFailRuns, SerialRuns!OnlyFaultsFailRuns,
               Serial!InFlight, SerialRuns!InFlight, Serial!BeforeTry, SerialRuns!BeforeTry,
               Serial!InTry, SerialRuns!InTry, Serial!Working, SerialRuns!Working, Serial!Cleanup,
               SerialRuns!Cleanup
<1>3. Serial!VALID_TRANSITIONS = SerialRuns!VALID_TRANSITIONS
  BY Zenon DEF Serial!VALID_TRANSITIONS, SerialRuns!VALID_TRANSITIONS,
               Serial!ThreadPhases, SerialRuns!ThreadPhases
<1>4. Serial!Cardinality(slots \ outlived) = SerialRuns!Cardinality(slots \ outlived)
  BY Zenon DEF Serial!Cardinality, SerialRuns!Cardinality,
               Serial!IsFiniteSet, SerialRuns!IsFiniteSet
<1>5. ASSUME NEW r \in Runs
      PROVE  /\ Serial!ReadPhase(r) <=> SerialRuns!ReadPhase(r)
             /\ Serial!SetPhase(r) <=> SerialRuns!SetPhase(r)
  BY <1>3 DEF Serial!IsValidTransition, SerialRuns!IsValidTransition, Serial!ReadPhase,
              SerialRuns!ReadPhase, Serial!SetPhase, SerialRuns!SetPhase, Serial!Target,
              SerialRuns!Target, Serial!After, SerialRuns!After, Serial!Goto, SerialRuns!Goto,
              Serial!At, SerialRuns!At, Serial!Throw, SerialRuns!Throw, Serial!InFlight,
              SerialRuns!InFlight, Serial!BeforeTry, SerialRuns!BeforeTry, Serial!InTry,
              SerialRuns!InTry, Serial!Working, SerialRuns!Working, Serial!Cleanup,
              SerialRuns!Cleanup, Serial!NotRead, SerialRuns!NotRead, Serial!threadRow,
              SerialRuns!threadRow, Serial!locals, SerialRuns!locals, Serial!slotVars,
              SerialRuns!slotVars
<1>6. ASSUME NEW r \in Runs
      PROVE  /\ Serial!TakeSlot(r) <=> SerialRuns!TakeSlot(r)
             /\ Serial!SlotRefused(r) <=> SerialRuns!SlotRefused(r)
  BY <1>4 DEF Serial!TakeSlot, SerialRuns!TakeSlot, Serial!SlotRefused, SerialRuns!SlotRefused,
              Serial!At, SerialRuns!At, Serial!Goto, SerialRuns!Goto, Serial!threadRow,
              SerialRuns!threadRow, Serial!locals, SerialRuns!locals, Serial!slotVars,
              SerialRuns!slotVars
<1>7. ASSUME NEW r \in Runs
      PROVE  Serial!Upsert(r) \/ Serial!Progress(r) \/ Serial!AskApproval(r) \/ Serial!Faults(r)
             <=> SerialRuns!Upsert(r) \/ SerialRuns!Progress(r)
                 \/ SerialRuns!AskApproval(r) \/ SerialRuns!Faults(r)
  BY <1>5, <1>6
  DEF Serial!threadRow, SerialRuns!threadRow, Serial!locals, SerialRuns!locals, Serial!slotVars,
      SerialRuns!slotVars, Serial!Target, SerialRuns!Target, Serial!After, SerialRuns!After,
      Serial!BeforeTry, SerialRuns!BeforeTry, Serial!Working, SerialRuns!Working, Serial!InTry,
      SerialRuns!InTry, Serial!Cleanup, SerialRuns!Cleanup, Serial!InFlight, SerialRuns!InFlight,
      Serial!NotRead, SerialRuns!NotRead, Serial!RunsOf, SerialRuns!RunsOf, Serial!Busy,
      SerialRuns!Busy, Serial!Goto, SerialRuns!Goto, Serial!At, SerialRuns!At, Serial!Throw,
      SerialRuns!Throw, Serial!Leave, SerialRuns!Leave, Serial!Upsert, SerialRuns!Upsert,
      Serial!IsLocked, SerialRuns!IsLocked, Serial!EnsureNotLocked, SerialRuns!EnsureNotLocked,
      Serial!CreateRow, SerialRuns!CreateRow, Serial!Acquirable, SerialRuns!Acquirable,
      Serial!TakeLock, SerialRuns!TakeLock, Serial!LockRefused, SerialRuns!LockRefused, Serial!Chat,
      SerialRuns!Chat, Serial!AskApproval, SerialRuns!AskApproval, Serial!ApprovalResolved,
      SerialRuns!ApprovalResolved, Serial!Drain, SerialRuns!Drain, Serial!FinishTools,
      SerialRuns!FinishTools, Serial!Finish, SerialRuns!Finish, Serial!ResetThread,
      SerialRuns!ResetThread, Serial!Park, SerialRuns!Park, Serial!MarkFailed,
      SerialRuns!MarkFailed, Serial!ResetAfterError, SerialRuns!ResetAfterError, Serial!Unlock,
      SerialRuns!Unlock, Serial!FreeSlot, SerialRuns!FreeSlot, Serial!Inject, SerialRuns!Inject,
      Serial!LockTimeout, SerialRuns!LockTimeout, Serial!SlotTimeout, SerialRuns!SlotTimeout,
      Serial!StepFails, SerialRuns!StepFails, Serial!LockReplyLost, SerialRuns!LockReplyLost,
      Serial!SlotReplyLost, SerialRuns!SlotReplyLost, Serial!CleanupFails, SerialRuns!CleanupFails,
      Serial!Progress, SerialRuns!Progress, Serial!Faults, SerialRuns!Faults
<1>8. Serial!MarkStale \/ Serial!CancelStaleRuns \/ Serial!DetectorFails \/ Serial!Crash
      <=> SerialRuns!MarkStale \/ SerialRuns!CancelStaleRuns
          \/ SerialRuns!DetectorFails \/ SerialRuns!Crash
  BY DEF Serial!StaleCandidates, SerialRuns!StaleCandidates, Serial!MarkStale, SerialRuns!MarkStale,
         Serial!CancelStaleRuns, SerialRuns!CancelStaleRuns, Serial!DetectorFails,
         SerialRuns!DetectorFails, Serial!Crash, SerialRuns!Crash, Serial!Busy, SerialRuns!Busy,
         Serial!RunsOf, SerialRuns!RunsOf, Serial!InFlight, SerialRuns!InFlight, Serial!BeforeTry,
         SerialRuns!BeforeTry, Serial!InTry, SerialRuns!InTry, Serial!Working, SerialRuns!Working,
         Serial!Cleanup, SerialRuns!Cleanup, Serial!threadRow, SerialRuns!threadRow, Serial!locals,
         SerialRuns!locals, Serial!slotVars, SerialRuns!slotVars, Serial!NotRead, SerialRuns!NotRead
<1>9. QED
  BY <1>1, <1>2, <1>7, <1>8 DEF Serial!Next, SerialRuns!Next

\* What AgentRuns assumes of its constants holds of the instance's.
LEMMA FaultyAssumed ==
  /\ FaultyRuns!RunsAssumption /\ FaultyRuns!ThreadAssumption
  /\ FaultyRuns!LimitAssumption /\ FaultyRuns!EventsAssumption
<1>1. FaultyRuns!RunsAssumption
  BY RunsAssumed DEF IsFiniteSet, FaultyRuns!IsFiniteSet
<1>2. FaultyRuns!ThreadAssumption
  BY RunsAssumed
<1>3. FaultyRuns!EventsAssumption
  BY RunEventsAssumption DEF FaultyRuns!EnvironmentEvents
<1>4. FaultyRuns!LimitAssumption
  OBVIOUS
<1>5. QED
  BY <1>1, <1>2, <1>3, <1>4

\* The theorem of AgentRunsProofs, for the instance's constants.
LEMMA FaultyClean == FaultyRuns!Spec => []FaultyRuns!EndedRunsHoldNothing
<1>1. FaultEvents \cap {"replyLost", "cleanupFails"} = {}
  BY RunEventsAssumption
<1>2. QED
  BY <1>1, FaultyAssumed, FaultyRuns!EndedRunsHold

\* The instance of the proofs holds copies of AgentRuns' definitions; expanded, they say
\* what those of Faulty say.
LEMMA FaultyAgrees ==
  /\ Faulty!Init <=> FaultyRuns!Init
  /\ Faulty!Next <=> FaultyRuns!Next
  /\ Faulty!EndedRunsHoldNothing <=> FaultyRuns!EndedRunsHoldNothing
<1>1. Faulty!Init <=> FaultyRuns!Init
  BY Zenon DEF Faulty!Init, FaultyRuns!Init, Faulty!NotRead, FaultyRuns!NotRead
<1>2. Faulty!EndedRunsHoldNothing <=> FaultyRuns!EndedRunsHoldNothing
  BY Zenon DEF Faulty!EndedRunsHoldNothing, FaultyRuns!EndedRunsHoldNothing,
               Faulty!InFlight, FaultyRuns!InFlight, Faulty!BeforeTry, FaultyRuns!BeforeTry,
               Faulty!InTry, FaultyRuns!InTry, Faulty!Working, FaultyRuns!Working, Faulty!Cleanup,
               FaultyRuns!Cleanup
<1>3. Faulty!VALID_TRANSITIONS = FaultyRuns!VALID_TRANSITIONS
  BY Zenon DEF Faulty!VALID_TRANSITIONS, FaultyRuns!VALID_TRANSITIONS,
               Faulty!ThreadPhases, FaultyRuns!ThreadPhases
<1>4. Faulty!Cardinality(slots \ outlived) = FaultyRuns!Cardinality(slots \ outlived)
  BY Zenon DEF Faulty!Cardinality, FaultyRuns!Cardinality,
               Faulty!IsFiniteSet, FaultyRuns!IsFiniteSet
<1>5. ASSUME NEW r \in Runs
      PROVE  /\ Faulty!ReadPhase(r) <=> FaultyRuns!ReadPhase(r)
             /\ Faulty!SetPhase(r) <=> FaultyRuns!SetPhase(r)
  BY <1>3 DEF Faulty!IsValidTransition, FaultyRuns!IsValidTransition, Faulty!ReadPhase,
              FaultyRuns!ReadPhase, Faulty!SetPhase, FaultyRuns!SetPhase, Faulty!Target,
              FaultyRuns!Target, Faulty!After, FaultyRuns!After, Faulty!Goto, FaultyRuns!Goto,
              Faulty!At, FaultyRuns!At, Faulty!Throw, FaultyRuns!Throw, Faulty!InFlight,
              FaultyRuns!InFlight, Faulty!BeforeTry, FaultyRuns!BeforeTry, Faulty!InTry,
              FaultyRuns!InTry, Faulty!Working, FaultyRuns!Working, Faulty!Cleanup,
              FaultyRuns!Cleanup, Faulty!NotRead, FaultyRuns!NotRead, Faulty!threadRow,
              FaultyRuns!threadRow, Faulty!locals, FaultyRuns!locals, Faulty!slotVars,
              FaultyRuns!slotVars
<1>6. ASSUME NEW r \in Runs
      PROVE  /\ Faulty!TakeSlot(r) <=> FaultyRuns!TakeSlot(r)
             /\ Faulty!SlotRefused(r) <=> FaultyRuns!SlotRefused(r)
  BY <1>4 DEF Faulty!TakeSlot, FaultyRuns!TakeSlot, Faulty!SlotRefused, FaultyRuns!SlotRefused,
              Faulty!At, FaultyRuns!At, Faulty!Goto, FaultyRuns!Goto, Faulty!threadRow,
              FaultyRuns!threadRow, Faulty!locals, FaultyRuns!locals, Faulty!slotVars,
              FaultyRuns!slotVars
<1>7. ASSUME NEW r \in Runs
      PROVE  Faulty!Upsert(r) \/ Faulty!Progress(r) \/ Faulty!AskApproval(r) \/ Faulty!Faults(r)
             <=> FaultyRuns!Upsert(r) \/ FaultyRuns!Progress(r)
                 \/ FaultyRuns!AskApproval(r) \/ FaultyRuns!Faults(r)
  BY <1>5, <1>6
  DEF Faulty!threadRow, FaultyRuns!threadRow, Faulty!locals, FaultyRuns!locals, Faulty!slotVars,
      FaultyRuns!slotVars, Faulty!Target, FaultyRuns!Target, Faulty!After, FaultyRuns!After,
      Faulty!BeforeTry, FaultyRuns!BeforeTry, Faulty!Working, FaultyRuns!Working, Faulty!InTry,
      FaultyRuns!InTry, Faulty!Cleanup, FaultyRuns!Cleanup, Faulty!InFlight, FaultyRuns!InFlight,
      Faulty!NotRead, FaultyRuns!NotRead, Faulty!RunsOf, FaultyRuns!RunsOf, Faulty!Busy,
      FaultyRuns!Busy, Faulty!Goto, FaultyRuns!Goto, Faulty!At, FaultyRuns!At, Faulty!Throw,
      FaultyRuns!Throw, Faulty!Leave, FaultyRuns!Leave, Faulty!Upsert, FaultyRuns!Upsert,
      Faulty!IsLocked, FaultyRuns!IsLocked, Faulty!EnsureNotLocked, FaultyRuns!EnsureNotLocked,
      Faulty!CreateRow, FaultyRuns!CreateRow, Faulty!Acquirable, FaultyRuns!Acquirable,
      Faulty!TakeLock, FaultyRuns!TakeLock, Faulty!LockRefused, FaultyRuns!LockRefused, Faulty!Chat,
      FaultyRuns!Chat, Faulty!AskApproval, FaultyRuns!AskApproval, Faulty!ApprovalResolved,
      FaultyRuns!ApprovalResolved, Faulty!Drain, FaultyRuns!Drain, Faulty!FinishTools,
      FaultyRuns!FinishTools, Faulty!Finish, FaultyRuns!Finish, Faulty!ResetThread,
      FaultyRuns!ResetThread, Faulty!Park, FaultyRuns!Park, Faulty!MarkFailed,
      FaultyRuns!MarkFailed, Faulty!ResetAfterError, FaultyRuns!ResetAfterError, Faulty!Unlock,
      FaultyRuns!Unlock, Faulty!FreeSlot, FaultyRuns!FreeSlot, Faulty!Inject, FaultyRuns!Inject,
      Faulty!LockTimeout, FaultyRuns!LockTimeout, Faulty!SlotTimeout, FaultyRuns!SlotTimeout,
      Faulty!StepFails, FaultyRuns!StepFails, Faulty!LockReplyLost, FaultyRuns!LockReplyLost,
      Faulty!SlotReplyLost, FaultyRuns!SlotReplyLost, Faulty!CleanupFails, FaultyRuns!CleanupFails,
      Faulty!Progress, FaultyRuns!Progress, Faulty!Faults, FaultyRuns!Faults
<1>8. Faulty!MarkStale \/ Faulty!CancelStaleRuns \/ Faulty!DetectorFails \/ Faulty!Crash
      <=> FaultyRuns!MarkStale \/ FaultyRuns!CancelStaleRuns
          \/ FaultyRuns!DetectorFails \/ FaultyRuns!Crash
  BY DEF Faulty!StaleCandidates, FaultyRuns!StaleCandidates, Faulty!MarkStale, FaultyRuns!MarkStale,
         Faulty!CancelStaleRuns, FaultyRuns!CancelStaleRuns, Faulty!DetectorFails,
         FaultyRuns!DetectorFails, Faulty!Crash, FaultyRuns!Crash, Faulty!Busy, FaultyRuns!Busy,
         Faulty!RunsOf, FaultyRuns!RunsOf, Faulty!InFlight, FaultyRuns!InFlight, Faulty!BeforeTry,
         FaultyRuns!BeforeTry, Faulty!InTry, FaultyRuns!InTry, Faulty!Working, FaultyRuns!Working,
         Faulty!Cleanup, FaultyRuns!Cleanup, Faulty!threadRow, FaultyRuns!threadRow, Faulty!locals,
         FaultyRuns!locals, Faulty!slotVars, FaultyRuns!slotVars, Faulty!NotRead, FaultyRuns!NotRead
<1>9. QED
  BY <1>1, <1>2, <1>7, <1>8 DEF Faulty!Next, FaultyRuns!Next

\* A run that no other run of its thread overlaps, and whose calls succeed, does not
\* fail; and a call of run() that is over left nothing behind, no lock and no slot,
\* whatever step of it failed before its clean-up.  (phases.ts, execute() and the
\* finally block, runner.ts 316-323, 392-407 and 541-641)
THEOREM RunsClean == MCSpec => []RunsEndClean
<1>1. MCInit => SerialRuns!Init /\ FaultyRuns!Init
  <2>1. Serial!Init => FaultyRuns!Init
    BY Zenon DEF Serial!Init, FaultyRuns!Init, Serial!NotRead, FaultyRuns!NotRead
  <2>2. QED
    BY <2>1, SerialAgrees DEF MCInit
<1>2. part = "serial" /\ [MCNext]_mcVars
      => (part = "serial")' /\ [SerialRuns!Next]_(SerialRuns!vars)
  <2>1. SUFFICES ASSUME part = "serial", [MCNext]_mcVars
                 PROVE  part' = part /\ (Serial!Next \/ UNCHANGED runVars)
    BY <2>1, SerialAgrees
       DEF runVars, SerialRuns!vars, SerialRuns!threadRow, SerialRuns!locals, SerialRuns!slotVars
  <2>2. QED
    BY <2>1 DEF MCNext, Only, mcVars
<1>3. part = "faulty" /\ [MCNext]_mcVars
      => (part = "faulty")' /\ [FaultyRuns!Next]_(FaultyRuns!vars)
  <2>1. SUFFICES ASSUME part = "faulty", [MCNext]_mcVars
                 PROVE  part' = part /\ (Faulty!Next \/ UNCHANGED runVars)
    BY <2>1, FaultyAgrees
       DEF runVars, FaultyRuns!vars, FaultyRuns!threadRow, FaultyRuns!locals, FaultyRuns!slotVars
  <2>2. QED
    BY <2>1 DEF MCNext, Only, mcVars
<1>4. [MCNext]_mcVars => part' = part
  BY DEF MCNext, Only, mcVars
<1> DEFINE InSerial == part = "serial"
           InFaulty == part = "faulty"
<1>5. /\ ~InSerial /\ [MCNext]_mcVars => ~InSerial'
      /\ ~InFaulty /\ [MCNext]_mcVars => ~InFaulty'
  BY <1>4
<1>6. /\ InSerial /\ [MCNext]_mcVars => InSerial' /\ [SerialRuns!Next]_(SerialRuns!vars)
      /\ InFaulty /\ [MCNext]_mcVars => InFaulty' /\ [FaultyRuns!Next]_(FaultyRuns!vars)
  BY <1>2, <1>3
<1>7. /\ InSerial /\ SerialRuns!OnlyFaultsFailRuns => RunsEndClean
      /\ InFaulty /\ FaultyRuns!EndedRunsHoldNothing => RunsEndClean
      /\ ~InSerial /\ ~InFaulty => RunsEndClean
  BY SerialAgrees, FaultyAgrees DEF RunsEndClean
<1> HIDE DEF InSerial, InFaulty
<1>8. QED
  BY <1>1, <1>5, <1>6, <1>7, SerialClean, FaultyClean, PTL
     DEF MCSpec, SerialRuns!Spec, FaultyRuns!Spec
-----------------------------------------------------------------------------
(* The healthy job among failures.                                         *)

HealthyJobs == INSTANCE CronSchedulerProofs WITH
  Scripts <- {}, MaxRunsOf <- NoLimits, Outcomes <- HealthyOrRefused,
  MaxConcurrent <- 1, MaxFailures <- 2, RunBound <- 1, Events <- HealthyEvents,
  enabled <- hEnabled, due <- hDue, runCount <- hRunCount, lastStatus <- hLastStatus,
  newer <- hNewer, history <- hHistory, ticking <- hTicking, running <- hRunning,
  pc <- hPc, job <- hJob, timed <- hTimed, copy <- hCopy, result <- hResult,
  restarts <- hRestarts

\* What CronScheduler assumes of its constants holds of the instance's.
LEMMA HealthyAssumed ==
  /\ HealthyJobs!JobsAssumption /\ HealthyJobs!CountsAssumption
  /\ HealthyJobs!EventsAssumption /\ HealthyJobs!ExecsAssumption
<1>1. HealthyJobs!JobsAssumption
  <2>1. HealthyJobs!IsFiniteSet(Jobs)
    BY JobsAssumption DEF IsFiniteSet, HealthyJobs!IsFiniteSet
  <2>2. HealthyOrRefused \in [Jobs -> SUBSET {"COMPLETED", "FAILED", "CANCELLED"}]
    BY DEF HealthyOrRefused
  <2>3. QED
    BY <2>1, <2>2, JobsAssumption
<1>2. HealthyJobs!CountsAssumption
  BY CountsAssumption DEF NoLimits
<1>3. HealthyJobs!EventsAssumption
  BY HealthyAssumption DEF CronEvents, HealthyJobs!CronEvents
<1>4. HealthyJobs!ExecsAssumption
  <2>1. HealthyJobs!IsFiniteSet(Execs)
    BY ExecsAssumption DEF IsFiniteSet, HealthyJobs!IsFiniteSet
  <2>2. QED
    BY <2>1, ExecsAssumption
<1>5. QED
  BY <1>1, <1>2, <1>3, <1>4

\* The theorem of CronSchedulerProofs, for the instance's constants.
LEMMA HealthyStays == HealthyJobs!Spec => []HealthyJobs!HealthyJobStaysEnabled
  BY HealthyAssumed, HealthyJobs!HealthyJobsStay

\* The copies of CronScheduler's definitions, in the same way.
LEMMA HealthyAgrees ==
  /\ Healthy!Init <=> HealthyJobs!Init
  /\ Healthy!Next <=> HealthyJobs!Next
  /\ Healthy!HealthyJobStaysEnabled <=> HealthyJobs!HealthyJobStaysEnabled
<1>1. Healthy!Init <=> HealthyJobs!Init
  BY Zenon DEF Healthy!Init, HealthyJobs!Init
<1>2. Healthy!HealthyJobStaysEnabled <=> HealthyJobs!HealthyJobStaysEnabled
  BY Zenon DEF Healthy!HealthyJobStaysEnabled, HealthyJobs!HealthyJobStaysEnabled
<1>3. \A S : Healthy!Cardinality(S) = HealthyJobs!Cardinality(S)
  BY Zenon DEF Healthy!Cardinality, HealthyJobs!Cardinality,
               Healthy!IsFiniteSet, HealthyJobs!IsFiniteSet
<1>4. Healthy!Startable = HealthyJobs!Startable /\ Healthy!Idle = HealthyJobs!Idle
  BY Zenon DEF Healthy!Startable, HealthyJobs!Startable, Healthy!Idle, HealthyJobs!Idle
<1>5. Healthy!Room = HealthyJobs!Room
  BY <1>3 DEF Healthy!Room, HealthyJobs!Room
<1>6. ASSUME NEW S, NEW f PROVE Healthy!Begin(S, f) <=> HealthyJobs!Begin(S, f)
  BY <1>3 DEF Healthy!Begin, HealthyJobs!Begin, Healthy!rows, HealthyJobs!rows
<1>7. Healthy!TickLoop <=> HealthyJobs!TickLoop
  BY <1>3, <1>4, <1>5, <1>6 DEF Healthy!TickLoop, HealthyJobs!TickLoop, Healthy!rows, HealthyJobs!rows
<1>8. ASSUME NEW x \in Execs
      PROVE  Healthy!ExecStep(x) \/ Healthy!RecordFails(x) \/ Healthy!StepFails(x)
             <=> HealthyJobs!ExecStep(x) \/ HealthyJobs!RecordFails(x) \/ HealthyJobs!StepFails(x)
  BY DEF Healthy!rows, HealthyJobs!rows, Healthy!execs, HealthyJobs!execs, Healthy!Idle,
         HealthyJobs!Idle, Healthy!Row, HealthyJobs!Row, Healthy!At, HealthyJobs!At, Healthy!Catch,
         HealthyJobs!Catch, Healthy!DependenciesReady, HealthyJobs!DependenciesReady,
         Healthy!BudgetSpent, HealthyJobs!BudgetSpent, Healthy!ConditionSaysNo,
         HealthyJobs!ConditionSaysNo, Healthy!JobDeclined, HealthyJobs!JobDeclined,
         Healthy!ScriptDeclined, HealthyJobs!ScriptDeclined, Healthy!Check, HealthyJobs!Check,
         Healthy!Skip, HealthyJobs!Skip, Healthy!Latest, HealthyJobs!Latest, Healthy!StartRun,
         HealthyJobs!StartRun, Healthy!Close, HealthyJobs!Close, Healthy!EndRun, HealthyJobs!EndRun,
         Healthy!ReachedMaxRuns, HealthyJobs!ReachedMaxRuns, Healthy!Dependents,
         HealthyJobs!Dependents, Healthy!JobOf, HealthyJobs!JobOf, Healthy!Stamp, HealthyJobs!Stamp,
         Healthy!RecordRun, HealthyJobs!RecordRun, Healthy!RecordFails, HealthyJobs!RecordFails,
         Healthy!Streak, HealthyJobs!Streak, Healthy!CountFailures, HealthyJobs!CountFailures,
         Healthy!Disable, HealthyJobs!Disable, Healthy!Settle, HealthyJobs!Settle,
         Healthy!StepFails, HealthyJobs!StepFails, Healthy!ExecStep, HealthyJobs!ExecStep
<1>9. ASSUME NEW j \in Jobs
      PROVE  Healthy!NextRunAtPasses(j) \/ Healthy!Trigger(j) \/ Healthy!Delete(j)
             <=> HealthyJobs!NextRunAtPasses(j) \/ HealthyJobs!Trigger(j) \/ HealthyJobs!Delete(j)
  BY DEF Healthy!NextRunAtPasses, HealthyJobs!NextRunAtPasses, Healthy!Trigger, HealthyJobs!Trigger,
         Healthy!Delete, HealthyJobs!Delete, Healthy!Row, HealthyJobs!Row, Healthy!Idle,
         HealthyJobs!Idle, Healthy!rows, HealthyJobs!rows, Healthy!execs, HealthyJobs!execs
<1>10. Healthy!TickRead \/ Healthy!TickFails \/ Healthy!Crash
       <=> HealthyJobs!TickRead \/ HealthyJobs!TickFails \/ HealthyJobs!Crash
  BY DEF Healthy!TickRead, HealthyJobs!TickRead, Healthy!TickFails, HealthyJobs!TickFails,
         Healthy!Crash, HealthyJobs!Crash, Healthy!Row, HealthyJobs!Row, Healthy!Idle,
         HealthyJobs!Idle, Healthy!rows, HealthyJobs!rows, Healthy!execs, HealthyJobs!execs
<1>11. QED
  BY <1>1, <1>2, <1>7, <1>8, <1>9, <1>10 DEF Healthy!Next, HealthyJobs!Next

\* A job whose agent never fails is never disabled, whatever else fails around its
\* runs: triggers, refusals, steps and updates.  (scheduler.ts 217-234 with 326-354)
THEOREM HealthySurvives == TimerSpec => []HealthyJobSurvives
<1>1. TimerInit => HealthyJobs!Init
  BY HealthyAgrees DEF TimerInit
<1>2. [TimerNext]_timerVars => [HealthyJobs!Next]_(HealthyJobs!vars)
  <2>1. CASE which = "healthy" /\ Healthy!Next
    BY <2>1, HealthyAgrees
  <2>2. CASE UNCHANGED healthyVars
    BY <2>2 DEF healthyVars, HealthyJobs!vars, HealthyJobs!rows, HealthyJobs!execs
  <2>3. QED
    BY <2>1, <2>2 DEF TimerNext, timerVars
<1>3. HealthyJobs!HealthyJobStaysEnabled => HealthyJobSurvives
  BY HealthyAgrees DEF HealthyJobSurvives
<1>4. QED
  BY <1>1, <1>2, <1>3, HealthyStays, PTL DEF TimerSpec, HealthyJobs!Spec
=============================================================================
