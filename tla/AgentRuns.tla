------------------------------ MODULE AgentRuns ------------------------------
(***************************************************************************)
(* Agent runs on Slack threads: AgentRunner.run of                         *)
(* apps/bot/src/agent/runner.ts with what it shares between runs: the      *)
(* thread rows (status, phase, lock), the run rows, the concurrency slots  *)
(* of the workspace and the buffer of injected messages; and the           *)
(* StaleThreadDetector that writes the same rows.                          *)
(*                                                                         *)
(* A run is one call of AgentRunner.run, made for one incoming message.    *)
(* Every await is a point where other runs interleave, so every database   *)
(* call is a step of its own, named by the program counter pc[r].          *)
(***************************************************************************)
EXTENDS Naturals, FiniteSets, ThreadPhase

CONSTANTS
  Threads,           \* conversation threads (Slack channel and thread_ts)
  Runs,              \* incoming messages, each handled by one run
  ThreadOf,          \* the thread of each message
  NoRun,             \* the null of the lockedBy column
  MaxConcurrentRuns, \* MAX_CONCURRENT_RUNS of the workspace
  MaxToolRounds,     \* MAX_TOOL_ROUNDS of runner.ts
  SharedSlots,       \* TRUE: slots live in Redis; FALSE: in the process
  Events             \* what the environment may do, see EnvironmentEvents

EnvironmentEvents ==
  {"overlap",      \* a message arrives while a run of its thread is in flight
   "lockTimeout",  \* lockTimeoutMs passes while a run holds the thread lock
   "slotTimeout",  \* the slot's ttlMs passes while a run holds the slot
   "crash",        \* the bot process dies and restarts
   "stepFails",    \* an awaited call of a run rejects
   "replyLost",    \* ... after its effect took place
   "cleanupFails", \* a write of the catch or finally block rejects
   "staleness"}    \* staleTimeoutMs passes without a write to a thread

ASSUME RunsAssumption   == NoRun \notin Runs /\ IsFiniteSet(Runs)
ASSUME ThreadAssumption == ThreadOf \in [Runs -> Threads]
ASSUME LimitAssumption  == MaxConcurrentRuns \in Nat /\ MaxToolRounds \in Nat \ {0}
ASSUME EventsAssumption == Events \subseteq EnvironmentEvents /\ SharedSlots \in BOOLEAN

VARIABLES
  status,    \* status column of each thread, "absent" before the row exists
  phase,     \* phase column of each thread
  lockedBy,  \* lockedBy column of each thread
  runStatus, \* status column of each agent run, "none" before the row exists
  pc,        \* the await each run is suspended at
  seen,      \* the phase transitionPhase has read and not yet compared
  round,     \* tool rounds the run has finished
  outcome,   \* how run() ends for its caller
  holds,     \* runs whose local lockAcquired is TRUE
  overdue,   \* runs whose lockedAt is older than lockTimeoutMs
  slots,     \* concurrency slots taken
  outlived,  \* runs that took their slot more than ttlMs ago
  fate,      \* what became of a message that was handed to injectMessage
  detector   \* "idle", or "cancel" between the detector's two writes

threadRow == <<status, phase, lockedBy>>
locals    == <<seen, round, holds>>
slotVars  == <<slots, outlived>>
vars == <<status, phase, lockedBy, runStatus, pc, seen, round, outcome, holds,
          overdue, slots, outlived, fate, detector>>

-----------------------------------------------------------------------------
(* The program counter.                                                    *)

\* The await of run() that calls transitionPhase, and the phase it asks for.
Target ==
  [trigger  |-> "TRIGGER",   prompt   |-> "PROMPT_INJECTION",
   reason   |-> "REASONING", useTools |-> "TOOL_LOOP",
   gate     |-> "DRAFT_GATE", ungate  |-> "TOOL_LOOP",
   resume   |-> "REASONING", complete |-> "COMPLETION"]

\* Where run() goes on when the transition succeeds.
After ==
  [trigger  |-> "checkLock", prompt   |-> "takeLock",
   reason   |-> "chat",      useTools |-> "tools",
   gate     |-> "approval",  ungate   |-> "tools",
   resume   |-> "chat",      complete |-> "finish"]

BeforeTry == {"trigger", "checkLock", "createRow", "takeSlot", "slotRefused"}
Working   == {"reason", "chat", "useTools", "tools", "gate", "approval",
              "ungate", "resume", "complete", "finish", "park"}
InTry     == {"prompt", "takeLock", "lockRefused"} \cup Working
Cleanup   == {"failed", "reset", "unlock", "freeSlot"}
InFlight  == BeforeTry \cup InTry \cup Cleanup \cup {"react"}
Labels    == InFlight \cup {"idle", "ended", "dead"}

NotRead   == "NOT_READ"

RunsOf(t) == {r \in Runs : ThreadOf[r] = t}
Busy(t)   == \E r \in RunsOf(t) : pc[r] \in InFlight

Goto(r, label) == pc' = [pc EXCEPT ![r] = label]

At(r, label, next) == pc[r] = label /\ Goto(r, next)

\* A rejected await: run() rejects before the try block, the catch block runs
\* inside it.
Throw(r, how) ==
  /\ Goto(r, IF pc[r] \in BeforeTry THEN "ended" ELSE "failed")
  /\ outcome' = [outcome EXCEPT ![r] = how]
  /\ seen'    = [seen EXCEPT ![r] = NotRead]

\* What is left when the call is over.
Leave(r, label) ==
  /\ Goto(r, label)
  /\ round' = [round EXCEPT ![r] = 0]
-----------------------------------------------------------------------------
(* Rows that exist before the first message: none, or a thread that an     *)
(* earlier conversation or create_thread left behind.                      *)

Init ==
  /\ status \in [Threads -> {"absent", "WAITING"}]
  /\ phase     = [t \in Threads |-> "IDLE"]
  /\ lockedBy  = [t \in Threads |-> NoRun]
  /\ runStatus = [r \in Runs |-> "none"]
  /\ pc        = [r \in Runs |-> "idle"]
  /\ seen      = [r \in Runs |-> NotRead]
  /\ round     = [r \in Runs |-> 0]
  /\ outcome   = [r \in Runs |-> "none"]
  /\ holds     = {}
  /\ overdue   = {}
  /\ slots     = {}
  /\ outlived  = {}
  /\ fate      = [r \in Runs |-> "none"]
  /\ detector  = "idle"
-----------------------------------------------------------------------------
(* transitionPhase: read the phase, check it, compare and set.             *)

ReadPhase(r) ==
  /\ pc[r] \in DOMAIN Target
  /\ seen[r] = NotRead
  /\ IF IsValidTransition(phase[ThreadOf[r]], Target[pc[r]])
       THEN /\ seen' = [seen EXCEPT ![r] = phase[ThreadOf[r]]]
            /\ UNCHANGED <<pc, outcome>>
       ELSE Throw(r, "error")
  /\ UNCHANGED <<threadRow, runStatus, round, holds, overdue, slotVars, fate, detector>>

SetPhase(r) ==
  /\ pc[r] \in DOMAIN Target
  /\ seen[r] # NotRead
  /\ IF phase[ThreadOf[r]] = seen[r]
       THEN /\ phase' = [phase EXCEPT ![ThreadOf[r]] = Target[pc[r]]]
            /\ Goto(r, After[pc[r]])
            /\ seen' = [seen EXCEPT ![r] = NotRead]
            /\ UNCHANGED outcome
       ELSE Throw(r, "error") /\ UNCHANGED phase
  /\ UNCHANGED <<status, lockedBy, runStatus, round, holds, overdue, slotVars, fate, detector>>
-----------------------------------------------------------------------------
(* run() up to its try block.                                              *)

\* thread.upsert; the phase it returns decides whether to ask for TRIGGER.
Upsert(r) ==
  LET t == ThreadOf[r] IN
  /\ pc[r] = "idle"
  /\ "overlap" \in Events \/ ~Busy(t)
  /\ status' = [status EXCEPT ![t] = "ACTIVE"]
  /\ phase'  = [phase EXCEPT ![t] = IF status[t] = "absent" THEN "TRIGGER" ELSE @]
  /\ Goto(r, IF phase'[t] = "IDLE" THEN "trigger" ELSE "checkLock")
  /\ UNCHANGED <<lockedBy, runStatus, locals, outcome, overdue, slotVars, fate, detector>>

\* ThreadLock.isLocked.
IsLocked(t) == lockedBy[t] # NoRun /\ lockedBy[t] \notin overdue

EnsureNotLocked(r) ==
  /\ pc[r] = "checkLock"
  /\ IF IsLocked(ThreadOf[r])
       THEN Goto(r, "react") /\ outcome' = [outcome EXCEPT ![r] = "locked"]
       ELSE Goto(r, "createRow") /\ UNCHANGED outcome
  /\ UNCHANGED <<threadRow, runStatus, locals, overdue, slotVars, fate, detector>>

CreateRow(r) ==
  /\ At(r, "createRow", "takeSlot")
  /\ runStatus' = [runStatus EXCEPT ![r] = "RUNNING"]
  /\ UNCHANGED <<threadRow, locals, outcome, overdue, slotVars, fate, detector>>

\* Mutant: the count is compared with <=.
TakeSlotOffByOne(r) ==
  /\ pc[r] = "takeSlot"
  /\ LET kept == slots \ outlived
         free == Cardinality(kept) <= MaxConcurrentRuns
     IN  /\ slots' = IF free THEN kept \cup {r} ELSE kept
         /\ Goto(r, IF free THEN "prompt" ELSE "slotRefused")
  /\ UNCHANGED <<threadRow, runStatus, locals, outcome, overdue, outlived, fate, detector>>

\* ConcurrencyLimiter.acquire: evict what is older than the ttl, then count.
TakeSlot(r) ==
  /\ pc[r] = "takeSlot"
  /\ LET kept == slots \ outlived
         free == Cardinality(kept) < MaxConcurrentRuns
     IN  /\ slots' = IF free THEN kept \cup {r} ELSE kept
         /\ Goto(r, IF free THEN "prompt" ELSE "slotRefused")
  /\ UNCHANGED <<threadRow, runStatus, locals, outcome, overdue, outlived, fate, detector>>

SlotRefused(r) ==
  /\ At(r, "slotRefused", "ended")
  /\ runStatus' = [runStatus EXCEPT ![r] = "CANCELLED"]
  /\ outcome'   = [outcome EXCEPT ![r] = "busy"]
  /\ UNCHANGED <<threadRow, locals, overdue, slotVars, fate, detector>>
-----------------------------------------------------------------------------
(* The try block: the thread lock.                                         *)

\* Mutant: lockTimeoutMs is read as seconds, every lock looks expired.
AcquirableInMilliseconds(t) == TRUE

\* ThreadLock.acquire: one conditional update.
Acquirable(t) == lockedBy[t] = NoRun \/ lockedBy[t] \in overdue

TakeLock(r) ==
  LET t == ThreadOf[r] IN
  /\ pc[r] = "takeLock"
  /\ IF Acquirable(t)
       THEN /\ lockedBy' = [lockedBy EXCEPT ![t] = r]
            /\ phase'    = [phase EXCEPT ![t] = "THREAD_LOCK"]
            /\ holds'    = holds \cup {r}
            /\ Goto(r, "reason")
       ELSE Goto(r, "lockRefused") /\ UNCHANGED <<phase, lockedBy, holds>>
  /\ UNCHANGED <<status, runStatus, seen, round, outcome, overdue, slotVars, fate, detector>>

LockRefused(r) ==
  /\ pc[r] = "lockRefused"
  /\ runStatus' = [runStatus EXCEPT ![r] = "CANCELLED"]
  /\ Throw(r, "locked")
  /\ UNCHANGED <<threadRow, round, holds, overdue, slotVars, fate, detector>>
-----------------------------------------------------------------------------
(* The try block: execute() and its tool rounds.                           *)

\* Mutant: one round too many.
ChatOffByOne(r) ==
  /\ pc[r] = "chat"
  /\ IF round[r] <= MaxToolRounds
       THEN Goto(r, "useTools") \/ Goto(r, "complete")
       ELSE Goto(r, "complete")
  /\ UNCHANGED <<threadRow, runStatus, locals, outcome, overdue, slotVars, fate, detector>>

\* llm.chat: a final answer (or a context overflow), or tool calls.
Chat(r) ==
  /\ pc[r] = "chat"
  /\ IF round[r] < MaxToolRounds
       THEN Goto(r, "useTools") \/ Goto(r, "complete")
       ELSE Goto(r, "complete")
  /\ UNCHANGED <<threadRow, runStatus, locals, outcome, overdue, slotVars, fate, detector>>

\* A tool of the round needs approval: handlePermissionGate posts the request.
AskApproval(r) ==
  /\ At(r, "tools", "gate")
  /\ UNCHANGED <<threadRow, runStatus, locals, outcome, overdue, slotVars, fate, detector>>

\* waitForApproval returns approved, rejected or timeout; all three go on.
ApprovalResolved(r) ==
  /\ At(r, "approval", "ungate")
  /\ UNCHANGED <<threadRow, runStatus, locals, outcome, overdue, slotVars, fate, detector>>

\* drainInjectedMessages: the thread's buffer is emptied.
Drain(t, to) ==
  fate' = [m \in Runs |-> IF ThreadOf[m] = t /\ fate[m] = "buffered" THEN to ELSE fate[m]]

\* Mutant: the round is not counted.
FinishToolsUncounted(r) ==
  /\ At(r, "tools", "resume")
  /\ Drain(ThreadOf[r], "delivered")
  /\ UNCHANGED <<threadRow, runStatus, locals, outcome, overdue, slotVars, detector>>

\* The last tool of the round is done; the buffered messages join its results.
FinishTools(r) ==
  /\ At(r, "tools", "resume")
  /\ round' = [round EXCEPT ![r] = @ + 1]
  /\ Drain(ThreadOf[r], "delivered")
  /\ UNCHANGED <<threadRow, runStatus, seen, holds, outcome, overdue, slotVars, detector>>

Finish(r) ==
  /\ At(r, "finish", "park")
  /\ runStatus' = [runStatus EXCEPT ![r] = "COMPLETED"]
  /\ UNCHANGED <<threadRow, locals, outcome, overdue, slotVars, fate, detector>>

ResetThread(t) ==
  /\ status' = [status EXCEPT ![t] = "WAITING"]
  /\ phase'  = [phase EXCEPT ![t] = "IDLE"]

\* Mutant: the end of a run sets the status and forgets the phase.
ParkInPhase(r) ==
  /\ At(r, "park", "unlock")
  /\ status'  = [status EXCEPT ![ThreadOf[r]] = "WAITING"]
  /\ outcome' = [outcome EXCEPT ![r] = "ok"]
  /\ Drain(ThreadOf[r], "dropped")
  /\ UNCHANGED <<phase, lockedBy, runStatus, locals, overdue, slotVars, detector>>

\* thread.update and the drain that only logs what is left in the buffer.
Park(r) ==
  /\ At(r, "park", "unlock")
  /\ ResetThread(ThreadOf[r])
  /\ outcome' = [outcome EXCEPT ![r] = "ok"]
  /\ Drain(ThreadOf[r], "dropped")
  /\ UNCHANGED <<lockedBy, runStatus, locals, overdue, slotVars, detector>>
-----------------------------------------------------------------------------
(* The catch and finally blocks, and the caller's handler.                 *)

\* Mutant: markRunFailed without its instanceof guard.
MarkFailedAlways(r) ==
  /\ At(r, "failed", "reset")
  /\ runStatus' = [runStatus EXCEPT ![r] = "FAILED"]
  /\ UNCHANGED <<threadRow, locals, outcome, overdue, slotVars, fate, detector>>

\* markRunFailed leaves the row of a refused run alone.
MarkFailed(r) ==
  /\ At(r, "failed", "reset")
  /\ runStatus' = [runStatus EXCEPT ![r] = IF outcome[r] = "locked" THEN @ ELSE "FAILED"]
  /\ UNCHANGED <<threadRow, locals, outcome, overdue, slotVars, fate, detector>>

ResetAfterError(r) ==
  /\ At(r, "reset", "unlock")
  /\ ResetThread(ThreadOf[r])
  /\ UNCHANGED <<lockedBy, runStatus, locals, outcome, overdue, slotVars, fate, detector>>

\* Mutant: release does not compare lockedBy with the run.
UnlockAnyHolder(r) ==
  /\ At(r, "unlock", "freeSlot")
  /\ lockedBy' = IF r \in holds THEN [lockedBy EXCEPT ![ThreadOf[r]] = NoRun] ELSE lockedBy
  /\ overdue'  = overdue \ {r}
  /\ holds'    = holds \ {r}
  /\ UNCHANGED <<status, phase, runStatus, seen, round, outcome, slotVars, fate, detector>>

\* ThreadLock.release: clears lockedBy only where it still names the run.
Unlock(r) ==
  LET t == ThreadOf[r] IN
  /\ At(r, "unlock", "freeSlot")
  /\ IF r \in holds
       THEN /\ lockedBy' = [lockedBy EXCEPT ![t] = IF @ = r THEN NoRun ELSE @]
            /\ overdue'  = overdue \ {r}
       ELSE UNCHANGED <<lockedBy, overdue>>
  /\ holds' = holds \ {r}
  /\ UNCHANGED <<status, phase, runStatus, seen, round, outcome, slotVars, fate, detector>>

\* A ThreadLockedError goes to the Slack handler, every other end to nobody.
FreeSlot(r) ==
  /\ pc[r] = "freeSlot"
  /\ slots'    = slots \ {r}
  /\ outlived' = outlived \ {r}
  /\ Leave(r, IF outcome[r] = "locked" THEN "react" ELSE "ended")
  /\ UNCHANGED <<threadRow, runStatus, seen, holds, outcome, overdue, fate, detector>>

\* handleMessage after a ThreadLockedError: await addReaction, injectMessage.
Inject(r) ==
  /\ At(r, "react", "ended")
  /\ fate' = [fate EXCEPT ![r] = "buffered"]
  /\ UNCHANGED <<threadRow, runStatus, locals, outcome, overdue, slotVars, detector>>
-----------------------------------------------------------------------------
(* StaleThreadDetector.detectAndCleanup: two updates, nothing between them.*)

\* Mutants: the cutoff is forgotten; only WAITING threads are looked at.
StaleWithoutCutoff == {t \in Threads : status[t] \in {"ACTIVE", "WAITING"}}
StaleWaitingOnly   == {t \in Threads : status[t] = "WAITING" /\ ~Busy(t)}

\* A run in flight writes its thread row at least once in staleTimeoutMs; any
\* other thread may have gone without a write for so long.
StaleCandidates == {t \in Threads : status[t] \in {"ACTIVE", "WAITING"} /\ ~Busy(t)}

\* Mutant: return when no thread was marked, before the second update.
MarkStaleEarlyReturn ==
  /\ "staleness" \in Events
  /\ detector = "idle"
  /\ \E stale \in SUBSET StaleCandidates :
       /\ status'   = [t \in Threads |-> IF t \in stale THEN "STALE" ELSE status[t]]
       /\ phase'    = [t \in Threads |-> IF t \in stale THEN "IDLE" ELSE phase[t]]
       /\ lockedBy' = [t \in Threads |-> IF t \in stale THEN NoRun ELSE lockedBy[t]]
       /\ detector' = IF stale = {} THEN "idle" ELSE "cancel"
  /\ UNCHANGED <<runStatus, pc, locals, outcome, overdue, slotVars, fate>>

MarkStale ==
  /\ "staleness" \in Events
  /\ detector = "idle"
  /\ \E stale \in SUBSET StaleCandidates :
       /\ status'   = [t \in Threads |-> IF t \in stale THEN "STALE" ELSE status[t]]
       /\ phase'    = [t \in Threads |-> IF t \in stale THEN "IDLE" ELSE phase[t]]
       /\ lockedBy' = [t \in Threads |-> IF t \in stale THEN NoRun ELSE lockedBy[t]]
  /\ detector' = "cancel"
  /\ UNCHANGED <<runStatus, pc, locals, outcome, overdue, slotVars, fate>>

CancelStaleRuns ==
  /\ detector = "cancel"
  /\ runStatus' = [r \in Runs |->
       IF runStatus[r] = "RUNNING" /\ status[ThreadOf[r]] = "STALE"
         THEN "CANCELLED" ELSE runStatus[r]]
  /\ detector' = "idle"
  /\ UNCHANGED <<threadRow, pc, locals, outcome, overdue, slotVars, fate>>

\* The second update rejects: start() logs it and waits for the next interval.
DetectorFails ==
  /\ "stepFails" \in Events
  /\ detector = "cancel"
  /\ detector' = "idle"
  /\ UNCHANGED <<threadRow, runStatus, pc, locals, outcome, overdue, slotVars, fate>>
-----------------------------------------------------------------------------
(* The environment.                                                        *)

LockTimeout(r) ==
  /\ "lockTimeout" \in Events
  /\ lockedBy[ThreadOf[r]] = r
  /\ r \notin overdue
  /\ overdue' = overdue \cup {r}
  /\ UNCHANGED <<threadRow, runStatus, pc, locals, outcome, slotVars, fate, detector>>

SlotTimeout(r) ==
  /\ "slotTimeout" \in Events
  /\ r \in slots \ outlived
  /\ outlived' = outlived \cup {r}
  /\ UNCHANGED <<threadRow, runStatus, pc, locals, outcome, overdue, slots, fate, detector>>

\* An awaited call of run() rejects: the database, Slack, the model, a tool.
StepFails(r) ==
  /\ "stepFails" \in Events
  /\ pc[r] \in BeforeTry \cup InTry
  /\ Throw(r, "error")
  /\ UNCHANGED <<threadRow, runStatus, round, holds, overdue, slotVars, fate, detector>>

\* The update of the lock row commits, and its answer never arrives.
LockReplyLost(r) ==
  LET t == ThreadOf[r] IN
  /\ "replyLost" \in Events
  /\ pc[r] = "takeLock"
  /\ Acquirable(t)
  /\ lockedBy' = [lockedBy EXCEPT ![t] = r]
  /\ phase'    = [phase EXCEPT ![t] = "THREAD_LOCK"]
  /\ Throw(r, "error")
  /\ UNCHANGED <<status, runStatus, round, holds, overdue, slotVars, fate, detector>>

\* The same of the Redis script that takes a slot.
SlotReplyLost(r) ==
  LET kept == slots \ outlived IN
  /\ "replyLost" \in Events
  /\ SharedSlots
  /\ pc[r] = "takeSlot"
  /\ Cardinality(kept) < MaxConcurrentRuns
  /\ slots' = kept \cup {r}
  /\ Throw(r, "error")
  /\ UNCHANGED <<threadRow, runStatus, round, holds, overdue, outlived, fate, detector>>

\* A write of the catch or finally block rejects; the code logs it and goes on.
CleanupFails(r) ==
  /\ "cleanupFails" \in Events
  /\ \/ /\ At(r, "failed", "reset")
        /\ UNCHANGED <<round, holds>>
     \/ /\ At(r, "reset", "unlock")
        /\ UNCHANGED <<round, holds>>
     \/ /\ r \in holds
        /\ At(r, "unlock", "freeSlot")
        /\ holds' = holds \ {r}
        /\ UNCHANGED round
     \/ /\ SharedSlots
        /\ pc[r] = "freeSlot"
        /\ Leave(r, IF outcome[r] = "locked" THEN "react" ELSE "ended")
        /\ UNCHANGED holds
  /\ UNCHANGED <<threadRow, runStatus, seen, outcome, overdue, slotVars, fate, detector>>

\* The bot process dies with all its runs, its message buffer and, unless they
\* live in Redis, its slots; then it starts again.
Crash ==
  LET lost == {r \in Runs : pc[r] \in InFlight} IN
  /\ "crash" \in Events
  /\ lost # {}
  /\ pc'       = [r \in Runs |-> IF r \in lost THEN "dead" ELSE pc[r]]
  /\ seen'     = [r \in Runs |-> NotRead]
  /\ round'    = [r \in Runs |-> 0]
  /\ holds'    = {}
  /\ slots'    = IF SharedSlots THEN slots ELSE {}
  /\ outlived' = IF SharedSlots THEN outlived ELSE {}
  /\ fate'     = [r \in Runs |-> IF fate[r] = "buffered" THEN "dropped" ELSE fate[r]]
  /\ detector' = "idle"
  /\ UNCHANGED <<threadRow, runStatus, outcome, overdue>>
-----------------------------------------------------------------------------
\* The steps of a run that its scheduler owes it.
Progress(r) ==
  \/ ReadPhase(r) \/ SetPhase(r)
  \/ EnsureNotLocked(r) \/ CreateRow(r) \/ TakeSlot(r) \/ SlotRefused(r)
  \/ TakeLock(r) \/ LockRefused(r)
  \/ Chat(r) \/ ApprovalResolved(r) \/ FinishTools(r) \/ Finish(r) \/ Park(r)
  \/ MarkFailed(r) \/ ResetAfterError(r) \/ Unlock(r) \/ FreeSlot(r)
  \/ Inject(r)

Faults(r) ==
  \/ StepFails(r) \/ LockReplyLost(r) \/ SlotReplyLost(r) \/ CleanupFails(r)
  \/ LockTimeout(r) \/ SlotTimeout(r)

Next ==
  \/ \E r \in Runs : Upsert(r) \/ Progress(r) \/ AskApproval(r) \/ Faults(r)
  \/ MarkStale \/ CancelStaleRuns \/ DetectorFails
  \/ Crash

Spec == Init /\ [][Next]_vars

\* Promises settle: every await of a run ends.  A response names finitely many
\* tools, so a round that can end does; the detector runs on an interval timer,
\* marks a thread that stays untouched, and its updates do not reject for ever.
Fairness ==
  /\ \A r \in Runs : WF_vars(Progress(r)) /\ SF_vars(FinishTools(r))
  /\ WF_vars(MarkStale) /\ SF_vars(CancelStaleRuns)
  /\ \A t \in Threads : SF_vars(MarkStale /\ status'[t] = "STALE")

FairSpec == Spec /\ Fairness
-----------------------------------------------------------------------------
(* Properties.                                                             *)

TypeOK ==
  /\ status \in [Threads -> {"absent", "ACTIVE", "WAITING", "STALE"}]
  /\ phase \in [Threads -> ThreadPhases]
  /\ lockedBy \in [Threads -> Runs \cup {NoRun}]
  /\ runStatus \in [Runs -> {"none", "RUNNING", "COMPLETED", "FAILED", "CANCELLED"}]
  /\ pc \in [Runs -> Labels]
  /\ seen \in [Runs -> ThreadPhases \cup {NotRead}]
  /\ round \in [Runs -> 0..MaxToolRounds]
  /\ outcome \in [Runs -> {"none", "ok", "locked", "busy", "error"}]
  /\ holds \subseteq Runs
  /\ overdue \subseteq Runs
  /\ slots \subseteq Runs
  /\ outlived \subseteq Runs
  /\ fate \in [Runs -> {"none", "buffered", "delivered", "dropped"}]
  /\ detector \in {"idle", "cancel"}

\* At most one run works on a thread under a lease that is not overdue: two runs
\* are inside the locked part of run() only when one of them has kept the lock
\* longer than lockTimeoutMs.  (lock.ts acquire and release, runner.ts 220-323)
LeaseExclusive ==
  \A r, s \in Runs :
    /\ r # s /\ ThreadOf[r] = ThreadOf[s]
    /\ pc[r] \in Working /\ pc[s] \in Working
    => r \in overdue \/ s \in overdue

\* The runs between acquiring their slot and releasing it, except those that
\* outlived the slot's time to live, never exceed the limit of the workspace.
\* (concurrency.ts acquire and release, runner.ts 215 and 316-323)
WithinLimit ==
  Cardinality({r \in Runs : pc[r] \in InTry \cup Cleanup /\ r \notin outlived})
    <= MaxConcurrentRuns

\* A call of run() that is over left nothing behind: no lock, no slot, whatever
\* step of it failed.  (the finally block, runner.ts 316-323 and 392-407)
EndedRunsHoldNothing ==
  \A r \in Runs : pc[r] \in {"react", "ended"} =>
    /\ lockedBy[ThreadOf[r]] # r
    /\ r \notin slots
    /\ r \notin holds

\* When no run of a thread is in flight and none died there, the thread is ready
\* for its next message: a run left it IDLE, or in TRIGGER when it was refused
\* before its try block.  (runner.ts 274-277 and 304-314)
ThreadLeftReady ==
  \A t \in Threads :
    /\ ~Busy(t)
    /\ \A r \in RunsOf(t) : pc[r] # "dead"
    => phase[t] \in {"IDLE", "TRIGGER"}

\* A run that is still at work has a RUNNING row: neither the stale detector nor
\* another run closes it.  (stale.ts 44-75 between runner.ts 211 and 262)
WorkingRunIsRunning ==
  \A r \in Runs :
    pc[r] \in {"takeSlot", "slotRefused"} \cup (InTry \ {"park"}) =>
      runStatus[r] = "RUNNING"

\* A closed row is never written again.  (runner.ts 262, 334-390, stale.ts 59-69)
ClosedRunStaysClosed ==
  [][\A r \in Runs :
       runStatus[r] \in {"COMPLETED", "FAILED", "CANCELLED"} =>
         runStatus'[r] = runStatus[r]]_vars

\* A run that no other run of its thread overlaps, and whose calls all succeed,
\* does not fail: the phases run() asks for, in every order execute() can ask
\* for them, are the ones VALID_TRANSITIONS allows.
OnlyFaultsFailRuns == \A r \in Runs : outcome[r] # "error"

\* Every run ends, whatever the model answers.  (the bound of runner.ts 564)
EveryRunEnds ==
  \A r \in Runs : pc[r] \in InFlight ~> pc[r] \in {"ended", "dead"}

\* A thread that a dead run left in the middle of a phase returns to IDLE.
WedgedThreadRecovers ==
  \A t \in Threads :
    ~Busy(t) /\ phase[t] \notin {"IDLE", "TRIGGER"} ~> Busy(t) \/ phase[t] = "IDLE"

\* A row that its run can no longer close is closed by the detector.
OrphanRowsAreClosed ==
  \A r \in Runs :
    pc[r] \in {"ended", "dead"} /\ runStatus[r] = "RUNNING" ~> runStatus[r] # "RUNNING"

\* The thread lock implements the abstract lease.
Lease == INSTANCE ThreadLease WITH holder <- lockedBy, believers <- holds
LeaseSpec == Lease!LeaseSpec

\* A call has one row and one end, and the two agree: run() implements the abstract
\* call.  Its caller has it still while the handler deals with a ThreadLockedError.
\* (runner.ts 166-324 with 337-390, stale.ts 59-69; read by scheduler.ts 211-229 and 327)
Told ==
  [r \in Runs |-> CASE pc[r] = "ended" -> outcome[r] [] pc[r] = "dead" -> "lost" [] OTHER -> "none"]

Call == INSTANCE RunCall WITH
  row <- runStatus, told <- Told,
  Rejects <- Events \cap {"stepFails", "replyLost", "cleanupFails"} # {}
CallSpec == Call!RunCallSpec

\* runner.ts 187-189: "Skip if another run is active (phase is not IDLE) to avoid
\* corrupting its state."  A run without the lock does not change the phase of a
\* thread on which another run works.
LoserLeavesWinnerAlone ==
  [][\A r \in Runs :
       pc[r] \in Working /\ phase'[ThreadOf[r]] # phase[ThreadOf[r]] => pc'[r] # pc[r]]_vars

\* docs/viktor-reference/06-deep-research-unknowns.md 458: a reply in an existing
\* thread is "Injected into running thread".  A message that was put in the buffer
\* reaches the model.
NoMessageDropped == \A r \in Runs : fate[r] # "dropped"
=============================================================================
