------------------------------- MODULE CronJobs -------------------------------
(***************************************************************************)
(* What a cron job runs for and what its agent is told: the tools of       *)
(* apps/bot/src/cron/tools.ts that keep the jobs, the condition helper     *)
(* hasNewSlackMessages of cron/condition.ts, buildJobPrompt and executeJob *)
(* of cron/scheduler.ts and the system prompt they lead to in              *)
(* agent/prompt.ts.  CronScheduler has the timer itself, its limits and    *)
(* its bookkeeping of failures.                                            *)
(*                                                                         *)
(* A job has at most one execution of the timer and one of the trigger     *)
(* tool in flight.  Time is the number of user messages stored so far.     *)
(***************************************************************************)
EXTENDS Integers, Sequences, FiniteSets

CONSTANTS
  CronNames,     \* names of jobs of one workspace
  Conditional,   \* those created with a script that asks hasNewSlackMessages
  Triggered,     \* those the trigger tool is used on
  Provisioned,   \* sets of <<name, type>>: the rows there may be at the start
  CronHappenings,\* "crash", "runFails", "sandboxFails"
  ChatBound      \* bound on the messages stored

CronTypes == {"CUSTOM", "HEARTBEAT", "DISCOVERY", "CHANNEL_INTRO"}

ASSUME CronAssumption ==
  /\ Conditional \subseteq CronNames /\ Triggered \subseteq CronNames
  /\ \A rows \in Provisioned : rows \subseteq CronNames \X CronTypes
  /\ CronHappenings \subseteq {"crash", "runFails", "sandboxFails"}
  /\ ChatBound \in Nat
  /\ "person" \notin CronNames

VARIABLES
  cronRow,   \* the type of each job, "none" if there is no row of the name
  cronOn,    \* jobs whose enabled column is true
  chat,      \* who wrote each message of role "user": a person, or a job's prompt
  lastRunAt, \* lastRunAt of the conditional jobs' rows, -1 for null
  cronAt,    \* the await each execution is suspended at
  sinceOf,   \* lastRunAt of the row the timer's query has returned
  prompt,    \* what the user message and the system prompt of a run say
  heeded,    \* the messages there were when a job's condition last held
  amid,      \* those stored since while an execution of the job was past its check
  mixed,     \* jobs triggered while, or before, the timer ran them
  cut        \* jobs an execution of which was cut off by a crash

cronVars == <<cronRow, cronOn, chat, lastRunAt, cronAt, sinceOf, prompt, heeded,
              amid, mixed, cut>>

CronExecs == (CronNames \X {"timer"}) \cup (Triggered \X {"trigger"})
JobNamed(e) == e[1]
PastCheck == {"start", "running"}
NothingSaid == <<"nothing", "nothing">>

-----------------------------------------------------------------------------
CronInit ==
  /\ \E rows \in Provisioned :
       cronRow = [n \in CronNames |->
                    IF \E t \in CronTypes : <<n, t>> \in rows
                    THEN CHOOSE t \in CronTypes : <<n, t>> \in rows ELSE "none"]
  /\ cronOn    = {n \in CronNames : cronRow[n] # "none"}
  /\ chat      = <<>>
  /\ lastRunAt = [n \in Conditional |-> -1]
  /\ cronAt    = [e \in CronExecs |-> "idle"]
  /\ sinceOf   = [n \in Conditional |-> -1]
  /\ prompt    = [e \in CronExecs |-> NothingSaid]
  /\ heeded    = [n \in Conditional |-> 0]
  /\ amid      = [n \in Conditional |-> {}]
  /\ mixed     = {}
  /\ cut       = {}

MoveCron(e, from, to) == cronAt[e] = from /\ cronAt' = [cronAt EXCEPT ![e] = to]

\* A message of role "user" is stored, by the run of a person or of a job.
StoreMessage(who) ==
  /\ Len(chat) < ChatBound
  /\ chat' = Append(chat, who)
  /\ amid' = [n \in Conditional |->
                IF \E e \in CronExecs : JobNamed(e) = n /\ cronAt[e] \in PastCheck
                THEN amid[n] \cup {Len(chat) + 1} ELSE amid[n]]

PersonWrites ==
  /\ StoreMessage("person")
  /\ UNCHANGED <<cronRow, cronOn, lastRunAt, cronAt, sinceOf, prompt, heeded, mixed, cut>>
-----------------------------------------------------------------------------
(* The tools.                                                              *)

\* create_cron_job; the row of a deleted job still has its name.
CreateJob(n) ==
  /\ cronRow[n] = "none"
  /\ cronRow' = [cronRow EXCEPT ![n] = "CUSTOM"]
  /\ cronOn' = cronOn \cup {n}
  /\ UNCHANGED <<chat, lastRunAt, cronAt, sinceOf, prompt, heeded, amid, mixed, cut>>

\* delete_cron_job, by a name that has a row.
DeleteJob(n) ==
  /\ cronRow[n] # "none"
  /\ cronOn' = cronOn \ {n}
  /\ UNCHANGED <<cronRow, chat, lastRunAt, cronAt, sinceOf, prompt, heeded, amid, mixed, cut>>

\* trigger_cron_job looks neither at enabled nor at the condition.
TriggerJob(n) ==
  /\ n \in Triggered /\ cronRow[n] # "none"
  /\ MoveCron(<<n, "trigger">>, "idle", "start")
  /\ mixed' = mixed \cup ({n} \cap Conditional)
  /\ UNCHANGED <<cronRow, cronOn, chat, lastRunAt, sinceOf, prompt, heeded, amid, cut>>
-----------------------------------------------------------------------------
(* The condition.                                                          *)

FallDue(n) ==
  /\ n \in cronOn
  /\ MoveCron(<<n, "timer">>, "idle", "check")
  /\ sinceOf' = [k \in Conditional |-> IF k = n THEN lastRunAt[n] ELSE sinceOf[k]]
  /\ UNCHANGED <<cronRow, cronOn, chat, lastRunAt, prompt, heeded, amid, mixed, cut>>

\* A job that never ran asks for the last three hours, whatever was said in them.
Horizon(n) == IF sinceOf[n] = -1 THEN 0..Len(chat) ELSE {sinceOf[n]}

\* preComputeHelperData: any user message of the workspace counts.
HasNewMessages(since) == Len(chat) > since

\* The copy of the row goes with the question.
ForgetSince(n) == sinceOf' = [k \in Conditional |-> IF k = n THEN -1 ELSE sinceOf[k]]

ConditionHolds(n) ==
  /\ n \in Conditional => \E since \in Horizon(n) : HasNewMessages(since)
  /\ MoveCron(<<n, "timer">>, "check", "start")
  /\ heeded' = [k \in Conditional |-> IF k = n THEN Len(chat) ELSE heeded[k]]
  /\ amid' = [k \in Conditional |-> IF k = n THEN {} ELSE amid[k]]
  /\ ForgetSince(n)
  /\ UNCHANGED <<cronRow, cronOn, chat, lastRunAt, prompt, mixed, cut>>

\* Mutant: a skipped job counts as one that ran.
SkipAsRun(n) ==
  /\ n \in Conditional
  /\ \/ "sandboxFails" \in CronHappenings
     \/ \E since \in Horizon(n) : ~HasNewMessages(since)
  /\ MoveCron(<<n, "timer">>, "check", "idle")
  /\ lastRunAt' = [lastRunAt EXCEPT ![n] = Len(chat)]
  /\ ForgetSince(n)
  /\ UNCHANGED <<cronRow, cronOn, chat, prompt, heeded, amid, mixed, cut>>

\* It does not hold, or the script fails: updateJobAfterSkip leaves lastRunAt alone.
SkipJob(n) ==
  /\ n \in Conditional
  /\ \/ "sandboxFails" \in CronHappenings
     \/ \E since \in Horizon(n) : ~HasNewMessages(since)
  /\ MoveCron(<<n, "timer">>, "check", "idle")
  /\ ForgetSince(n)
  /\ UNCHANGED <<cronRow, cronOn, chat, lastRunAt, prompt, heeded, amid, mixed, cut>>
-----------------------------------------------------------------------------
(* The prompt, the run and what is recorded of it.                         *)

\* buildJobPrompt: the user message is the task, or points at the system prompt.
UserMessage(type) == IF type = "CUSTOM" THEN "task" ELSE "followSystemPrompt"

\* The promptContext of the trigger holds no prompt but the heartbeat's; a
\* CHANNEL_INTRO is a CRON, without a task.
SystemPrompt(type) ==
  CASE type = "HEARTBEAT" -> "heartbeat"
    [] type = "DISCOVERY" -> "interactive"
    [] OTHER              -> "cronGuidelines"

\* buildSystemPrompt, and runner.run stores the user message.
StartJobRun(e) ==
  /\ MoveCron(e, "start", "running")
  /\ prompt' = [prompt EXCEPT ![e] = <<UserMessage(cronRow[JobNamed(e)]),
                                       SystemPrompt(cronRow[JobNamed(e)])>>]
  /\ StoreMessage(JobNamed(e))
  /\ UNCHANGED <<cronRow, cronOn, lastRunAt, sinceOf, heeded, mixed, cut>>

\* Mutant: lastRunAt is the time the run began.
RecordStart(e) ==
  /\ \/ MoveCron(e, "running", "idle")
     \/ "runFails" \in CronHappenings /\ MoveCron(e, "start", "idle")
  /\ lastRunAt' = [n \in Conditional |-> IF n = JobNamed(e) THEN heeded[n] ELSE lastRunAt[n]]
  /\ prompt' = [prompt EXCEPT ![e] = NothingSaid]
  /\ UNCHANGED <<cronRow, cronOn, chat, sinceOf, heeded, amid, mixed, cut>>

\* updateJobAfterRun, of a run that ended or that failed before it began.
RecordJobRun(e) ==
  /\ \/ MoveCron(e, "running", "idle")
     \/ "runFails" \in CronHappenings /\ MoveCron(e, "start", "idle")
  /\ lastRunAt' = [n \in Conditional |-> IF n = JobNamed(e) THEN Len(chat) ELSE lastRunAt[n]]
  /\ prompt' = [prompt EXCEPT ![e] = NothingSaid]
  /\ UNCHANGED <<cronRow, cronOn, chat, sinceOf, heeded, amid, mixed, cut>>

CrashInRuns ==
  /\ "crash" \in CronHappenings
  /\ \E e \in CronExecs : cronAt[e] # "idle"
  /\ cut' = cut \cup {n \in Conditional : \E e \in CronExecs : JobNamed(e) = n /\ cronAt[e] # "idle"}
  /\ cronAt' = [e \in CronExecs |-> "idle"]
  /\ prompt' = [e \in CronExecs |-> NothingSaid]
  /\ UNCHANGED <<cronRow, cronOn, chat, lastRunAt, sinceOf, heeded, amid, mixed>>
-----------------------------------------------------------------------------
CronNext ==
  \/ PersonWrites \/ CrashInRuns
  \/ \E n \in CronNames : \/ CreateJob(n) \/ DeleteJob(n) \/ TriggerJob(n)
                          \/ FallDue(n) \/ ConditionHolds(n) \/ SkipJob(n)
  \/ \E e \in CronExecs : StartJobRun(e) \/ RecordJobRun(e)

CronSpec == CronInit /\ [][CronNext]_cronVars
-----------------------------------------------------------------------------
(* Properties.                                                             *)

CronTypeOK ==
  /\ cronRow \in [CronNames -> CronTypes \cup {"none"}]
  /\ cronOn \subseteq CronNames
  /\ chat \in Seq(CronNames \cup {"person"}) /\ Len(chat) <= ChatBound
  /\ lastRunAt \in [Conditional -> -1..ChatBound]
  /\ sinceOf \in [Conditional -> -1..ChatBound]
  /\ cronAt \in [CronExecs -> PastCheck \cup {"idle", "check"}]
  /\ heeded \in [Conditional -> 0..ChatBound]
  /\ amid \in [Conditional -> SUBSET (1..ChatBound)]
  /\ mixed \cup cut \subseteq Conditional

\* A conditional job that has run before is started by the timer only if someone
\* else, a person or another job, has written since: its own prompt wakes it only
\* after a crash or a trigger.  (condition.ts 77-90 with scheduler.ts 301-312)
NoJobWakesItself ==
  [][\A n \in Conditional \ (mixed \cup cut) :
       cronAt[<<n, "timer">>] = "check" /\ cronAt'[<<n, "timer">>] = "start" /\ lastRunAt[n] # -1
         => \E i \in lastRunAt[n] + 1 .. Len(chat) : chat[i] # n]_cronVars

\* A person's message that no condition of the job was asked about, and that none
\* will be, arrived while the job ran: lastRunAt is the end of a run, not its
\* start.  A triggered run moves it as well.  (scheduler.ts 301-312)
MissedMessageExplained ==
  \A n \in Conditional \ mixed : \A i \in 1..Len(chat) :
    (chat[i] = "person" /\ heeded[n] < i /\ i <= lastRunAt[n]) => i \in amid[n]

\* A run whose user message refers it to the system prompt finds its instructions
\* there, but for the two types whose prompt is built and then left out of the
\* trigger, DISCOVERY and CHANNEL_INTRO.  (scheduler.ts 167-203)
LostInstructionsExplained ==
  \A e \in CronExecs :
    (prompt[e][1] = "followSystemPrompt" /\ prompt[e][2] # "heartbeat") =>
      cronRow[JobNamed(e)] \in {"DISCOVERY", "CHANNEL_INTRO"}

\* A conditional job hears of what is written, and a run of what it is to do, but
\* for what the conjuncts name.
JobsHearTheirPrompt == MissedMessageExplained /\ LostInstructionsExplained
=============================================================================
