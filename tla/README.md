# A verification project for OpenViktor

OpenViktor is a Slack bot: every message that reaches it becomes an *agent run*, a loop of
calls to a language model and to tools, on the *thread* of the conversation. One Bun process
(`apps/bot`) handles all of it; runs, Slack handlers, the cron scheduler, tool calls and the clean-up
timers interleave at every `await` and meet in PostgreSQL rows, in a few in-memory maps, in the files of a
workspace, in Slack and other services, and optionally in Redis. What is hard to get right, and hard to test, is what happens between two
awaits. This directory models that.

The modules are checked with TLC on small instances. Every invariant and every action property the
passing runs check is also proved with TLAPS, for every value of the constants; what stays with TLC alone is liveness under
fairness. Paths below are relative to the
repository (`apps/bot/src/agent/runner.ts` is short: `runner.ts`). `PROJECT.json` holds the
same information in machine-readable form: components, runs, mutants, the source lines of every definition,
findings, hazards and theorems.

## 1. Inventory of the system

| Component | State | Operations | Meets | Hard behaviour | What makes it correct |
|---|---|---|---|---|---|
| **Agent run lifecycle** `agent/runner.ts` | rows `AgentRun`, `Message`, `ToolCall`; locals of `run()`; `messageBuffer` | `run`, `injectMessage` | thread rows, lock, limiter, gateway, approval gate | every await may reject or never return to a dead process; two messages for one thread | exclusive work on a thread; nothing left behind; a run ends; a row is closed once |
| **Thread phases** `thread/lifecycle.ts` | `Thread.phase` | `transitionPhase` | runs, detector | read, check, then compare-and-set | legal sequences only; a thread returns to `IDLE` |
| **Thread lock** `thread/lock.ts` | `Thread.lockedBy`, `lockedAt` | `acquire`, `release`, `isLocked` | runs, detector | lease that times out and is never renewed; lost replies | one holder in time; release only what is one's own |
| **Concurrency limiter** `thread/concurrency.ts` | in-memory map, or Redis sorted set | `acquire`, `release` | runs | eviction by age; leaked slots | never more than the limit; slots come back |
| **Stale detector** `thread/stale.ts` | `processing` flag; thread and run rows | `detectAndCleanup` on a timer | runs | two updates with awaits in between | orphans are repaired; work in progress is not touched |
| **Permission requests** `slack/interactions.ts`, `permissions/`, `pipedream-tools.ts` | `PermissionRequest` row, Slack message | request, approve, reject, submit, poll, expire | runs, users | a poller, several users and a deadline race for one row | one final decision; run, row and message agree |
| **Cron scheduler** `cron/scheduler.ts`, `cost-control.ts` | `CronJob` rows, `running` set, `ticking` flag | tick, trigger, dependency and cost checks | runs | overlapping triggers; restart between run and update | a due job runs once; failures disable; budgets hold |
| **Cron jobs, conditions, prompts** `cron/tools.ts`, `condition.ts`, `scheduler.ts` | `CronJob` rows, messages | create, delete, condition, prompts | scheduler, messages of threads | a job's own prompt is a message; `lastRunAt` is the end of a run | a job hears of what is written; a run of what it is to do |
| **Slack ingress** `slack/events.ts`, `middleware.ts`, `index.ts`, `cron/onboarding.ts` | seen-event map; workspace, member and thread rows | dedup, filters, resolution, onboarding, answer | runs, Slack | Slack redelivers, duplicates and reorders; every await of a handler may reject | a message is worked on once and its user learns how it ended |
| **Slack connections** `slack/connection-manager.ts`, `oauth.ts`, `resolve.ts` | map of clients, workspace rows | start-up, OAuth callback, first event | Slack | the row and the connection are not written in one step; HTTP is served before anything is connected | the connections are those of the rows |
| **Message tools and log** `tools/slack-comms.ts`, `slack-log.ts` | Slack messages, log files | send, replace, update, delete | runs | appends are not awaited; answers get lost | the log says what Slack shows |
| **Thread spawning** `thread-orchestration.ts`, `index.ts` | threads with paths | `create_thread`, `send_message_to_thread`, `wait_for_paths`, `list_running_paths` | runs | queries and posts of several calls about one path | what an agent was told it did has happened; waits end |
| **Conversation** `agent/context.ts`, `runner.ts`, `providers/` | thread messages, summary, turns of a request | window, summary, tool rounds, compression, provider formats | model, messages | the window moves, the summary lags, texts arrive between results | requests are complete and well-formed |
| **LLM gateway** `agent/gateway.ts`, `retry.ts`, `pricing.ts`, `providers/` | one provider per process; a call | chat, retries, errors, reasons to stop, price | runs, jobs | two layers of retries; three wordings of one error | limits, overflows and tool calls are recognised whichever provider speaks |
| **Usage budget** `usage/*`, dashboard settings | usage rows, `settings` column | `canRun`, `record`, read and write back settings | ingress, dashboard | a budget checked before and charged after a run; a settings object read and written back | overshoot is bounded; settings are kept |
| **Dashboard** `tool-gateway/dashboard-api.ts` | tables, read only | paged lists, totals | a bot that writes meanwhile | pages of a list that moves | the pages together show the table; totals agree |
| **Tool gateway and breaker** `tool-gateway/*`, `registry.ts` | token map, `registry.tools`, `failures` | resolve, execute, time out, register | runs of all workspaces | one token for all; counters read before and written after an await | a call belongs to its workspace; the breaker counts; a run is told the truth |
| **Integrations** `tools/integrations/*`, `integrations/watcher.ts` | accounts, rows, tools, skills, watches | sync, connect, disconnect, restore | Pipedream, registry | overlapping polls over stale lists; several accounts of an app | tools, rows and skills follow the accounts |
| **Spaces** `spaces/service.ts` and clients | `Space` rows, remote projects, a build directory | init, deploy, delete, calls of a deployed app | Convex, Vercel | remote and local steps fail separately | rows and remote projects agree; deleted stays deleted |
| **Workspace files** `file-edit.ts`, `file-write.ts`, `modal/app.py` | one file | edit, write | runs of a workspace | read, await, write in place; two implementations | an edit is exact and whole |
| **Shell commands** `bash.ts`, `modal/app.py`, `condition.ts` | a process, its pipes, two timers | run, time out, report | runs, script jobs, conditions | a helper that keeps the pipes; two timers | a command is reported as it ended |
| **Tool catalogue and SDK** `tools/index.ts`, `sdk/*`, `index.ts`, `modal/app.py` | registry, tools offered, files of the SDK | start-up, deployment of the SDK | environment, workspaces | configuration, two executors, a start cut off | what is offered runs, and is in the SDK |
| **Skills** `tools/skills.ts`, `skills/seed.ts`, `runner.ts` | skill rows, `activeTools` of a run | seed, write, read, hot-load | integrations, runs | overlapping seedings, tools that go while a run has them | versions count, tools are offered once |

How they interact: a Slack event passes the ingress filters and the budget and calls `run()`. `run()` upserts
the thread row, checks the lock, creates its run row, takes a slot, takes the lock, and goes
round between model and tools. The request is built from the window on the thread's messages and sent through the
gateway; tool calls go through the HTTP tool gateway to the registry, or to Modal. A tool that needs permission creates a `PermissionRequest`; the
run posts two buttons and polls the row, which the button handlers and a tool of other runs
write. `finally` gives lock and slot back. A message for a locked thread is put into
`messageBuffer`. The detector repairs, on a timer, what dead processes left. The scheduler
and the spawning tools call `run()` as the ingress does. Tools write what other components read: files, spaces,
integration accounts and with them registry and skills, cron jobs, threads.

## 2. Plan and state

Modules were written in the order of what the rest depends on. An abstract specification
comes with a component where the component promises something to others. The proofs of modules 1 to 3 have a module each
(`AgentRunsProofs`, ...); those of the others are gathered in `SlackProofs`, `ModelProofs`, `WorkspaceProofs` and `ToolsProofs`,
which also prove the compositions `MCSlack` and `MCTools`; `LiveProofs` is about the instances that `MCLive` and `MCCronScheduler` make.

| # | Module | What it is for | Run | State |
|---|---|---|---|---|
| 1 | `AgentRuns` (+ `ThreadPhase`, abstract `ThreadLease` and `RunCall`) | runs, phases, lock, slots, buffer, detector | `runs_overlap`, `runs_faults`, `live`, two findings | checked, 10 theorems |
| 2 | `ApprovalGate` (abstract `Permission`) | one permission request | `approval_race`, `live`, one finding | checked, 4 theorems |
| 3 | `CronScheduler` | timer and executions | `cron`, `live` | checked, 4 theorems |
| 4 | `SlackIngress`, `SlackConnections`, `SlackPosting` | between Slack and the bot | `slack` | checked, 4 theorems |
| 5 | `ThreadSpawning` | agents that start others | `slack`, one finding | checked, 2 theorems |
| 6 | `Conversation`, `ModelGateway` | what the model is asked and answers | `slack`, one finding | checked, 3 theorems |
| 7 | `UsageBudget`, `Dashboard` | money and what users see | `slack` | checked, 3 theorems |
| 8 | `ToolGateway`, `ToolCatalogue`, `Skills` | which tools there are and what a call does | `tools` | checked, 6 theorems |
| 9 | `Integrations`, `Spaces` | remote services | `tools` | checked, 2 theorems |
| 10 | `WorkspaceFiles`, `ShellCommands` | the sandbox | `tools` | checked, 4 theorems |
| 11 | `CronJobs` | what a job is told | `tools` | checked, 2 theorems |
| 12 | `MCSlack`, `MCTools`, `MCLive`, `MCCronScheduler` | the compositions the runs explore | `slack`, `tools`, `live`, `cron` | checked, 8 theorems |

What could still be proved is less about single modules than about what they promise each other: an abstract
specification of the breaker of `ToolGateway` (closed, open, reset only by removal), one of the deduplicator of `SlackIngress`
(a key is taken once in its ttl), each with the refinement as a theorem like `LeaseRefined` and `PermissionIsKept`.

## 3. AgentRuns and the code

`AgentRuns` is the core: `AgentRunner.run` with everything runs share. A *run* is one call of
`run()` made for one message; `pc[r]` names the await it is suspended at, so that a
database call, a Slack call or a model call is one step and everything between two awaits
belongs to the step before it.

| Variable | Code |
|---|---|
| `status`, `phase`, `lockedBy` | the columns of `Thread` |
| `runStatus` | `AgentRun.status`; `"none"` before the row exists |
| `pc`, `seen`, `round`, `holds`, `outcome` | locals of `run()`: the await, the phase `transitionPhase` has read, the loop counter of `execute`, `lockAcquired`, how the call ends |
| `overdue`, `outlived` | that a lock is older than `lockTimeoutMs`, a slot older than its ttl; clocks are kept as these two sets |
| `slots` | the limiter's map or sorted set (`SharedSlots` says which survives a crash) |
| `fate` | what became of a message given to `injectMessage` |
| `detector` | the point between the two updates of `detectAndCleanup` |

| Actions | Code |
|---|---|
| `ReadPhase`, `SetPhase` | `transitionPhase`, used at the eight awaits of `Target` |
| `Upsert`, `EnsureNotLocked`, `CreateRow`, `TakeSlot`, `SlotRefused` | `run()` up to its `try` |
| `TakeLock`, `LockRefused` | `acquireThreadLockOrCancel` with `ThreadLock.acquire` |
| `Chat`, `AskApproval`, `ApprovalResolved`, `FinishTools` | `execute`, `processToolRound`, the gate as one step |
| `Finish`, `Park` | the success path of the `try` block |
| `MarkFailed`, `ResetAfterError`, `Unlock`, `FreeSlot` | the `catch` and `finally` blocks |
| `Inject` | the Slack handler of a `ThreadLockedError` |
| `MarkStale`, `CancelStaleRuns`, `DetectorFails` | `StaleThreadDetector` |
| `LockTimeout`, `SlotTimeout`, `StepFails`, `LockReplyLost`, `SlotReplyLost`, `CleanupFails`, `Crash` | the environment, switched on by `Events` |

`ThreadPhase` is the table `VALID_TRANSITIONS`. `ThreadLease` says what the lock promises
without any of this: a lease per thread that can be acquired, released, abandoned, can expire
and be taken over. `LeaseSpec` in `AgentRuns` maps `lockedBy` to its holder and `lockAcquired` to
its believers.

`RunCall` is the other abstract specification: what `run()` promises to those who call it and to those
who read its row, without threads, locks, phases and slots. A call has one row (`row`) and one end (`told`), and the two
agree. An answer comes from a `COMPLETED` row. A `ThreadLockedError`, on which the Slack handlers buffer the message, comes from a call
that asked the model nothing. A `ConcurrencyExceededError` has closed its row. Any other error has a `FAILED` row, or none yet, unless the call that
should have written it, or one after it, rejected (`Rejects`). Nobody but the detector touches the row of a call
that is over, and the detector touches no other. `CallSpec` maps `runStatus` to the row and `outcome` to what the caller was told
once the call is over (`Told`). The scheduler (`scheduler.ts` 211-229 takes a call that returns for a completed one, its failure count at 327
reads the rows), the ingress and the spawning tools rely on this, and the modules about them take a run as few steps of their own.

Some consequences of the code that the model makes visible and that its properties
respect:

- the lock is never renewed, so exclusiveness holds *up to* a run that kept its lock longer than
  `lockTimeoutMs` (`LeaseExclusive` names the exception);
- a message that follows a crash finds the thread in the middle of a phase; its run fails with an invalid
  transition, and its catch block is what resets the thread;
- `Park` comes after the row was set to `COMPLETED`; when it rejects, the catch block records
  the same run `FAILED`. `RunCall` allows it where calls reject, and `ClosedRunStaysClosed` is proved
  for where they do not;
- when the answer to the lock's update is lost the lock stays until its timeout;
- creating the row and taking the slot come before the `try`: when the limiter rejects, the row
  stays `RUNNING` until the thread goes stale (`OrphanRowsAreClosed`);
- `createConcurrencyLimiter` hands its ttl to the Redis limiter only; the in-memory one keeps its default. The
  model leaves the length of either open.

One modelling assumption goes beyond the code: `StaleCandidates` takes it that a run in flight
writes its thread row at least once in `staleTimeoutMs` (24 hours). A run whose single await lasts longer
could have its row cancelled under it.

## 4. ApprovalGate and the code

`ApprovalGate` opens the step that `AgentRuns` takes as one (`AskApproval` to
`ApprovalResolved`). A *request* is a tool call that needs permission; `gate[q]` is the await its
run is at, `row[q]` the column, `text[q]` what the Slack message says. An *actor* is one press of
a button or one call of `submit_permission_request`; `at[c]` is the await of its handler,
`won` whether its update matched, `saw` the status it fetched afterwards. `late` is the clock.

| Actions | Code |
|---|---|
| `Request`, `Recall` | `requestPermission` of `pipedream-tools.ts`, first and second call |
| `Post`, `RecordMessage`, `Resume`, `Act` | `handlePermissionGate`, `reExecuteApprovedTool` |
| `Poll`, `Judge`, `ExpireRow` | `waitForApproval` |
| `Press`, `DecideRow`, `Reread`, `Redraw` | the button handlers: `interactions.ts` and, with `Managed`, `onInteraction` of `index.ts`, which has no text of its own for a request that expired unnoticed |
| `Submit`, `Lapse`, `Redeem` | `permissions/checker.ts` |
| `ExpiresAtPasses`, `StepFails`, `Crash` | clock and faults |

The approval code is stored in the row, and nothing in the code shows it to anyone; the event `"code"` stands for a
user who has it all the same. The poller's loop has the length of a request's validity and
starts after the row was created, so it never ends by its own clock before `expiresAt`.
`Permission` is the promise: asked, decided once, performed at most once and only when approved.

## 5. CronScheduler and the code

`CronScheduler` models the timer of `cron/scheduler.ts`, the executions it starts and the tools of
`cron/tools.ts` that trigger and disable jobs. An *execution* is one call of `executeJob` or
`executeScriptJob`; `pc[x]` is its await. The agent run inside it, which `AgentRuns` models, is
one step from `StartRun` to `EndRun` here: it ends in one of `Outcomes` of its job.

| Variable | Code |
|---|---|
| `enabled`, `due`, `runCount`, `lastStatus` | the columns of `CronJob`; `due` says whether `nextRunAt` is behind, ahead or null |
| `newer` | the order of `lastRunAt` between a job and those that depend on it |
| `history` | the last `MAX_CONSECUTIVE_FAILURES` agent runs of a job |
| `ticking`, `running` | the flag of `tick()` and the set of job ids |
| `copy` | the `CronJobRecord` an execution works on; for a job, the answer to the timer's query |
| `result`, `timed`, `job` | the status to be recorded, whether the timer started the execution, and its job |

| Actions | Code |
|---|---|
| `TickRead`, `TickLoop`, `TickFails` | `tick()`: its query, and the loop after it |
| `Trigger` | `triggerJob`, from `trigger_cron_job` |
| `Check`, `Skip` | `shouldJobRun` (budget, dependencies, condition: `JobDeclined`), `shouldScriptJobRun` (no budget: `ScriptDeclined`), `checkDependencies`, `updateJobAfterSkip` |
| `StartRun`, `EndRun` | `runner.run`, or the script's process |
| `RecordRun`, `RecordFails` | `updateJobAfterRun`, in the `try` and in the `catch` block |
| `CountFailures`, `Disable` | `checkConsecutiveFailures` |
| `Settle` | the execution's promise and its `finally` |
| `Delete` | `delete_cron_job` |
| `NextRunAtPasses`, `StepFails`, `Crash` | clock and faults |

What matters in this component is that everything works on copies. `tick()` reads whole rows and only
afterwards looks at `running`; `nextRunAt` moves only when an execution has ended. A query that is
answered before an execution writes its row, and looked at after it has left `running`, starts the job
again from the old row: its count is lost, so a job with `maxRuns` may run more often than that, and its
dependencies are compared with the old `lastRunAt`, so a job may run twice on one run of its dependency. `OvershootIsBounded` says how far this can go
when only the timer starts jobs: since the second copy is read after the first execution was seen to end, a copy
lags its row by one run at most, and a job has at most `2 * maxRuns` runs. The bound is reached. Triggers bypass `running`,
failing updates lose a count and a restart repeats a run; with any of them there is no such bound.

The promise of an execution that rejects in its `catch` block is not awaited. The runtime reports
an unhandled rejection, and the process goes on, which `Settle` covers, or dies, which is
`Crash`. `checkDependencies` reads its dependencies one after the other; the model reads them in one step.

## 6. The other components

`MCSlack`, `MCTools` and `MCLive` host several modules in one run: the modules share no state, `part` says which of them a
behaviour belongs to, and the variables of the others keep the value of one initial state. A run's state
space is the sum of its parts, never their product. Where the parts would interact in the code (a run calls a tool,
a post wakes a handler), the other side is one step with all the outcomes it can have for its caller.

A pattern recurs in their properties. The code promises something only in the absence of one or more specific
events (a second copy after the ttl, two operations that met, a lost answer). A property whose name ends in
*Explained* says: whenever the bad thing has been seen, one of these named events has happened. A history variable
(`expired`, `interlaced`, `blurred`, `overlaps`, `strayed`, `mixed`, ...) records the event and no action depends on it.

### Between Slack and the agent (`MCSlack`)

**`SlackIngress`**: `at[h]` is the await that the handler of delivery `h` is at. `Receive` is Bolt's listener or
`onEvent` with deduplicator and filters; `Participate`, `FindWorkspace` ... `CreateMember`, `Prepare`, `CountRuns`, `WithinBudget`/`OverBudget`
lead to the run; `UpsertThread`, `StartRun`, `FinishRun`, `RunThrows` are the run as its caller sees it;
`MarkOnboarded`, `FindIntro`, `CreateIntro`, `Reply`, `SayFails`, `Unreact`, `Catch` what follows; `Install...` the
proactive onboarding of an installation. Checked: a message answered twice was a mention in a thread of a self-hosted bot or its key had
expired; a mention nobody took up was preceded by its message copy, which took the key (`LostMentionExplained`, managed
mode); the hourglass is there only while somebody works; nobody is left in silence; a run's answer is what is told.

**`SlackConnections`**: `phase` is how far `main()` has come, `callback[i]` the await of installation `i`, `guests` the
handlers of first events. Two installations of a team bring two tokens. Checked: stored workspaces are connected once the bot is up, with the latest token unless
two writers met; events and presses are dropped only while a connection is being made; the bot refuses to start only
for one race, and starts the next time.

**`SlackPosting`**: a call is sent, takes effect in Slack, is answered or not, and then makes up to three appends nobody waits for.
Checked: every log line was said; the log of sent messages is backed by the others; when all is appended the last line about
a message is what Slack shows, with the exceptions named.

**`ThreadSpawning`**: `FindPath`, `PostRoot`, `CreateThread`, `RefusePath` are `create_thread`; `FindThread`,
`PostMessage`, `FindLatestRun`, `RecordUnlessWaking`, `RecordAndWake` are `send_message_to_thread`; `UpsertActive` ... `EndOfRun` the runs
they start; `PollPaths`, `WaitTimesOut` the wait. Checked: root messages without thread, and words that never arrive, have
one of the named causes; a path being worked on is listed; a wait that returns in time has paths that exist and rest.

**`Conversation`**: `talk` is the list of turns of the present request. `BeginTalk`, `UseStoredSummary`, `Summarize` are
`buildMessages`; `ToolRound`, `Overflow`, `TalkFails` the loop with compression. `OpenAIMessages` (of one turn) and `GeminiNames` are the translations.
Checked: tool calls are followed by exactly their answers in every provider's form, turn by turn, except where OpenAI's puts
an injected text before them; forgotten messages are fewer than `RESUMMARIZE_THRESHOLD`; the latest results are never compressed.

**`ModelGateway`**: one call through `chat`, `withRetry` and the Anthropic client's own retries. Checked: overflow is
recognised in three wordings; a call gives up only after the requests it is granted, and none sends more; tool calls are executed; a model
has the price of its most specific entry (`PriceIsTheModels`).

**`UsageBudget`**: `ReadLimit`, `ReadUsage`, `ReadGlobal` are `canRun`, `Record` is `tracker.record`, `ReadSettings` and
`WriteSettings` are the endpoints and onboarding that write a settings object back. Checked: a budget, a workspace's or (`usedByAll`) the global one, is overspent by no more than the calls in flight;
rounding is within half a cent per run; a setting is lost only to a draft read before the latest write.

**`Dashboard`**: pages of a list that is written meanwhile, and the totals as operators over ledgers. A cost is a whole number
of units, and a sum the number of all units (`SumOf`): that two groupings have the same sum is then that their units
correspond one to one. Checked: the pages miss and repeat nothing, with the
exceptions named; every grouping counts every run once.

### The tools (`MCTools`)

**`ToolGateway`**: `CallTool`, `Execute`, `Succeed`, `Fail`, `TimeOut`, `RemoteAnswers`, `ClientAborts`, and `Register`/`Unregister`
while calls are in flight. `token` is the one entry of the token map all runs use. Checked: a call acts for its own workspace unless an event of another came in between or
nobody registered it; the breaker counts unless calls overlapped; an open breaker stays open; what the run is told is true.

**`Integrations`**: each task does one operation, one await per step: `Poll`, `ListAccounts` ... `StoreSkill`, `FindAppAccounts` ... `DeleteSkill`, `Restart`.
Checked, where operations do not meet and no call fails: the tools, rows and skill of an app are there exactly for its ACTIVE accounts, except
where they were removed with another account's or with those of an app whose slug is a prefix.

**`Spaces`**: an initialisation, deployment or deletion is one call with one await per step, any of which may fail; `convex` and
`vercel` are the projects there. `FindBySecret` and `HandleToolCall` are the API a deployed app calls. Checked: living spaces have
their projects, orphans, resurrections and foreign builds have the named causes, the deployments' record is true, an app may call tools exactly while its space lives.

**`WorkspaceFiles`**: edits and writes read, truncate and fill. Between the truncation and the filling of one call another may have
filled the file; what is written then goes over the beginning of what is there (`WrittenOver`). Checked: an undisturbed edit is exact but for JavaScript's replacement
patterns; no text is lost but to an overlap or a crash.

**`ToolCatalogue`**: `StartUp` under several environments, then the deployment of the SDK workspace by workspace. Checked: every offered tool has an executor,
with the credential of its team, and is in the SDK, but for the gaps listed. What prompts name is offered, with three exceptions:
a name no tool has (`MisnamedTool`, `onboarding.ts:130`), the management tools where Pipedream is not configured (`prompt.ts:162`, `:223`),
and `quick_ai_search` where neither the model's nor the search service is configured.

**`CronJobs`**: conditions over the messages of people and jobs, and which prompt reaches the run. Checked: a job does not wake itself except after a crash or a trigger;
a message no condition was asked about came while the job ran; instructions are lost only for two types of jobs.

**`ShellCommands`**: a command, a helper that holds its pipes, the timer of the command and of its caller. Checked: a command given as ended can print no
more; output is cut with a note but for two cases; readers conclude what the command did.

**`Skills`**: rows with versions, overlapping seedings, an app's skill and `activeTools`. Checked: no write is lost from the version; no tool is
offered twice; an offered tool exists unless its app was disconnected; seeding is complete.

## 7. Runs

| Run | Instance | What it shows |
|---|---|---|
| `runs_overlap` | 3 messages, 1 thread, limit 2, 1 round | the lock is exclusive, the limit holds, a quiet thread is ready, the detector leaves working runs alone, calls implement `RunCall` (one row, one end, and a closed row stays closed), in every interleaving with timeouts |
| `runs_faults` | 2 messages, limit 1 in Redis, 2 rounds, failing calls and clean-up, lost replies, crashes, fair | the lock refines the lease; runs end, wedged threads recover, orphan rows are closed |
| `approval_race` | 1 request, 3 actors, all events | decision final, run, row and message agree, refines `Permission` |
| `cron` | an agent job with `maxRuns` 2 and a script with `maxRuns` 1; or a healthy job beside one that fails, room for one | one execution of a job in flight; counts stay in range; the overshoot is bounded; no failure around a run disables a healthy job |
| `live` | four parts: a gate with 2 actors, a timer with 3 jobs, 2 serial runs with 2 rounds, 2 overlapping runs under faults | gates end and approvals are carried out; due jobs are served and broken ones disabled; undisturbed runs succeed; a finished call holds nothing |
| `slack` | eight parts, section 6 | from an event to what users see |
| `tools` | eight parts, section 6 | the tools behind a run |
| `runs_loser`, `runs_inject`, `approval_lost`, `thread_wait`, `job_model` | smallest instances, nothing fails | *violated*: see findings |

**Bounds.** Three messages on one thread are enough for a holder, a run that takes over an
overdue lock, and a third that meets what both left; two are enough for every pairwise race and
keep the runs with all faults small. A limit of 1 makes two runs compete for a slot; a limit of 2 with three
messages fills and refuses. The phases alone keep two messages from working on a thread together; the lock is what
keeps the third out, after a loser has reset the phase, so exclusiveness is checked with three. One tool round already gives every phase order inside a round; two
add the way back from `TOOL_LOOP` to `REASONING` and round again. Requests share nothing
but a crash, so one request with three actors (two that race and one that comes late) covers
the gate. For the scheduler, two jobs that share room for one
fill the limit, and the same two with room for both run side by side; `Execs` is as many executions as
are in flight together. The limit on failures is 2 where a streak matters; `RunBound` caps the counts at the largest `maxRuns` used. One restart leaves behind
everything a second one could.

In `slack`: two messages, each delivered up to twice and handled by two handlers at a time, are the two copies of a mention and a rival;
two installations of one team beside a team that installs nothing, with `RestartBound` restarts; three calls of message tools; two creations, a sending and a wait on one path, with `WaitPolls` polls;
a window of 3 and a threshold of 2 with at most `HistoryBound` messages move window and summary several times; three callers
of two workspaces overspend together, `RecordBound` records round up and down; three rows on pages of one fill three pages.
In `tools`: a run of each of two workspaces and a breaker that opens at 2; two accounts of an app and one of an app whose slug begins with its name, one task
at a time, since `CONSTRAINT Orderly` stops where operations met or failed (the
properties of `Integrations` say nothing there, and `ClashExplained` is checked up to that point); three scenarios of four space calls each; two edits and a write with texts up to `SizeBound`; `StartBound` starts;
`ChatBound` messages of people; `PrintBound` units of output where two are kept; one built-in skill with two seeders and `WriteBound` writes. Every
hazard is a race of two, and each part has room for the two and a bystander, or says above why a third adds nothing. Symmetry sets
permute messages, actors, executions or handlers of the same kind, only in runs without liveness.

**Deadlock** is not checked (`CHECK_DEADLOCK FALSE`) because the instances have finitely many
messages, requests, calls and enabled jobs: a system that has handled them all stops, and should.

**Fairness.** `FairSpec` of `AgentRuns`: an await settles, so `Progress(r)` is weakly fair; a model response names
finitely many tools and each may ask for approval once, so a round ends
and `FinishTools` is strongly fair (approvals may come in between); the detector runs on `setInterval`, its
updates do not fail for ever (`SF` of its two steps), and a thread nobody writes for
`staleTimeoutMs` is marked. `MCFairness` of `MCLive` is that of `ApprovalGate` and `CronScheduler` for the part explored: the steps of the gate's run are weakly fair
(the polling loop is driven by a timer), the interval timer ticks for ever, the awaits of an
execution settle, and time passes; all weak. Presses are not fair: a user
need not come. Nothing obliges anybody to trigger or to delete a job. The other runs check safety only.

**Mutants.** Next to a definition stands, in a comment *Mutant*, the form a plausible bug would give it; no action
uses it. For every property of a passing run one such form is recorded that makes the run fail.

## 8. Findings

1. `runs_loser`. The comment at `runner.ts:187-189` says a second run on a thread is skipped so as not to corrupt
   its state. Two messages that pass `ensureThreadNotLocked` together both enter the
   `try`; the one that loses resets the thread to `WAITING`/`IDLE` in its catch block, without the
   lock, and the winner's next `transitionPhase` fails: its run is recorded `FAILED`.
2. `runs_inject`. A reply to a working thread is to be injected into the running thread
   (`docs/viktor-reference/06-deep-research-unknowns.md:458`). The buffer is drained into the
   conversation after a tool round only; what arrives after the last round is logged and dropped at
   `runner.ts:284-290`.
3. `approval_lost`. The button handler writes "Approved by ... Executing ..." when its update matched. A run that
   had read `PENDING` and finds `expiresAt` passed ignores that its own update matched
   nothing, and reports a timeout (`runner.ts:734-739`).
4. `thread_wait`. `wait_for_paths` is offered as a tool that "Returns when all paths are completed"
   (`thread-orchestration.ts:73`). It counts `COMPLETED` and `STALE` (`:347`); nothing writes `COMPLETED`, a finished run leaves
   `WAITING`. The wait lasts until its timeout.
5. `job_model`. "Run OpenViktor entirely offline with Ollama" (`docs/self-hosting.md:139`). `getModelForTier`
   names a Claude model for every job without one (`cost-control.ts:75`), and the gateway has one provider,
   which does not serve it.

Met on the way, and without a run of their own:

- the heartbeat and discovery jobs of `README.md:37` are never seeded;
- `README.md:43` promises isolated workspaces, while all runs share the gateway token `"local"`, which stands
  for the workspace of the latest event (`ForeignCallExplained` names the exception);
- `dependent_paths` of `create_thread` (`thread-orchestration.ts:46`) is accepted and ignored;
- `infra/modal/app.py:7` says all tools are implemented there; `MissingToolExplained` names those that are not;
- `file_edit` is an "exact string replacement" (`file-edit.ts:9`), and reads `$&` and the like in the new text;
- the SDK is "pre-installed" (`general_tools.md:9`), but not for workspaces younger than the last start, nor after a start that was cut off;
- output of a command that fills the limit exactly at the end of a chunk is cut without the note (`bash.ts:52`), and Modal never notes a cut;
- `settings.costControl`, the budget of the cron jobs, is written by nobody;
- the Sentry webhook uses `slackApp` (`index.ts:1001`), which is declared nowhere: a complete payload is answered 400; its
  member `"system"` (`index.ts:1047`) does not exist;
- the onboarding prompt names a tool `coworker_join_slack_channel`; the tool is `coworker_join_slack_channels`.

**Further hazards.** `PROJECT.json` lists the forty hazards that matter most. The properties above also cover lesser ones at
`runner.ts:190, 215, 372, 444, 517, 676, 711`, `lock.ts:15`, `lifecycle.ts:4`, `checker.ts:65`, `scheduler.ts:112, 141, 508, 520`,
`deploy.ts:23`, `index.ts:256, 452, 692, 1112`, `app.py:1356`, `connection-manager.ts:223`, `events-api.ts:71`, `oauth.ts:180`, `context.ts:54`,
`registry.ts:129, 133`, `client.ts:15`, `resolve.ts:27`, `events.ts:374`, `sync.ts:29, 167`, `watcher.ts:66`, `retry.ts:92`,
`slack-comms.ts:538, 616`, `slack-log.ts:83`, `service.ts:113, 176, 192, 317`, `convex-client.ts:110`, `thread-orchestration.ts:46, 251, 322`,
`tracker.ts:28`, `dashboard-api.ts:260, 402, 572`, `cron/tools.ts:160`, `heartbeat.ts:69`, `prompt.ts:98`.

## 9. Proofs

Eight modules hold the theorems: one each for `AgentRuns`, `ApprovalGate` and `CronScheduler`; `WorkspaceProofs` (files, commands, spaces,
skills); `ToolsProofs` (gateway, catalogue, cron jobs, integrations, and the composition `MCTools`);
`SlackProofs` (ingress, connections, log, spawning); `ModelProofs` (conversation, gateway, budget, dashboard, and
the composition `MCSlack`); `LiveProofs` (the instances inside `MCLive` and `MCCronScheduler`). They hold for every set of threads, runs, actors, jobs,
calls, files, tools or workspaces, every limit and every choice of events.

Every safety theorem has the same shape: an inductive invariant, a lemma that `Init` implies it, one that every step keeps it
(one step of the proof per action), one that it implies what the run checks. The last column says what the property alone lacks: why it is not inductive.

### The core

| Theorem | Statement | Argument |
|---|---|---|
| `TypeCorrect` (AgentRuns) | `[]TypeOK` | with `RoundInv`: a run inside a tool round has one left, or `round` would leave its range |
| `LeaseIsExclusive` | `[]LeaseExclusive` | `LockInv`: a working run holds (`holds`), a holder is `lockedBy` its thread unless overdue. `LeaseExclusive` alone does not say why the second run cannot acquire |
| `LeaseRefined` | `LeaseSpec` | every action is one of the lease's or a stutter, given `LockInv` |
| `ThreadsAreLeftReady` | `[]ThreadLeftReady` if `"cleanupFails"` is not in `Events` | `ReadyInv`: a thread in any other phase has a run between its first transition and its reset; a fault that skips the reset breaks it, hence the hypothesis |
| `WorkingRunsAreRunning` | `[]WorkingRunIsRunning` | `RunningInv`: also says that a stale thread has no run in flight that the detector's second update could cancel |
| `LimitIsKept` | `[]WithinLimit` | `SlotInv`: runs in the `try` that are not outlived are in `slots`, and unexpired slots number at most the limit; `SlotCounting` for the cardinalities |
| `ClosedRunsStay` | `ClosedRunStaysClosed` if `"stepFails"` is not in `Events` | `ClosedInv`: who enters the catch block with anything but a `ThreadLockedError` has a `RUNNING` row. A rejecting `Park` is what the hypothesis excludes |
| `CallsAreAnswered` | `CallSpec` | `RowInv`: what the row can say at each await before the `try`, in the clean-up and at the end, given how the call is going to end; with `RunningInv` for the awaits in between and for what the detector meets. Every step is one of the call's or a stutter (`CallStep`) |
| `EndedRunsHold` | `[]EndedRunsHoldNothing` if neither replies get lost nor the clean-up fails | `HoldInv`: a lock belongs to a run whose `lockAcquired` is true, a slot to one that has still to release it, or to one that died with it |
| `UndisturbedRunsSucceed` | `[]OnlyFaultsFailRuns` without overlap, crash, rejected call or lost reply | `SerialInv`, of three parts that need each other: runs of a thread follow each other (`AloneInv`), the phase is the one the await calls for (`PhaseInv`, with the lemma `PhasesMatch` about `VALID_TRANSITIONS`), a lock seen free stays free (`FreeInv`) |
| `TypeCorrect` (ApprovalGate) | `[]TypeOK` | inductive as it is |
| `AnswersAgree`, `MessagesTellTruth` | `[]AnswerAgrees`, `[]MessageTellsTruth` | lemma `DecisionsAreFinal` (no step changes a decided row), then `ReadInv` and `HandlerInv`: no copy of a decision ever goes stale |
| `PermissionIsKept` | `PermissionSpec` | every step asks, settles, performs or stutters (`PromiseStep`), given `GateInv`: an open gate has an approved row, a call that was made is over |
| `TypeCorrect` (CronScheduler) | `[]TypeOK` | `TypeInv`: an execution past `idle` has a job and a copy (`ExecInv`), and the count of a copy of an enabled or running job is below its limit (`CountInv`), which is why the count stays in its range |
| `TimerKeepsItsLimit` | `[]TimerIsExclusive` | `TimerInv`: the jobs of timed executions are exactly `running`, one to one, and `running` has at most `MaxConcurrent` members; the injection turns the bound on jobs into one on executions |
| `HealthyJobsStay` | `[]HealthyJobStaysEnabled` | `HealthyInv`: no `FAILED` in the history of a job that always completes, so no streak, so never at `disable` |
| `OvershootStaysBounded` | `[]OvershootIsBounded` | `TimedInv`: every copy lags its row by at most one run (`LagsByOne`), and the history is at most twice the count. Needs that only the timer starts executions and that no update is lost |

### Between Slack, the model and the user

| Theorem | Statement | Argument |
|---|---|---|
| `MessagesAnswered` | `[]MessagesAreAnsweredOnce` | `IngressInv`: a handler's delivery has put its key into the map (`SubjectInv`), the first copy of a message to arrive has it taken up if it is the mention (`FirstInv`), two handlers of one key mean an expired entry (`OnceInv`), what the user was told follows from the await (`HandlerInv`), an hourglass has a handler at work (`HourglassInv`) |
| `ConnectionsFollow` | `[]ConnectionsFollowRows` | `LinkInv`: two writers of a team at work at once have been noted (`MeetingInv`); for each team what row, snapshot, connection and callbacks hold of its token (`ManagedInv`); a self-hosted bot serves one team (`SelfHostedInv`) |
| `DropsAreExplained` | `DroppedEventExplained` | from the same invariant, for each step that drops something |
| `LogFollows` | `[]LogMatchesSlack` | `PostInv`: what a call has still to append is the end of its list of files (`AppendsInv`), lines and messages have a call (`StageInv`, `LinesInv`, `BackedInv`); of a message whose calls neither overlapped nor were lost, one call is being logged or the log is up to date (`FollowInv`) |
| `SpawnsAccountedFor` | `[]SpawningIsAccountedFor` | `SpawnInv`: what a call was told, its root message, its words and its run tell one story (`CallInv`), a thread has a creation behind it and a lock a run at work (`ThreadInv`, `PathInv`) |
| `WaitsReturn` | `WaitReturnsInTime` | `ThreadInv`: a run past its start keeps its thread `ACTIVE` or `WAITING`, so a wait that returned met none |
| `RequestsComplete` | `[]RequestsAreComplete` | `TalkInv` with `PairInv`: the turn after one with calls holds their results in order, through rounds, compression, injected texts and a new window (`WindowOfMessages`), for all window sizes |
| `ResultsWhole` | `LatestResultsAreWhole` | compression leaves the last turn alone, and `PairInv` survives it |
| `CallsSettled` | `[]ModelCallsAreSettled` | `GatewayInv`: the number of requests is that of full rounds of the client's repetitions below each attempt (`CountInv`); a failure carries its provider's words after all repetitions (`FailedInv`); an answer with calls has the reason that says so (`RespondedInv`) |
| `SpendingBounded` | `[]SpendingIsBounded` | `UsageInv`: what may still be spent is kept for those that have passed the check (`RoomInv`, `GlobalRoomInv`, with the cardinality of those that passed), so the sum over callers becomes a product |
| `SettingsKept` | `SerialSettingsAreKept` | `DraftInv`: a draft is what the column holds or is known to be outdated |
| `DashboardShows` | `[]DashboardShowsAll` | `PagesInv`: what is unseen lies beyond what was read (`BeyondInv`), the total promises a page to whoever has not seen all (`TotalInv`), while nothing moves the list shown is a prefix (`PrefixInv`). The totals: `PartsAddUp`, a bijection between the units of the whole and those of its parts |
| `SlackTyped`, `SlackStepsHold` | `[]SlackTypeOK`, `SlackSteps` of `MCSlack` | `SlackPartsFollow`: every behaviour of the composition is one of each module, so their theorems hold in it |

### The tools

| Theorem | Statement | Argument |
|---|---|---|
| `ToolTypeCorrect`, `CallsAccountedFor` | `[]ToolTypeOK`, `[]CallsAreAccountedFor` | `ToolInv`: the shared token is that of every run in flight unless it strayed (`TokenInv`), what a run holds of a call by where it is (`CallInv`) |
| `OpenBreakerStays` | `OpenBreakerStaysOpen` | only the end of a call that is being executed, or the tool's removal, writes its count |
| `OfferedToolsRun`, `SdkStays` | `[]ToolsAreOffered`, `SdkIsWrittenOnce` | `CatalogueInv`: registry and snapshot follow from the environment (`RegistryInv`), an SDK without tools is being written or was given up (`SdkInv`) |
| `JobsHear`, `NoJobIsItsOwnNews` | `[]JobsHearTheirPrompt`, `NoJobWakesItself` | `CronInv` with `Hearing`: what a job has seen, what came amid its execution and what its next check will ask for cover all messages, and since its last run it has written none |
| `ToolsFollow` | `[]ToolsFollowAccounts` | `IntegrationInv`: how far the one operation at work has come with the tools of its app (`ToolFacts`), that what it knows of the accounts is still so (`AccountFacts`), and that all other apps are whole. Nothing is said once operations met or a call failed, as in the property |
| `SpacesFollow` | `[]SpacesFollowProjects` | `SpaceInv`: what an initialisation has made by its stage (`StartedInv`), that a call's row was created (`TargetInv`), what a deletion has taken (`DeletedInv`), whose build the directory holds (`BuildInv`) |
| `FilesKeepEdits`, `FreshReads` | `[]EditsAreKept`, `StaleReadExplained` | `FilesInv`: while nobody writes the file is what the calls made of it; a call that has seen all texts and emptied the file finds it empty when it fills it |
| `WholeEdits` | `InexactEditExplained` | `ArgsInv`, and `PlainReplacement`: without a pattern the expansion of the new text is the new text, for texts of any length |
| `ShellReports` | `[]CommandsAreReported` | `ShellInv`: kept and printed output differ only where a note, or a named exception, says so |
| `SkillsKept` | `[]SkillsAreKept` | `SkillsInv`: a version counts the writes since its creation (`RowsInv`), a tool is in the list as often as it was loaded (`ToolListInv`), a seeding has dealt with what it has not still to do (`Seeding`) |
| `ToolsTyped`, `WorkspaceKept`, `ToolsKnown`, `ToolsStepsHold` | the properties `MCTools` states of several modules | `PartsFollow`, as for `MCSlack` |
| `RunsClean` | `[]RunsEndClean` of `MCLive` | the two instances of `AgentRuns` satisfy its assumptions; expanded, `MCLive`'s copies of its definitions and those the proofs are about agree, so `UndisturbedRunsSucceed` and `EndedRunsHold` apply |
| `HealthySurvives` | `[]HealthyJobSurvives` of `MCCronScheduler` | the same for the second instance of `CronScheduler` and `HealthyJobsStay` |

### Assumptions

All are named `ASSUME`s of the modules that declare the constants, and TLC evaluates them in every run. Sets that are counted are finite: runs,
jobs and executions, callers and workspaces with their costs and budgets, built-in skills and an app's tools, rows of
the dashboard and the runs of its ledgers. Functions between constants
(`ThreadOf`, `AboutOf`, `HomeOf`, `TenantOf`, `TeamOf`, `PathsOf`, ...) are functions of that type; limits, thresholds and bounds are natural
numbers, positive where zero makes no sense; events are among the known ones; a placeholder (`NoRun`, `NoInit`, `"none"`, ...) is none of what it
stands for; kinds of calls are disjoint. About the code itself they say that a script does not end `CANCELLED` (`JobsAssumption`), that the names of models
are not empty (`GatewayAssumption`), that a run costs a whole number of units (`DashboardAssumption`), that texts are finite sequences of
strings (`FilesAssumption`) and that a wait names at least one path (`SpawnAssumption`).

### How the proofs go round the prover's limits

The induction theorems of the library take an operator as a parameter, which the provers cannot instantiate. Where an argument is by
induction over data it is by a least or last counterexample (`HasGreatest`, `MaxIsGreatest`, from the well-foundedness of the natural
numbers and of finite subsets); sums are cardinalities of sets of units, compared by bijections (`PartsAddUp`, `CostsAddUp`);
the recursive function behind `Expansion` is unfolded through its `CHOOSE` with a witness (`PlainReplacement`). No module with a theorem
reaches a `RECURSIVE` operator.

Three things came to light in the proofs and were corrected in the models: guards of two `CASE` arms that overlapped in `ApprovalGate`, a text that is written over another call's
after both had emptied the file (`WrittenOver`), and an order of OpenAI's messages that was stated for a whole request and holds turn by turn.

### Only model-checked

The five liveness properties under fairness: `EveryRunEnds`, `WedgedThreadRecovers`, `OrphanRowsAreClosed`, `GateIsSettled` and
`JobsAreServed`. They need `ENABLED`, which is out of the prover's reach, and stay with TLC on `runs_faults` and `live`.
`ThreadLeftReady`, `WorkingRunIsRunning` and `WithinLimit` are checked without call failures in `runs_overlap` and hold under every `Events` their theorems
allow.

## 10. Not modelled

- `thread/spawner.ts` and `thread/paths.ts`: exported and called by nothing.
- The remaining built-in tools (Slack administration, GitHub, Jira, learnings and the other API clients, upload and download of files): one remote
  call or one row each. That they are registered, who executes them and how their calls are routed, counted and timed out is modelled.
- The session middleware, configuration and schema: no state; they appear as constants and initial states.
- Text: Markdown conversion (`mrkdwn.ts`), the wording of prompts and Slack blocks, tool schemas, token counts, and the translation of
  messages into a provider's format beyond which results it keeps and where.
- The web and landing applications: user interface.
- The Sentry webhook: it does not get past the undeclared variable. The token cache of the Pipedream client.
- Inside modelled parts: the arithmetic of schedules (`cron-parser`) and prices, the sum behind the cron budget, what a condition script computes beyond
  `hasNewSlackMessages`, path resolution and tools that only read, `reconnect()` and `updateToken()`, which nobody calls,
  `activeCount` and `shutdown` of the limiter, listings of apps, spaces and jobs. The model's own tool arguments are taken not to name an approved request.
