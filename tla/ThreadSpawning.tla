--------------------------- MODULE ThreadSpawning ---------------------------
(***************************************************************************)
(* Agents that start, address and await one another: create_thread,        *)
(* send_message_to_thread and wait_for_paths of                            *)
(* packages/tools/src/tools/thread-orchestration.ts, and the agent runs    *)
(* that spawnAgentRun of apps/bot/src/index.ts starts for the first two.   *)
(*                                                                         *)
(* A thread is known by its path.  Every call that starts a run lends the  *)
(* run its name; words[p] are the calls whose content the messages of a    *)
(* thread hold, which its next run reads.  Module AgentRuns has the run in *)
(* detail; what the rest of the system does to a thread is not repeated.   *)
(***************************************************************************)
EXTENDS Naturals, FiniteSets

CONSTANTS
  Creations,    \* calls of create_thread
  Sendings,     \* calls of send_message_to_thread
  Waits,        \* calls of wait_for_paths
  PathOf,       \* the path a creation or a sending is about
  PathsOf,      \* the paths a wait is for
  WaitPolls,    \* bound on the polls of a wait
  SpawnEvents   \* "postFails", "busy": see below

SpawnCalls == Creations \cup Sendings
Paths == {PathOf[x] : x \in SpawnCalls}

ASSUME SpawnAssumption ==
  /\ Creations \cap Sendings = {} /\ "nobody" \notin SpawnCalls /\ WaitPolls \in Nat
  /\ PathsOf \in [Waits -> SUBSET Paths \ {{}}]
  /\ SpawnEvents \subseteq {"postFails", "busy"}

VARIABLES
  asked,      \* what each call has come to
  roots,      \* creations whose root message is in Slack
  pathStatus, \* Thread.status of each path, "none" when there is no row
  spawned,    \* what each call's agent run has come to
  pathLock,   \* the call whose run holds the lock of a thread
  runRows,    \* calls whose run has an AgentRun row
  heard,      \* sendings that have found a run to record their message with
  words,      \* what the messages of each thread hold
  waiting,    \* what each wait has come to
  polls       \* polls each wait has made

spawnVars == <<asked, roots, pathStatus, spawned, pathLock, runRows, heard, words, waiting, polls>>
runState  == <<pathStatus, spawned, pathLock, runRows, words>>
waits     == <<waiting, polls>>
-----------------------------------------------------------------------------
Nobody == "nobody"

SpawnInit ==
  /\ asked      = [x \in SpawnCalls |-> "idle"]
  /\ roots      = {}
  /\ pathStatus = [p \in Paths |-> "none"]
  /\ spawned    = [x \in SpawnCalls |-> "none"]
  /\ pathLock   = [p \in Paths |-> Nobody]
  /\ runRows    = {}
  /\ heard      = {}
  /\ words      = [p \in Paths |-> {}]
  /\ waiting    = [w \in Waits |-> "polling"]
  /\ polls      = [w \in Waits |-> 0]

Ask(x, from, to) == asked[x] = from /\ asked' = [asked EXCEPT ![x] = to]
RunOf(x, from, to) == spawned[x] = from /\ spawned' = [spawned EXCEPT ![x] = to]

RunStages == {"requested", "upserted", "counted", "starting", "working"}
Unfinished(p) == {x \in SpawnCalls : PathOf[x] = p /\ spawned[x] \in RunStages}
-----------------------------------------------------------------------------
(* create_thread.                                                          *)

FindPath(c) ==
  /\ Ask(c, "idle", IF pathStatus[PathOf[c]] = "none" THEN "post" ELSE "refused")
  /\ UNCHANGED <<roots, runState, heard, waits>>

PostRoot(c) ==
  /\ Ask(c, "post", "create")
  /\ roots' = roots \cup {c}
  /\ UNCHANGED <<runState, heard, waits>>

\* postSlackMessage turns every failure into an error for the agent.
PostFails(x) ==
  /\ "postFails" \in SpawnEvents
  /\ Ask(x, "post", "refused")
  /\ UNCHANGED <<roots, runState, heard, waits>>

\* The row, unique by path; then the run, whose dependent_paths go unused.
CreateThread(c) ==
  /\ Ask(c, "create", "ok")
  /\ pathStatus[PathOf[c]] = "none"
  /\ pathStatus' = [pathStatus EXCEPT ![PathOf[c]] = "ACTIVE"]
  /\ spawned' = [spawned EXCEPT ![c] = "requested"]
  /\ UNCHANGED <<roots, pathLock, runRows, heard, words, waits>>

RefusePath(c) ==
  /\ Ask(c, "create", "refused")
  /\ pathStatus[PathOf[c]] # "none"
  /\ UNCHANGED <<roots, runState, heard, waits>>
-----------------------------------------------------------------------------
(* send_message_to_thread.                                                 *)

FindThread(s) ==
  /\ pathStatus[PathOf[s]] # "none"
  /\ Ask(s, "idle", "post")
  /\ UNCHANGED <<roots, runState, heard, waits>>

PostMessage(s) ==
  /\ Ask(s, "post", "findRun")
  /\ UNCHANGED <<roots, runState, heard, waits>>

\* recordMessageInThread: the latest run's messages get the content.
FindLatestRun(s) ==
  /\ Ask(s, "findRun", "record")
  /\ heard' = IF \E x \in runRows : PathOf[x] = PathOf[s] THEN heard \cup {s} ELSE heard
  /\ UNCHANGED <<roots, runState, waits>>

\* Mutant: a message that wakes a run is not recorded.
RecordUnlessWaking(s, triggerReply) ==
  /\ Ask(s, "record", "ok")
  /\ words' = IF s \in heard /\ ~triggerReply THEN [words EXCEPT ![PathOf[s]] = @ \cup {s}] ELSE words
  /\ spawned' = [spawned EXCEPT ![s] = IF triggerReply THEN "requested" ELSE @]
  /\ UNCHANGED <<roots, pathStatus, pathLock, runRows, heard, waits>>

\* trigger_reply is true unless the agent says otherwise.
RecordAndWake(s, triggerReply) ==
  /\ Ask(s, "record", "ok")
  /\ words' = IF s \in heard THEN [words EXCEPT ![PathOf[s]] = @ \cup {s}] ELSE words
  /\ spawned' = [spawned EXCEPT ![s] = IF triggerReply THEN "requested" ELSE @]
  /\ UNCHANGED <<roots, pathStatus, pathLock, runRows, heard, waits>>
-----------------------------------------------------------------------------
(* runner.run of a call, awaited by nobody.                                *)

UpsertActive(x) ==
  /\ RunOf(x, "requested", "upserted")
  /\ pathStatus' = [pathStatus EXCEPT ![PathOf[x]] = "ACTIVE"]
  /\ UNCHANGED <<asked, roots, pathLock, runRows, heard, words, waits>>

\* ensureThreadNotLocked.
CheckLock(x) ==
  /\ RunOf(x, "upserted", IF pathLock[PathOf[x]] = Nobody THEN "counted" ELSE "rejected")
  /\ UNCHANGED <<asked, roots, pathStatus, pathLock, runRows, heard, words, waits>>

\* The row; no slot for the run cancels it, outside the try block.
CreateRun(x) ==
  /\ \/ RunOf(x, "counted", "starting")
     \/ "busy" \in SpawnEvents /\ RunOf(x, "counted", "rejected")
  /\ runRows' = runRows \cup {x}
  /\ UNCHANGED <<asked, roots, pathStatus, pathLock, heard, words, waits>>

\* The holder of the lock stores its prompt and reads the thread's messages.
TakeLock(x) ==
  /\ RunOf(x, "starting", "working")
  /\ pathLock[PathOf[x]] = Nobody
  /\ pathLock' = [pathLock EXCEPT ![PathOf[x]] = x]
  /\ words' = [words EXCEPT ![PathOf[x]] = @ \cup {x}]
  /\ UNCHANGED <<asked, roots, pathStatus, runRows, heard, waits>>

\* The catch block of the loser resets the thread all the same.
LoseLock(x) ==
  /\ RunOf(x, "starting", "rejected")
  /\ pathLock[PathOf[x]] # Nobody
  /\ pathStatus' = [pathStatus EXCEPT ![PathOf[x]] = "WAITING"]
  /\ UNCHANGED <<asked, roots, pathLock, runRows, heard, words, waits>>

\* Completed or failed: the thread waits for the next message.
EndOfRun(x) ==
  /\ RunOf(x, "working", "ended")
  /\ pathStatus' = [pathStatus EXCEPT ![PathOf[x]] = "WAITING"]
  /\ pathLock' = [pathLock EXCEPT ![PathOf[x]] = Nobody]
  /\ UNCHANGED <<asked, roots, runRows, heard, words, waits>>

\* StaleThreadDetector, a day after anything was written to the row.
GoStale(p) ==
  /\ pathStatus[p] \in {"ACTIVE", "WAITING"}
  /\ \A x \in Unfinished(p) : spawned[x] = "requested"
  /\ pathStatus' = [pathStatus EXCEPT ![p] = "STALE"]
  /\ UNCHANGED <<asked, roots, spawned, pathLock, runRows, heard, words, waits>>
-----------------------------------------------------------------------------
(* wait_for_paths and list_running_paths.                                  *)

\* Nothing in the program writes COMPLETED.
CountsAsCompleted(p) == pathStatus[p] \in {"COMPLETED", "STALE"}

\* Mutant: the deadline is not looked at.
PollForEver(w) ==
  /\ waiting[w] = "polling"
  /\ polls' = [polls EXCEPT ![w] = @ + 1]
  /\ waiting' = [waiting EXCEPT ![w] =
                   IF \A p \in PathsOf[w] : CountsAsCompleted(p) THEN "returned" ELSE @]
  /\ UNCHANGED <<asked, roots, runState, heard>>

PollPaths(w) ==
  /\ waiting[w] = "polling" /\ polls[w] < WaitPolls
  /\ polls' = [polls EXCEPT ![w] = @ + 1]
  /\ waiting' = [waiting EXCEPT ![w] =
                   IF \A p \in PathsOf[w] : CountsAsCompleted(p) THEN "returned" ELSE @]
  /\ UNCHANGED <<asked, roots, runState, heard>>

\* timed_out, or the shorter timeout of the tool registry.
WaitTimesOut(w) ==
  /\ waiting[w] = "polling" /\ polls[w] = WaitPolls
  /\ waiting' = [waiting EXCEPT ![w] = "timedOut"]
  /\ UNCHANGED <<asked, roots, runState, heard, polls>>

RunningPaths == {p \in Paths : pathStatus[p] \in {"ACTIVE", "WAITING"}}
-----------------------------------------------------------------------------
SpawnedStep(x) ==
  UpsertActive(x) \/ CheckLock(x) \/ CreateRun(x) \/ TakeLock(x) \/ LoseLock(x) \/ EndOfRun(x)

SpawnNext ==
  \/ \E c \in Creations : FindPath(c) \/ PostRoot(c) \/ PostFails(c) \/ CreateThread(c) \/ RefusePath(c)
  \/ \E s \in Sendings :
       \/ FindThread(s) \/ PostMessage(s) \/ PostFails(s) \/ FindLatestRun(s)
       \/ \E triggerReply \in BOOLEAN : RecordAndWake(s, triggerReply)
  \/ \E x \in SpawnCalls : SpawnedStep(x)
  \/ \E p \in Paths : GoStale(p)
  \/ \E w \in Waits : PollPaths(w) \/ WaitTimesOut(w)

SpawnSpec == SpawnInit /\ [][SpawnNext]_spawnVars
-----------------------------------------------------------------------------
(* Properties.                                                             *)

SpawnTypeOK ==
  /\ asked \in [SpawnCalls -> {"idle", "post", "create", "findRun", "record", "ok", "refused"}]
  /\ pathStatus \in [Paths -> {"none", "ACTIVE", "WAITING", "STALE"}]
  /\ spawned \in [SpawnCalls -> RunStages \cup {"none", "ended", "rejected"}]
  /\ pathLock \in [Paths -> SpawnCalls \cup {Nobody}]
  /\ roots \subseteq Creations /\ heard \subseteq Sendings /\ runRows \subseteq SpawnCalls
  /\ words \in [Paths -> SUBSET SpawnCalls]
  /\ waiting \in [Waits -> {"polling", "returned", "timedOut"}]
  /\ polls \in [Waits -> 0..WaitPolls]

\* A root message without a thread ("Spawning agent thread...") is left only by
\* a creation whose path another one took between its two queries.
OrphanRootExplained ==
  \A c \in roots : asked[c] = "refused" =>
    \E d \in Creations \ {c} : PathOf[d] = PathOf[c] /\ asked[d] = "ok"

Told(x)  == asked[x] = "ok"
Rival(x) == \E y \in SpawnCalls \ {x} : PathOf[y] = PathOf[x] /\ spawned[y] \in {"working", "ended"}

\* What an agent was told it had sent reaches the thread: it is among the
\* messages its next run reads, or its own run has yet to store it.  It is lost
\* only when no run could be found to record it with and the run it was to wake
\* was not asked for, met a rival for the thread or found no slot.
LostWordsExplained ==
  \A x \in SpawnCalls :
    (Told(x) /\ x \notin words[PathOf[x]] /\ spawned[x] \notin RunStages) =>
      /\ x \notin heard
      /\ \/ spawned[x] = "none" /\ x \in Sendings
         \/ spawned[x] = "rejected" /\ (Rival(x) \/ "busy" \in SpawnEvents)

\* list_running_paths names every path a run is working on, whatever the runs
\* that lost its lock have written (thread-orchestration.ts:391), and a path is
\* STALE only while none is past its start.
WorkingPathsAreListed ==
  \A x \in SpawnCalls : spawned[x] = "working" =>
    PathOf[x] \in RunningPaths /\ pathLock[PathOf[x]] = x

Finished(p) == pathStatus[p] # "none" /\ Unfinished(p) = {}

\* A wait returns without a timeout only when its paths exist and none of them
\* is being worked on.
WaitReturnsInTime ==
  [][\A w \in Waits : waiting[w] = "polling" /\ waiting'[w] = "returned" =>
       \A p \in PathsOf[w] : \A x \in Unfinished(p) : spawned[x] = "requested"]_spawnVars

\* The tool is offered as one that blocks "until all specified thread paths finish
\* execution" (thread-orchestration.ts): a poll that finds them finished ends it.
\* It does not: a finished path is WAITING, which the poll does not count.
WaitSeesFinishedPaths ==
  [][\A w \in Waits :
       polls'[w] # polls[w] /\ (\A p \in PathsOf[w] : Finished(p)) => waiting'[w] = "returned"]_spawnVars

\* What was posted, told and started in a thread is accounted for, however the
\* calls and the runs of a path interleave.
SpawningIsAccountedFor == OrphanRootExplained /\ LostWordsExplained /\ WorkingPathsAreListed
=============================================================================
