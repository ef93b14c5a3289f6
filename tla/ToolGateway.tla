---------------------------- MODULE ToolGateway ----------------------------
(***************************************************************************)
(* A tool call of an agent run, from ToolGatewayClient.call through the    *)
(* HTTP gateway (apps/bot/src/tool-gateway/server.ts) to ToolRegistry and  *)
(* its circuit breaker (packages/tools/src/registry.ts).                   *)
(*                                                                         *)
(* The runs of all workspaces share one process, one registry and one      *)
(* gateway token, "local", which stands for the workspace whose Slack      *)
(* event came last.                                                        *)
(***************************************************************************)
EXTENDS Naturals, FiniteSets

CONSTANTS
  Tenants,      \* workspaces
  Callers,      \* agent runs in flight together, one tool call at a time each
  TenantOf,     \* the workspace of each run
  BuiltIns,     \* tools registered under their plain name
  Remote,       \* built-in tools a Modal backend executes
  Scoped,       \* integration tools, registered per workspace
  Resynced,     \* workspaces whose integration tools come and go meanwhile
  Threshold,    \* CIRCUIT_BREAKER_THRESHOLD
  ToolEvents    \* what may go wrong: "toolTimeout", "clientAbort", "resync"

ASSUME ToolAssumption ==
  /\ TenantOf \in [Callers -> Tenants]
  /\ Remote \subseteq BuiltIns
  /\ Resynced \subseteq Tenants
  /\ BuiltIns \cap Scoped = {}
  /\ Threshold \in Nat \ {0}
  /\ "default" \notin Tenants /\ "all" \notin Tenants
  /\ ToolEvents \subseteq {"toolTimeout", "clientAbort", "resync"}

GlobalKeys == {"all"} \X BuiltIns
ScopedKeys == Tenants \X Scoped
Keys       == GlobalKeys \cup ScopedKeys
NoKey      == <<"none", "none">>

VARIABLES
  tool,        \* the tool the runs call: breakers of two tools share nothing
  token,       \* TOKEN_WORKSPACE_MAP["local"]
  catalogue,   \* keys of registry.tools
  failures,    \* registry.failures, 0 where absent
  callAt,      \* where the call of each run is
  actsFor,     \* the workspace of the call's context
  keyOf,       \* the key the call was resolved to
  sawFailures, \* failCount as execute() read it
  answer,      \* what the run was told of the call
  effects,     \* runs whose call has done its work
  lateEffects, \* runs whose call did its work after they were told
  streak,      \* consecutive failures of each key, until its calls overlap
  overlapped,  \* keys a call of which ended on a count it had read too early
  strayed      \* runs that did not register their workspace, or during which
               \* the event of another one came

toolVars == <<tool, token, catalogue, failures, callAt, actsFor, keyOf, sawFailures,
              answer, effects, lateEffects, streak, overlapped, strayed>>
breaker == <<failures, streak, overlapped>>
outcome == <<answer, effects, lateEffects>>
routing == <<actsFor, keyOf, sawFailures>>
tenancy == <<tool, token, strayed>>
-----------------------------------------------------------------------------
ToolInit ==
  /\ tool \in BuiltIns \cup Scoped
  /\ token       = "default"
  /\ catalogue   = Keys
  /\ failures    = [k \in Keys |-> 0]
  /\ callAt      = [c \in Callers |-> "idle"]
  /\ actsFor     = [c \in Callers |-> "none"]
  /\ keyOf       = [c \in Callers |-> NoKey]
  /\ sawFailures = [c \in Callers |-> 0]
  /\ answer      = [c \in Callers |-> "none"]
  /\ effects     = {}
  /\ lateEffects = {}
  /\ streak      = [k \in Keys |-> 0]
  /\ overlapped  = {}
  /\ strayed     = {}

Goes(c, from, to) == callAt[c] = from /\ callAt' = [callAt EXCEPT ![c] = to]

\* The run hears of its call, unless the client has given up on it.
Answered(c, what) ==
  answer' = [answer EXCEPT ![c] = IF @ = "none" THEN what ELSE @]

Executing(k) == {c \in Callers : callAt[c] = "executing" /\ keyOf[c] = k}
-----------------------------------------------------------------------------
(* Runs.                                                                   *)

\* registerWorkspaceToken("local", workspaceId) of an event, then its run.
StartRunOf(c) ==
  /\ Goes(c, "idle", "thinking")
  /\ token' = TenantOf[c]
  /\ strayed' = strayed \cup {d \in Callers : callAt[d] # "idle" /\ TenantOf[d] # TenantOf[c]}
  /\ UNCHANGED <<tool, catalogue, breaker, routing, outcome>>

\* Scheduled and spawned runs register nothing.
StartScheduled(c) ==
  /\ Goes(c, "idle", "thinking")
  /\ strayed' = strayed \cup {c}
  /\ UNCHANGED <<tool, token, catalogue, breaker, routing, outcome>>

\* The run has its answer and goes on, or is over.
Forget(c) ==
  /\ actsFor'     = [actsFor EXCEPT ![c] = "none"]
  /\ keyOf'       = [keyOf EXCEPT ![c] = NoKey]
  /\ sawFailures' = [sawFailures EXCEPT ![c] = 0]
  /\ answer'      = [answer EXCEPT ![c] = "none"]
  /\ effects'     = effects \ {c}
  /\ lateEffects' = lateEffects \ {c}

Continue(c) ==
  /\ \E from \in {"ended", "abandoned"} : Goes(c, from, "thinking")
  /\ Forget(c)
  /\ UNCHANGED <<tenancy, catalogue, breaker>>

EndRun(c) ==
  /\ Goes(c, "thinking", "idle")
  /\ strayed' = strayed \ {c}
  /\ UNCHANGED <<tool, token, catalogue, breaker, routing, outcome>>
-----------------------------------------------------------------------------
(* The gateway.                                                            *)

\* client.call arrives: validateAuth turns the token into a workspace, and
\* registry.resolve prefers the workspace's own tool.
Candidates == {<<token, tool>>, <<"all", tool>>} \cap catalogue

CallTool(c) ==
  /\ actsFor' = [actsFor EXCEPT ![c] = token]
  /\ IF Candidates = {}
       THEN /\ Goes(c, "thinking", "ended")
            /\ Answered(c, "refused")
            /\ keyOf' = keyOf
       ELSE /\ Goes(c, "thinking", "resolved")
            /\ keyOf' = [keyOf EXCEPT ![c] =
                           IF <<token, tool>> \in Candidates THEN <<token, tool>> ELSE <<"all", tool>>]
            /\ answer' = answer
  /\ UNCHANGED <<tenancy, catalogue, breaker, sawFailures, effects, lateEffects>>

\* Mutant: the breaker never opens.
NeverOpen(k) == k \in catalogue /\ k[2] \notin Remote

\* After ensureWorkspace: execute() looks the tool up and reads the breaker.  A
\* tool that is not localOnly (any more) goes to the backend by its plain name.
Runnable(k) == k \in catalogue /\ k[2] \notin Remote /\ failures[k] < Threshold

Execute(c) ==
  /\ Runnable(keyOf[c])
  /\ Goes(c, "resolved", "executing")
  /\ sawFailures' = [sawFailures EXCEPT ![c] = failures[keyOf[c]]]
  /\ UNCHANGED <<tenancy, catalogue, breaker, actsFor, keyOf, outcome>>

CallModal(c) ==
  /\ keyOf[c] \in catalogue /\ keyOf[c][2] \in Remote
  /\ Goes(c, "resolved", "remote")
  /\ UNCHANGED <<tenancy, catalogue, breaker, routing, outcome>>

Refuse(c) ==
  /\ ~Runnable(keyOf[c]) /\ keyOf[c][2] \notin Remote
  /\ Goes(c, "resolved", "ended")
  /\ Answered(c, "refused")
  /\ UNCHANGED <<tenancy, catalogue, breaker, routing, effects, lateEffects>>
-----------------------------------------------------------------------------
(* The executor and the race with its timeout.                             *)

\* The tool does its work, whoever still waits for it.
TakesEffect(c) ==
  /\ callAt[c] \in {"executing", "remote", "abandoned"}
  /\ c \notin effects
  /\ effects' = effects \cup {c}
  /\ lateEffects' = IF answer[c] = "none" THEN lateEffects ELSE lateEffects \cup {c}
  /\ UNCHANGED <<tenancy, catalogue, breaker, callAt, routing, answer>>

\* Mutant: a success leaves the count as it is.
KeepCount(c, failed) ==
  LET k == keyOf[c] IN
  /\ failures' = [failures EXCEPT ![k] = IF failed THEN sawFailures[c] + 1 ELSE sawFailures[c]]
  /\ overlapped' = IF failures[k] # sawFailures[c] THEN overlapped \cup {k} ELSE overlapped
  /\ streak' = [streak EXCEPT ![k] = IF failed /\ k \notin overlapped' THEN @ + 1 ELSE 0]

\* failures.set(name, failCount + 1) or (name, 0).
CountOutcome(c, failed) ==
  LET k == keyOf[c] IN
  /\ failures' = [failures EXCEPT ![k] = IF failed THEN sawFailures[c] + 1 ELSE 0]
  /\ overlapped' = IF failures[k] # sawFailures[c] THEN overlapped \cup {k} ELSE overlapped
  /\ streak' = [streak EXCEPT ![k] = IF failed /\ k \notin overlapped' THEN @ + 1 ELSE 0]

Succeed(c) ==
  /\ c \in effects
  /\ Goes(c, "executing", "ended")
  /\ CountOutcome(c, FALSE)
  /\ Answered(c, "result")
  /\ UNCHANGED <<tenancy, catalogue, routing, effects, lateEffects>>

Fail(c) ==
  /\ Goes(c, "executing", "ended")
  /\ CountOutcome(c, TRUE)
  /\ Answered(c, "error")
  /\ UNCHANGED <<tenancy, catalogue, routing, effects, lateEffects>>

\* Promise.race is lost; nothing stops the executor.
TimeOut(c) ==
  /\ "toolTimeout" \in ToolEvents
  /\ Goes(c, "executing", "abandoned")
  /\ CountOutcome(c, TRUE)
  /\ Answered(c, "timeout")
  /\ UNCHANGED <<tenancy, catalogue, routing, effects, lateEffects>>

\* The Modal backend answers, fails or is aborted; it counts no failures.
RemoteAnswers(c) ==
  /\ \/ c \in effects /\ Goes(c, "remote", "ended") /\ Answered(c, "result")
     \/ Goes(c, "remote", "ended") /\ Answered(c, "error")
     \/ "toolTimeout" \in ToolEvents /\ Goes(c, "remote", "abandoned") /\ Answered(c, "timeout")
  /\ UNCHANGED <<tenancy, catalogue, breaker, routing, effects, lateEffects>>

\* The client's own timer, as long as the tool's, started before it.
ClientAborts(c) ==
  /\ "clientAbort" \in ToolEvents
  /\ callAt[c] \in {"resolved", "executing", "remote"}
  /\ answer[c] = "none"
  /\ Answered(c, "timeout")
  /\ UNCHANGED <<tenancy, catalogue, breaker, callAt, routing, effects, lateEffects>>

\* A synchronisation takes a workspace's tool away or brings it back.
Unregister(k) ==
  /\ "resync" \in ToolEvents
  /\ k \in ScopedKeys \cap catalogue /\ k[1] \in Resynced /\ k[2] = tool
  /\ catalogue'  = catalogue \ {k}
  /\ failures'   = [failures EXCEPT ![k] = 0]
  /\ streak'     = [streak EXCEPT ![k] = 0]
  /\ UNCHANGED <<tenancy, overlapped, callAt, routing, outcome>>

Register(k) ==
  /\ "resync" \in ToolEvents
  /\ k \in ScopedKeys \ catalogue
  /\ catalogue' = catalogue \cup {k}
  /\ UNCHANGED <<tenancy, breaker, callAt, routing, outcome>>
-----------------------------------------------------------------------------
CallStep(c) ==
  \/ StartRunOf(c) \/ StartScheduled(c) \/ Continue(c) \/ EndRun(c)
  \/ CallTool(c) \/ Execute(c) \/ CallModal(c) \/ Refuse(c)
  \/ TakesEffect(c) \/ Succeed(c) \/ Fail(c) \/ TimeOut(c)
  \/ RemoteAnswers(c) \/ ClientAborts(c)

ToolNext ==
  \/ \E c \in Callers : CallStep(c)
  \/ \E k \in ScopedKeys : Unregister(k) \/ Register(k)

ToolSpec == ToolInit /\ [][ToolNext]_toolVars
-----------------------------------------------------------------------------
(* Properties.                                                             *)

ToolTypeOK ==
  /\ tool \in BuiltIns \cup Scoped
  /\ token \in Tenants \cup {"default"}
  /\ catalogue \subseteq Keys
  /\ failures \in [Keys -> 0..Threshold] /\ streak \in [Keys -> 0..Threshold]
  /\ callAt \in [Callers -> {"idle", "thinking", "resolved", "executing",
                             "remote", "abandoned", "ended"}]
  /\ actsFor \in [Callers -> Tenants \cup {"default", "none"}]
  /\ keyOf \in [Callers -> Keys \cup {NoKey}]
  /\ sawFailures \in [Callers -> 0..(Threshold - 1)]
  /\ answer \in [Callers -> {"none", "result", "error", "timeout", "refused"}]
  /\ lateEffects \subseteq effects /\ effects \subseteq Callers
  /\ overlapped \subseteq Keys /\ strayed \subseteq Callers

\* A tool runs in the workspace of the run that called it, unless no event
\* registered the run or another workspace's event came while it ran
\* (index.ts:570, server.ts:19).
ForeignCallExplained ==
  \A c \in Callers :
    actsFor[c] \notin {"none", TenantOf[c]} => c \in strayed

\* The breaker counts consecutive failures (registry.ts:133), and is wrong only
\* about a tool whose calls overlapped.
BreakerCountsFailures ==
  \A k \in Keys : k \notin overlapped => failures[k] = streak[k]

\* An open breaker stays open for everybody until the tool is unregistered:
\* no call is let through to try (resetCircuitBreaker has no caller).
OpenBreakerStaysOpen ==
  [][\A k \in Keys :
       failures[k] >= Threshold /\ Executing(k) = {} /\ k \in catalogue \cap catalogue'
       => failures'[k] = failures[k]]_toolVars

\* A run that is told a result has it, and one that was refused caused nothing;
\* work done after the run was told anything was reported as a timeout.
AnswerIsHonest ==
  \A c \in Callers :
    /\ answer[c] = "result"  => c \in effects
    /\ answer[c] = "refused" => c \notin effects
    /\ c \in lateEffects     => answer[c] = "timeout"

\* A call acts for the workspace of its run, the breaker counts and the run is told
\* the truth, but for the three ways the conjuncts name (server.ts:19, registry.ts:128).
CallsAreAccountedFor == ForeignCallExplained /\ BreakerCountsFailures /\ AnswerIsHonest
=============================================================================
