---------------------------- MODULE ToolsProofs -----------------------------
(***************************************************************************)
(* Theorems about the tools: the gateway that calls them, the catalogue,   *)
(* the integrations and the cron jobs, and about all of them together as   *)
(* MCTools composes them, for every set of workspaces, runs, accounts and  *)
(* jobs and for every threshold of the breaker.                            *)
(***************************************************************************)
EXTENDS MCTools, WorkspaceProofs

-----------------------------------------------------------------------------
(* The inductive invariant.                                                *)

USE DEF breaker, outcome, routing, tenancy

\* What a run that is not in a call, one whose call is under way, and one whose
\* executor was abandoned hold.
CallInv ==
  \A c \in Callers :
    /\ callAt[c] \in {"idle", "thinking"} =>
         actsFor[c] = "none" /\ answer[c] = "none" /\ c \notin effects
    /\ callAt[c] \in {"resolved", "executing", "remote"} =>
         keyOf[c] \in Keys /\ answer[c] \in {"none", "timeout"}
    /\ callAt[c] = "resolved"  => c \notin effects
    /\ callAt[c] = "abandoned" => answer[c] = "timeout"

\* The shared token is that of every run in flight, but for those that strayed.
TokenInv ==
  \A c \in Callers : callAt[c] # "idle" /\ c \notin strayed => token = TenantOf[c]

ToolInv ==
  /\ ToolTypeOK /\ CallInv /\ TokenInv
  /\ ForeignCallExplained /\ BreakerCountsFailures /\ AnswerIsHonest

LEMMA InvInit == ToolInit => ToolInv
<1> SUFFICES ASSUME ToolInit PROVE ToolInv
  OBVIOUS
<1>1. 0 \in 0..Threshold /\ 0 \in 0..(Threshold - 1) /\ 0 \in Nat
  BY ToolAssumption
<1>2. ToolTypeOK
  BY <1>1, ToolAssumption DEF ToolInit, ToolTypeOK
<1>3. CallInv /\ TokenInv
  BY DEF ToolInit, CallInv, TokenInv
<1>4. ForeignCallExplained /\ BreakerCountsFailures /\ AnswerIsHonest
  BY DEF ToolInit, ForeignCallExplained, BreakerCountsFailures, AnswerIsHonest
<1>5. QED
  BY <1>2, <1>3, <1>4 DEF ToolInv

\* A call that ends counts its outcome on the key it was resolved to, within the range.
LEMMA OutcomeCounts ==
  ASSUME ToolInv, NEW c \in Callers, callAt[c] = "executing",
         NEW failed \in BOOLEAN, CountOutcome(c, failed)
  PROVE  /\ failures' \in [Keys -> 0..Threshold] /\ streak' \in [Keys -> 0..Threshold]
         /\ overlapped' \subseteq Keys
         /\ BreakerCountsFailures'
<1> DEFINE k == keyOf[c]
<1>1. k \in Keys
  BY DEF ToolInv, CallInv
<1>2. /\ sawFailures[c] \in 0..(Threshold - 1) /\ Threshold \in Nat \ {0}
      /\ failures \in [Keys -> 0..Threshold] /\ streak \in [Keys -> 0..Threshold]
      /\ overlapped \subseteq Keys
  BY ToolAssumption DEF ToolInv, ToolTypeOK
<1>3. failures' \in [Keys -> 0..Threshold] /\ streak' \in [Keys -> 0..Threshold]
  <2>1. failures' \in [Keys -> 0..Threshold]
    BY <1>1, <1>2 DEF CountOutcome
  <2>2. k \notin overlapped' => streak[k] = sawFailures[c]
    BY <1>1 DEF CountOutcome, ToolInv, BreakerCountsFailures
  <2>3. streak' = [streak EXCEPT ![k] = IF failed /\ k \notin overlapped' THEN @ + 1 ELSE 0]
    BY DEF CountOutcome
  <2>4. (IF failed /\ k \notin overlapped' THEN streak[k] + 1 ELSE 0) \in 0..Threshold
    BY <1>1, <1>2, <2>2
  <2>5. QED
    BY <1>1, <1>2, <2>1, <2>3, <2>4
<1>4. overlapped' \subseteq Keys
  BY <1>1, <1>2 DEF CountOutcome
<1>5. ASSUME NEW l \in Keys, l \notin overlapped' PROVE failures'[l] = streak'[l]
  <2>1. l \notin overlapped /\ failures[l] = streak[l]
    BY <1>5 DEF CountOutcome, ToolInv, BreakerCountsFailures
  <2>2. CASE l # k
    BY <2>1, <2>2, <1>2 DEF CountOutcome
  <2>3. CASE l = k
    <3>1. failures[k] = sawFailures[c]
      BY <1>5, <2>3 DEF CountOutcome
    <3>2. QED
      BY <3>1, <2>1, <2>3, <1>1, <1>2, <1>5 DEF CountOutcome
  <2>4. QED
    BY <2>2, <2>3
<1>6. QED
  BY <1>3, <1>4, <1>5 DEF BreakerCountsFailures

\* Every step keeps the invariant.
LEMMA InvStep == ToolInv /\ [ToolNext]_toolVars => ToolInv'
<1> SUFFICES ASSUME ToolInv, [ToolNext]_toolVars PROVE ToolInv'
  OBVIOUS
<1> USE ToolAssumption
<1>0. /\ ToolTypeOK /\ CallInv /\ TokenInv
      /\ ForeignCallExplained /\ BreakerCountsFailures /\ AnswerIsHonest
  BY DEF ToolInv
<1>1. ASSUME NEW c \in Callers, StartRunOf(c) PROVE ToolInv'
  <2>1. ToolTypeOK'
    BY <1>0, <1>1 DEF StartRunOf, Goes, ToolTypeOK
  <2>2. CallInv' /\ ForeignCallExplained' /\ BreakerCountsFailures' /\ AnswerIsHonest'
    BY <1>0, <1>1 DEF StartRunOf, Goes, ToolTypeOK, CallInv, ForeignCallExplained,
                      BreakerCountsFailures, AnswerIsHonest
  <2>3. TokenInv'
    BY <1>0, <1>1 DEF StartRunOf, Goes, ToolTypeOK, TokenInv
  <2>4. QED
    BY <2>1, <2>2, <2>3 DEF ToolInv
<1>2. ASSUME NEW c \in Callers, StartScheduled(c) PROVE ToolInv'
  BY <1>0, <1>2 DEF StartScheduled, Goes, ToolInv, ToolTypeOK, CallInv, TokenInv,
       ForeignCallExplained, BreakerCountsFailures, AnswerIsHonest
<1>3. ASSUME NEW c \in Callers, Continue(c) PROVE ToolInv'
  <2>1. ToolTypeOK'
    BY <1>0, <1>3 DEF Continue, Forget, Goes, ToolTypeOK
  <2>2. CallInv' /\ TokenInv' /\ ForeignCallExplained' /\ BreakerCountsFailures' /\ AnswerIsHonest'
    BY <1>0, <1>3 DEF Continue, Forget, Goes, ToolTypeOK, CallInv, TokenInv,
         ForeignCallExplained, BreakerCountsFailures, AnswerIsHonest
  <2>3. QED
    BY <2>1, <2>2 DEF ToolInv
<1>4. ASSUME NEW c \in Callers, EndRun(c) PROVE ToolInv'
  BY <1>0, <1>4 DEF EndRun, Goes, ToolInv, ToolTypeOK, CallInv, TokenInv,
       ForeignCallExplained, BreakerCountsFailures, AnswerIsHonest
<1>5. ASSUME NEW c \in Callers, CallTool(c) PROVE ToolInv'
  <2> DEFINE key == IF <<token, tool>> \in Candidates THEN <<token, tool>> ELSE <<"all", tool>>
  <2>1. Candidates # {} => key \in Keys
    BY <1>0 DEF ToolTypeOK, Candidates
  <2>2. ToolTypeOK'
    BY <1>0, <1>5, <2>1 DEF CallTool, Goes, Answered, ToolTypeOK
  <2>3. CallInv'
    BY <1>0, <1>5, <2>1 DEF CallTool, Goes, Answered, ToolTypeOK, CallInv
  <2>4. TokenInv' /\ ForeignCallExplained' /\ BreakerCountsFailures'
    BY <1>0, <1>5 DEF CallTool, Goes, ToolTypeOK, TokenInv, ForeignCallExplained,
                      BreakerCountsFailures
  <2>5. AnswerIsHonest'
    BY <1>0, <1>5 DEF CallTool, Goes, Answered, ToolTypeOK, CallInv, AnswerIsHonest
  <2>6. QED
    BY <2>2, <2>3, <2>4, <2>5 DEF ToolInv
<1>6. ASSUME NEW c \in Callers, Execute(c) PROVE ToolInv'
  <2>1. keyOf[c] \in Keys /\ failures[keyOf[c]] \in 0..(Threshold - 1)
    BY <1>0, <1>6 DEF Execute, Runnable, Goes, ToolTypeOK, CallInv
  <2>2. ToolTypeOK'
    BY <1>0, <1>6, <2>1 DEF Execute, Goes, ToolTypeOK
  <2>3. CallInv' /\ TokenInv' /\ ForeignCallExplained' /\ BreakerCountsFailures' /\ AnswerIsHonest'
    BY <1>0, <1>6 DEF Execute, Goes, ToolTypeOK, CallInv, TokenInv,
         ForeignCallExplained, BreakerCountsFailures, AnswerIsHonest
  <2>4. QED
    BY <2>2, <2>3 DEF ToolInv
<1>7. ASSUME NEW c \in Callers, CallModal(c) PROVE ToolInv'
  BY <1>0, <1>7 DEF CallModal, Goes, ToolInv, ToolTypeOK, CallInv, TokenInv,
       ForeignCallExplained, BreakerCountsFailures, AnswerIsHonest
<1>8. ASSUME NEW c \in Callers, Refuse(c) PROVE ToolInv'
  BY <1>0, <1>8 DEF Refuse, Goes, Answered, ToolInv, ToolTypeOK, CallInv, TokenInv,
       ForeignCallExplained, BreakerCountsFailures, AnswerIsHonest
<1>9. ASSUME NEW c \in Callers, TakesEffect(c) PROVE ToolInv'
  <2>1. ToolTypeOK' /\ CallInv' /\ TokenInv' /\ ForeignCallExplained' /\ BreakerCountsFailures'
    BY <1>0, <1>9 DEF TakesEffect, ToolTypeOK, CallInv, TokenInv, ForeignCallExplained,
                      BreakerCountsFailures
  <2>2. answer[c] \in {"none", "timeout"}
    BY <1>0, <1>9 DEF TakesEffect, CallInv
  <2>3. AnswerIsHonest'
    BY <1>0, <1>9, <2>2 DEF TakesEffect, ToolTypeOK, AnswerIsHonest
  <2>4. QED
    BY <2>1, <2>3 DEF ToolInv
<1>10. ASSUME NEW c \in Callers, Succeed(c) \/ Fail(c) \/ TimeOut(c) PROVE ToolInv'
  <2>1. callAt[c] = "executing" /\ \E failed \in BOOLEAN : CountOutcome(c, failed)
    BY <1>10 DEF Succeed, Fail, TimeOut, Goes
  <2>2. /\ failures' \in [Keys -> 0..Threshold] /\ streak' \in [Keys -> 0..Threshold]
        /\ overlapped' \subseteq Keys
        /\ BreakerCountsFailures'
    BY <2>1, OutcomeCounts
  <2>3. ToolTypeOK'
    BY <1>0, <1>10, <2>2 DEF Succeed, Fail, TimeOut, Goes, Answered, ToolTypeOK
  <2>4. PICK to \in {"ended", "abandoned"}, what \in {"result", "error", "timeout"} :
          /\ Goes(c, "executing", to) /\ Answered(c, what)
          /\ what = "result" => c \in effects
          /\ to = "abandoned" => what = "timeout"
    <3>1. CASE Succeed(c)
      BY <3>1 DEF Succeed
    <3>2. CASE Fail(c)
      BY <3>2 DEF Fail
    <3>3. CASE TimeOut(c)
      BY <3>3 DEF TimeOut
    <3>4. QED
      BY <1>10, <3>1, <3>2, <3>3
  <2>5. UNCHANGED <<tenancy, routing, effects, lateEffects>>
    BY <1>10 DEF Succeed, Fail, TimeOut
  <2>6. CallInv' /\ TokenInv' /\ ForeignCallExplained' /\ AnswerIsHonest'
    BY <1>0, <2>4, <2>5 DEF Goes, Answered, ToolTypeOK, CallInv, TokenInv,
                            ForeignCallExplained, AnswerIsHonest
  <2>7. QED
    BY <2>2, <2>3, <2>6 DEF ToolInv
<1>11. ASSUME NEW c \in Callers, RemoteAnswers(c) PROVE ToolInv'
  <2>1. CASE c \in effects /\ Goes(c, "remote", "ended") /\ Answered(c, "result")
    BY <1>0, <1>11, <2>1 DEF RemoteAnswers, Goes, Answered, ToolInv, ToolTypeOK, CallInv,
         TokenInv, ForeignCallExplained, BreakerCountsFailures, AnswerIsHonest
  <2>2. CASE Goes(c, "remote", "ended") /\ Answered(c, "error")
    BY <1>0, <1>11, <2>2 DEF RemoteAnswers, Goes, Answered, ToolInv, ToolTypeOK, CallInv,
         TokenInv, ForeignCallExplained, BreakerCountsFailures, AnswerIsHonest
  <2>3. CASE Goes(c, "remote", "abandoned") /\ Answered(c, "timeout")
    BY <1>0, <1>11, <2>3 DEF RemoteAnswers, Goes, Answered, ToolInv, ToolTypeOK, CallInv,
         TokenInv, ForeignCallExplained, BreakerCountsFailures, AnswerIsHonest
  <2>4. QED
    BY <1>11, <2>1, <2>2, <2>3 DEF RemoteAnswers
<1>12. ASSUME NEW c \in Callers, ClientAborts(c) PROVE ToolInv'
  BY <1>0, <1>12 DEF ClientAborts, Answered, ToolInv, ToolTypeOK, CallInv, TokenInv,
       ForeignCallExplained, BreakerCountsFailures, AnswerIsHonest
<1>13. ASSUME NEW k \in ScopedKeys, Unregister(k) PROVE ToolInv'
  <2>1. ToolTypeOK' /\ BreakerCountsFailures'
    BY <1>0, <1>13 DEF Unregister, Keys, ToolTypeOK, BreakerCountsFailures
  <2>2. CallInv' /\ TokenInv' /\ ForeignCallExplained' /\ AnswerIsHonest'
    BY <1>0, <1>13 DEF Unregister, CallInv, TokenInv, ForeignCallExplained, AnswerIsHonest
  <2>3. QED
    BY <2>1, <2>2 DEF ToolInv
<1>14. ASSUME NEW k \in ScopedKeys, Register(k) PROVE ToolInv'
  BY <1>0, <1>14 DEF Register, Keys, ToolInv, ToolTypeOK, CallInv, TokenInv,
       ForeignCallExplained, BreakerCountsFailures, AnswerIsHonest
<1>15. CASE UNCHANGED toolVars
  BY <1>0, <1>15 DEF toolVars, ToolInv, ToolTypeOK, CallInv, TokenInv,
       ForeignCallExplained, BreakerCountsFailures, AnswerIsHonest
<1>16. QED
  BY <1>1, <1>2, <1>3, <1>4, <1>5, <1>6, <1>7, <1>8, <1>9, <1>10, <1>11, <1>12, <1>13,
     <1>14, <1>15 DEF ToolNext, CallStep

\* The inductive invariant holds in every state.
LEMMA InvHolds == ToolSpec => []ToolInv
BY InvInit, InvStep, PTL DEF ToolSpec

-----------------------------------------------------------------------------
(* Theorems.                                                               *)

\* Every variable keeps its type: the breaker's counts stay within the threshold,
\* whatever calls overlap.
THEOREM ToolTypeCorrect == ToolSpec => []ToolTypeOK
<1>1. ToolInv => ToolTypeOK
  BY DEF ToolInv
<1>2. QED
  BY <1>1, InvHolds, PTL

\* A call acts for the workspace of its run, the breaker counts consecutive failures
\* and a run is told the truth, but for a stray run, overlapping calls and a timeout.
THEOREM CallsAccountedFor == ToolSpec => []CallsAreAccountedFor
<1>1. ToolInv => CallsAreAccountedFor
  BY DEF ToolInv, CallsAreAccountedFor
<1>2. QED
  BY <1>1, InvHolds, PTL

\* No step takes an open breaker's count away while no call of its tool is being
\* executed, but the tool's removal from the registry.
THEOREM OpenBreakerStays == ToolSpec => OpenBreakerStaysOpen
<1> DEFINE Stays ==
      \A k \in Keys :
        failures[k] >= Threshold /\ Executing(k) = {} /\ k \in catalogue \cap catalogue'
        => failures'[k] = failures[k]
<1>1. ToolInv /\ [ToolNext]_toolVars => [Stays]_toolVars
  <2> SUFFICES ASSUME ToolInv, ToolNext, NEW k \in Keys, Executing(k) = {},
                      k \in catalogue \cap catalogue'
               PROVE  failures'[k] = failures[k]
    BY DEF toolVars
  <2>1. failures \in [Keys -> 0..Threshold]
    BY DEF ToolInv, ToolTypeOK
  <2>2. ASSUME NEW c \in Callers, Succeed(c) \/ Fail(c) \/ TimeOut(c)
        PROVE  failures'[k] = failures[k]
    <3>1. callAt[c] = "executing" /\ \E failed \in BOOLEAN : CountOutcome(c, failed)
      BY <2>2 DEF Succeed, Fail, TimeOut, Goes
    <3>2. keyOf[c] # k
      BY <3>1 DEF Executing
    <3>3. QED
      BY <3>1, <3>2, <2>1 DEF CountOutcome
  <2>3. ASSUME NEW l \in ScopedKeys, Unregister(l)
        PROVE  failures'[k] = failures[k]
    BY <2>1, <2>3 DEF Unregister
  <2>4. ASSUME NEW c \in Callers,
               \/ StartRunOf(c) \/ StartScheduled(c) \/ Continue(c) \/ EndRun(c)
               \/ CallTool(c) \/ Execute(c) \/ CallModal(c) \/ Refuse(c)
               \/ TakesEffect(c) \/ RemoteAnswers(c) \/ ClientAborts(c)
        PROVE  failures' = failures
    BY <2>4 DEF StartRunOf, StartScheduled, Continue, EndRun, CallTool, Execute, CallModal,
                Refuse, TakesEffect, RemoteAnswers, ClientAborts
  <2>5. ASSUME NEW l \in ScopedKeys, Register(l) PROVE failures' = failures
    BY <2>5 DEF Register
  <2>6. QED
    BY <2>2, <2>3, <2>4, <2>5 DEF ToolNext, CallStep
<1>2. QED
  BY <1>1, InvHolds, PTL DEF ToolSpec, OpenBreakerStaysOpen

HIDE DEF breaker, outcome, routing, tenancy

-----------------------------------------------------------------------------
(* The catalogue of tools.                                                 *)

SetupTyped == setup \in Setups /\ startAt \in {"down", "up", "deploying", "deployed"}

\* What is registered, offered and written to an SDK follows from the environment.
RegistryInv ==
  /\ startAt = "down" => registry = {} /\ offered = {} /\ snapshot = {} /\ unvisited = {}
  /\ startAt # "down" =>
       /\ snapshot = StaticTools(setup.services)
       /\ registry = snapshot \cup DynamicTools(setup) /\ offered = registry
       /\ starts > 0
  /\ starts \in 0..StartBound

\* The workspaces are rows; an SDK is one.
HomesInv ==
  /\ homes \subseteq Homes /\ unvisited \subseteq homes /\ halfDone \subseteq homes
  /\ DOMAIN sdk = Homes
  /\ startAt = "deployed" => unvisited = {}

\* An SDK without its tools is one being written, or one given up; the tools of an SDK
\* are those of the first start until there is another.
SdkInv(w) ==
  /\ sdk[w].client \in BOOLEAN
  /\ sdk[w].client => w \in homes
  /\ sdk[w].tools # {} \/ w \in halfDone => sdk[w].client
  /\ sdk[w].client /\ sdk[w].tools = {} =>
       w \in halfDone \/ (startAt = "deploying" /\ w \in unvisited)
  /\ sdk[w].tools # {} =>
       \/ starts > 1
       \/ starts = 1 /\ (startAt = "down" \/ sdk[w].tools = snapshot)

CatalogueInv ==
  /\ SetupTyped /\ RegistryInv /\ HomesInv
  /\ \A w \in Homes : SdkInv(w)

LEMMA CatalogueInvInit == CatalogueInit => CatalogueInv
<1> SUFFICES ASSUME CatalogueInit PROVE CatalogueInv
  OBVIOUS
<1> USE CatalogueAssumption DEF CatalogueInit
<1>1. SetupTyped /\ RegistryInv /\ HomesInv
  BY DEF SetupTyped, RegistryInv, HomesInv
<1>2. ASSUME NEW w \in Homes PROVE SdkInv(w)
  <2>1. sdk[w].client = FALSE /\ sdk[w].tools = {} /\ w \notin halfDone
    BY DEF NoSdk
  <2>2. QED
    BY <2>1 DEF SdkInv
<1>3. QED
  BY <1>1, <1>2 DEF CatalogueInv

\* A tool of the platform is registered when its service is configured.
LEMMA PlatformToolsAreRegistered ==
  ASSUME NEW services, NEW s \in services,
         s \in {"slackToken", "llm", "search", "browserbase"}
  PROVE  PlatformTools[s] \subseteq StaticTools(services)
<1>1. s \in DOMAIN PlatformTools
  BY DEF PlatformTools
<1>2. PlatformTools[s] \subseteq Of(PlatformTools, services)
  BY <1>1 DEF Of
<1>3. QED
  BY <1>2 DEF StaticTools, NativeTools

\* Every Slack tool is registered, statically or not, since a bot without a Slack token
\* is one for many teams.
LEMMA SlackToolsAreRegistered ==
  ASSUME setup \in Setups
  PROVE  AllSlackTools \subseteq StaticTools(setup.services) \cup DynamicTools(setup)
<1>1. CASE "slackToken" \in setup.services
  <2>1. PlatformTools["slackToken"] = AllSlackTools
    BY DEF PlatformTools
  <2>2. QED
    BY <1>1, <2>1, PlatformToolsAreRegistered
<1>2. CASE "slackToken" \notin setup.services
  BY <1>2 DEF Setups, DynamicTools
<1>3. QED
  BY <1>1, <1>2

\* The tools of every bot: there is one, at least.
LEMMA SomeToolIsStatic == ASSUME NEW services PROVE StaticTools(services) # {}
<1>1. "bash" \in StaticTools(services)
  BY DEF StaticTools, NativeTools, WorkspaceTools
<1>2. QED
  BY <1>1

\* What the prompts name is a Slack tool, one of every bot, one of a service, or the
\* misspelled one.
LEMMA PromptsNameTools ==
  ASSUME NEW t \in NamedInPrompts
  PROVE  \/ t \in AllSlackTools \/ t \in WorkspaceTools \cup DbTools \cup OrchestrationTools
         \/ t \in ManagementTools \/ t = "quick_ai_search" \/ t = MisnamedTool
<1>1. ASSUME t \in HeartbeatPrompt \cup DiscoveryPrompt PROVE
        t \in AllSlackTools \/ t \in WorkspaceTools \cup DbTools \cup OrchestrationTools
  BY <1>1 DEF HeartbeatPrompt, DiscoveryPrompt, AllSlackTools, SlackTools, SlackAdminTools,
              WorkspaceTools, DbTools, OrchestrationTools
<1>2. ASSUME t \in ChannelIntroPrompt \cup CronPrompt \cup SkillsSection PROVE
        t \in AllSlackTools \/ t \in DbTools
  BY <1>2 DEF ChannelIntroPrompt, CronPrompt, SkillsSection, AllSlackTools, SlackTools,
              SlackAdminTools, DbTools
<1>3. ASSUME t \in OnboardingPrompt PROVE
        t \in AllSlackTools \/ t \in DbTools \/ t = "quick_ai_search"
  BY <1>3 DEF OnboardingPrompt, AllSlackTools, SlackTools, SlackAdminTools, DbTools
<1>4. ASSUME t \in InteractivePrompt \cup IntegrationsSection PROVE
        t \in AllSlackTools \/ t \in DbTools \/ t \in ManagementTools
  BY <1>4 DEF InteractivePrompt, IntegrationsSection, AllSlackTools, SlackTools,
              DbTools, ManagementTools
<1>5. QED
  BY <1>1, <1>2, <1>3, <1>4 DEF NamedInPrompts, WelcomePrompt

\* The invariant implies the parts of what the run checks.
LEMMA MissingToolsFollow == CatalogueInv => MissingToolExplained
<1> SUFFICES ASSUME CatalogueInv PROVE MissingToolExplained
  OBVIOUS
<1>1. offered = registry
  BY DEF CatalogueInv, RegistryInv, SetupTyped
<1>2. ASSUME NEW t \in offered, Executor(t) = "nobody" PROVE setup.backend = "modal"
  BY <1>1, <1>2 DEF Executor, CatalogueInv, SetupTyped, Setups
<1>3. ASSUME NEW t \in offered \cap (DbTools \cup CronTools \cup SpacesTools \cup ManagementTools)
      PROVE Executor(t) = "bot"
  BY <1>1, <1>3 DEF Executor, LocalOnly
<1>4. QED
  BY <1>1, <1>2, <1>3 DEF MissingToolExplained

LEMMA CredentialsFollow == CatalogueInv => ForeignCredentialExplained
<1> SUFFICES ASSUME CatalogueInv, setup.managed, NEW t \in registry \cap AllSlackTools,
                    Credential(t) # "workspace", "slackToken" \notin setup.services
             PROVE  setup.backend = "modal" /\ t \in SlackFileTools
  BY DEF ForeignCredentialExplained
<1>1. t \in DynamicTools(setup)
  BY DEF DynamicTools
<1>2. Executor(t) = "modal"
  BY <1>1 DEF Credential
<1>3. t \notin LocalOnly /\ setup.backend # "local"
  BY <1>2 DEF Executor
<1>4. setup.backend = "modal"
  BY <1>3 DEF CatalogueInv, SetupTyped, Setups
<1>5. t \in SlackFileTools
  BY <1>3 DEF LocalOnly, AllSlackTools
<1>6. QED
  BY <1>4, <1>5

LEMMA NamesFollow == CatalogueInv => UnknownToolExplained
<1> SUFFICES ASSUME CatalogueInv, startAt # "down", NEW t \in NamedInPrompts \ offered,
                    t # MisnamedTool
             PROVE  \/ t \in ManagementTools /\ "pipedream" \notin setup.services
                    \/ /\ t \in PlatformTools.search
                       /\ setup.services \cap {"llm", "search"} = {}
  BY DEF UnknownToolExplained
<1>1. /\ t \notin StaticTools(setup.services) /\ t \notin AllSlackTools
  BY SlackToolsAreRegistered DEF CatalogueInv, SetupTyped, RegistryInv
<1>2. t \notin WorkspaceTools \cup DbTools \cup OrchestrationTools
  BY <1>1 DEF StaticTools, NativeTools
<1>3. t \in ManagementTools \/ t = "quick_ai_search"
  BY <1>1, <1>2, PromptsNameTools
<1>4. CASE t \in ManagementTools
  BY <1>1, <1>4 DEF StaticTools
<1>5. CASE t = "quick_ai_search"
  <2>1. PlatformTools.search = {"quick_ai_search"} /\ t \in PlatformTools["search"]
        /\ t \in PlatformTools["llm"]
    BY <1>5 DEF PlatformTools
  <2>2. "llm" \notin setup.services /\ "search" \notin setup.services
    BY <1>1, <2>1, PlatformToolsAreRegistered
  <2>3. QED
    BY <1>5, <2>1, <2>2
<1>6. QED
  BY <1>3, <1>4, <1>5

LEMMA GapsFollow == CatalogueInv => SdkGapExplained
<1> SUFFICES ASSUME CatalogueInv, startAt = "deployed", NEW w \in homes,
                    setup.backend # "modal", sdk[w].client, w \notin halfDone,
                    ~(starts > 1 /\ sdk[w].tools # snapshot)
             PROVE  SdkGap(w) \subseteq DynamicTools(setup)
  BY DEF SdkGapExplained
<1>1. w \in Homes /\ SdkInv(w)
  BY DEF CatalogueInv, HomesInv
<1>2. sdk[w].tools # {}
  BY <1>1 DEF SdkInv
<1>3. sdk[w].tools = snapshot
  BY <1>1, <1>2 DEF SdkInv
<1>4. registry = snapshot \cup DynamicTools(setup) /\ setup.backend = "local"
  BY DEF CatalogueInv, RegistryInv, SetupTyped, Setups
<1>5. QED
  BY <1>3, <1>4 DEF SdkGap

LEMMA CatalogueInvSuffices == CatalogueInv => CatalogueTypeOK /\ ToolsAreOffered
<1> SUFFICES ASSUME CatalogueInv PROVE CatalogueTypeOK /\ ToolsAreOffered
  OBVIOUS
<1>1. offered \subseteq registry
  BY DEF CatalogueInv, SetupTyped, RegistryInv
<1>2. CatalogueTypeOK
  BY <1>1 DEF CatalogueTypeOK, CatalogueInv, SetupTyped, RegistryInv, HomesInv, SdkInv
<1>3. QED
  BY <1>2, MissingToolsFollow, CredentialsFollow, NamesFollow, GapsFollow DEF ToolsAreOffered

\* Every step keeps the invariant, and writes an SDK that is there no more.
LEMMA CatalogueInvStep ==
  CatalogueInv /\ [CatalogueNext]_catalogueVars =>
    /\ CatalogueInv'
    /\ \A w \in Homes : sdk[w].tools # {} \/ w \in halfDone => sdk'[w] = sdk[w]
<1> SUFFICES ASSUME CatalogueInv, [CatalogueNext]_catalogueVars
             PROVE  /\ CatalogueInv'
                    /\ \A w \in Homes : sdk[w].tools # {} \/ w \in halfDone => sdk'[w] = sdk[w]
  OBVIOUS
<1> USE CatalogueAssumption DEF CatalogueInv, HomesInv
<1>1. CASE StartUp
  <2>1. SetupTyped' /\ RegistryInv' /\ HomesInv'
    BY <1>1 DEF StartUp, SetupTyped, RegistryInv
  <2>2. ASSUME NEW w \in Homes PROVE SdkInv(w)'
    BY <1>1 DEF StartUp, SdkInv, RegistryInv
  <2>3. QED
    BY <1>1, <2>1, <2>2 DEF StartUp
<1>2. CASE ListHomes \/ EndDeployment
  BY <1>2 DEF ListHomes, EndDeployment, SetupTyped, RegistryInv, SdkInv
<1>3. CASE StopBot
  <2>1. SetupTyped' /\ RegistryInv' /\ HomesInv'
    BY <1>3 DEF StopBot, SetupTyped, RegistryInv, SdkInv
  <2>2. ASSUME NEW w \in Homes PROVE SdkInv(w)'
    BY <1>3 DEF StopBot, SdkInv, RegistryInv, SetupTyped
  <2>3. QED
    BY <1>3, <2>1, <2>2 DEF StopBot
<1>4. ASSUME NEW w \in Homes, AddHome(w) \/ SkipSdk(w) PROVE
        CatalogueInv' /\ sdk' = sdk
  BY <1>4 DEF AddHome, SkipSdk, SetupTyped, RegistryInv, SdkInv
<1>5. ASSUME NEW w \in Homes, WriteClient(w) PROVE
        CatalogueInv' /\ \A v \in Homes : sdk[v].tools # {} \/ v \in halfDone => sdk'[v] = sdk[v]
  <2>1. SetupTyped' /\ RegistryInv' /\ HomesInv'
    BY <1>5 DEF WriteClient, SetupTyped, RegistryInv
  <2>2. ASSUME NEW v \in Homes PROVE SdkInv(v)'
    <3>1. CASE v = w
      BY <1>5, <3>1 DEF WriteClient, SdkInv
    <3>2. CASE v # w
      BY <1>5, <3>2 DEF WriteClient, SdkInv
    <3>3. QED
      BY <3>1, <3>2
  <2>3. QED
    BY <1>5, <2>1, <2>2 DEF WriteClient, SdkInv
<1>6. ASSUME NEW w \in Homes, WriteTools(w) PROVE
        CatalogueInv' /\ \A v \in Homes : sdk[v].tools # {} \/ v \in halfDone => sdk'[v] = sdk[v]
  <2>1. SetupTyped' /\ RegistryInv' /\ HomesInv'
    BY <1>6 DEF WriteTools, SetupTyped, RegistryInv
  <2>2. snapshot # {} /\ starts > 0 /\ starts \in Nat
    BY <1>6, SomeToolIsStatic DEF WriteTools, RegistryInv
  <2>3. ASSUME NEW v \in Homes PROVE SdkInv(v)'
    <3>1. CASE v = w
      BY <1>6, <2>2, <3>1 DEF WriteTools, SdkInv
    <3>2. CASE v # w
      BY <1>6, <3>2 DEF WriteTools, SdkInv
    <3>3. QED
      BY <3>1, <3>2
  <2>4. QED
    BY <1>6, <2>1, <2>3 DEF WriteTools
<1>7. ASSUME NEW w \in Homes, DeploymentFails(w) PROVE CatalogueInv' /\ sdk' = sdk
  <2>1. SetupTyped' /\ RegistryInv' /\ HomesInv'
    BY <1>7 DEF DeploymentFails, SetupTyped, RegistryInv
  <2>2. ASSUME NEW v \in Homes PROVE SdkInv(v)'
    <3>1. CASE v = w
      BY <1>7, <3>1 DEF DeploymentFails, SdkInv
    <3>2. CASE v # w
      BY <1>7, <3>2 DEF DeploymentFails, SdkInv
    <3>3. QED
      BY <3>1, <3>2
  <2>3. QED
    BY <1>7, <2>1, <2>2 DEF DeploymentFails
<1>8. CASE UNCHANGED catalogueVars
  BY <1>8 DEF catalogueVars, SetupTyped, RegistryInv, SdkInv
<1>9. QED
  BY <1>1, <1>2, <1>3, <1>4, <1>5, <1>6, <1>7, <1>8
     DEF CatalogueNext, StartUp, ListHomes, EndDeployment, StopBot

\* Every variable keeps its type, and what the model is offered runs, with the
\* credential of its team, and is what its prompts name and its SDK can call, but for
\* the gaps the property names.  (index.ts 420-520, tools/index.ts, deploy.ts)
THEOREM OfferedToolsRun == CatalogueSpec => [](CatalogueTypeOK /\ ToolsAreOffered)
BY CatalogueInvInit, CatalogueInvStep, CatalogueInvSuffices, PTL DEF CatalogueSpec

\* An SDK that is there, or was given up, is never written again.  (deploy.ts:23)
THEOREM SdkStays == CatalogueSpec => SdkIsWrittenOnce
BY CatalogueInvInit, CatalogueInvStep, PTL DEF CatalogueSpec, SdkIsWrittenOnce

-----------------------------------------------------------------------------
(* Cron jobs.                                                              *)

\* The rows: an enabled job has one, and so has one that is executed.
CronRowsInv ==
  /\ cronRow \in [CronNames -> CronTypes \cup {"none"}]
  /\ cronOn \subseteq CronNames
  /\ \A n \in cronOn : cronRow[n] # "none"
  /\ cronAt \in [CronExecs -> PastCheck \cup {"idle", "check"}]
  /\ \A e \in CronExecs : cronAt[e] # "idle" => cronRow[JobNamed(e)] # "none"
  /\ mixed \subseteq Conditional /\ cut \subseteq Conditional
  /\ \A n \in Conditional \cap Triggered :
       cronAt[<<n, "trigger">>] # "idle" => n \in mixed

\* A run was told what the type of its job calls for.
PromptInv ==
  /\ DOMAIN prompt = CronExecs
  /\ \A e \in CronExecs :
       \/ prompt[e] = NothingSaid
       \/ /\ prompt[e] = <<UserMessage(cronRow[JobNamed(e)]), SystemPrompt(cronRow[JobNamed(e)])>>
          /\ cronRow[JobNamed(e)] # "none"

\* The times are those of messages stored.
ChatInv ==
  /\ chat \in Seq(CronNames \cup {"person"}) /\ Len(chat) <= ChatBound
  /\ lastRunAt \in [Conditional -> -1..Len(chat)]
  /\ sinceOf \in [Conditional -> -1..Len(chat)]
  /\ heeded \in [Conditional -> 0..Len(chat)]
  /\ amid \in [Conditional -> SUBSET (1..Len(chat))]

\* What a job knows of the messages.
Hearing(n) ==
  \* an execution past its check has seen what came before it, and the rest is amid;
  /\ cronAt[<<n, "timer">>] \in PastCheck /\ n \notin mixed =>
       heeded[n] + 1 .. Len(chat) \subseteq amid[n]
  \* what came between the last check and the last run came amid it;
  /\ n \notin mixed => heeded[n] + 1 .. lastRunAt[n] \subseteq amid[n]
  \* a check asks about what came since the last run;
  /\ cronAt[<<n, "timer">>] = "check" => sinceOf[n] = lastRunAt[n] \/ n \in mixed
  \* and since then, the job itself has written nothing.
  /\ n \notin mixed \cup cut /\ cronAt[<<n, "timer">>] # "running" /\ lastRunAt[n] # -1 =>
       \A i \in lastRunAt[n] + 1 .. Len(chat) : chat[i] # n

CronInv ==
  /\ CronRowsInv /\ PromptInv /\ ChatInv
  /\ \A n \in Conditional : Hearing(n)

LEMMA CronInvInit == CronInit => CronInv
<1> SUFFICES ASSUME CronInit PROVE CronInv
  OBVIOUS
<1> USE CronAssumption
<1>1. PICK rows \in Provisioned :
        cronRow = [n \in CronNames |->
                     IF \E t \in CronTypes : <<n, t>> \in rows
                     THEN CHOOSE t \in CronTypes : <<n, t>> \in rows ELSE "none"]
  BY DEF CronInit
<1>2. cronRow \in [CronNames -> CronTypes \cup {"none"}]
  BY <1>1
<1>3. CronRowsInv
  BY <1>2 DEF CronInit, CronRowsInv, CronExecs, PastCheck
<1>4. PromptInv /\ ChatInv
  BY DEF CronInit, PromptInv, ChatInv
<1>5. \A n \in Conditional : Hearing(n)
  BY DEF CronInit, Hearing, PastCheck, CronExecs
<1>6. QED
  BY <1>3, <1>4, <1>5 DEF CronInv

LEMMA CronInvSuffices == CronInv => CronTypeOK /\ JobsHearTheirPrompt
<1> SUFFICES ASSUME CronInv PROVE CronTypeOK /\ JobsHearTheirPrompt
  OBVIOUS
<1> USE CronAssumption
<1>0. Len(chat) \in 0..ChatBound
  BY DEF CronInv, ChatInv
<1>1. CronTypeOK
  BY <1>0 DEF CronTypeOK, CronInv, CronRowsInv, ChatInv
<1>2. MissedMessageExplained
  <2> SUFFICES ASSUME NEW n \in Conditional \ mixed, NEW i \in 1..Len(chat),
                      heeded[n] < i, i <= lastRunAt[n]
               PROVE  i \in amid[n]
    BY DEF MissedMessageExplained
  <2>1. heeded[n] + 1 .. lastRunAt[n] \subseteq amid[n]
    BY DEF CronInv, Hearing
  <2>2. heeded[n] \in Nat /\ lastRunAt[n] \in Int
    BY <1>0 DEF CronInv, ChatInv
  <2>3. i \in heeded[n] + 1 .. lastRunAt[n]
    BY <1>0, <2>2
  <2>4. QED
    BY <2>1, <2>3
<1>3. LostInstructionsExplained
  <2> SUFFICES ASSUME NEW e \in CronExecs, prompt[e][1] = "followSystemPrompt",
                      prompt[e][2] # "heartbeat"
               PROVE  cronRow[JobNamed(e)] \in {"DISCOVERY", "CHANNEL_INTRO"}
    BY DEF LostInstructionsExplained
  <2> DEFINE type == cronRow[JobNamed(e)]
  <2>1. prompt[e] # NothingSaid
    BY DEF NothingSaid
  <2>2. UserMessage(type) = "followSystemPrompt" /\ SystemPrompt(type) # "heartbeat"
        /\ type # "none"
    BY <2>1 DEF CronInv, PromptInv
  <2>3. JobNamed(e) \in CronNames
    BY DEF CronExecs, JobNamed
  <2>4. type \in CronTypes
    BY <2>2, <2>3 DEF CronInv, CronRowsInv
  <2>5. QED
    BY <2>2, <2>4 DEF UserMessage, SystemPrompt, CronTypes
<1>4. QED
  BY <1>1, <1>2, <1>3 DEF JobsHearTheirPrompt

\* A message stored is one more, and came amid the executions that are past their check.
LEMMA MessageIsStored ==
  ASSUME ChatInv, NEW who \in CronNames \cup {"person"}, StoreMessage(who)
  PROVE  /\ Len(chat') = Len(chat) + 1 /\ chat'[Len(chat')] = who
         /\ \A i \in 1..Len(chat) : chat'[i] = chat[i]
         /\ chat' \in Seq(CronNames \cup {"person"}) /\ Len(chat') <= ChatBound
         /\ amid' \in [Conditional -> SUBSET (1..Len(chat'))]
         /\ \A n \in Conditional :
              /\ amid[n] \subseteq amid'[n]
              /\ (\E e \in CronExecs : JobNamed(e) = n /\ cronAt[e] \in PastCheck) =>
                   Len(chat') \in amid'[n]
<1> USE CronAssumption DEF ChatInv, StoreMessage
<1>1. Len(chat) \in Nat
  OBVIOUS
<1>2. /\ Len(chat') = Len(chat) + 1 /\ chat'[Len(chat')] = who
      /\ \A i \in 1..Len(chat) : chat'[i] = chat[i]
      /\ chat' \in Seq(CronNames \cup {"person"}) /\ Len(chat') <= ChatBound
  OBVIOUS
<1>3. ASSUME NEW n \in Conditional
      PROVE  /\ amid[n] \subseteq amid'[n] /\ amid'[n] \subseteq 1..Len(chat')
             /\ (\E e \in CronExecs : JobNamed(e) = n /\ cronAt[e] \in PastCheck) =>
                  Len(chat') \in amid'[n]
  BY <1>1, <1>2, <1>3
<1>4. amid' \in [Conditional -> SUBSET (1..Len(chat'))]
  BY <1>3
<1>5. QED
  BY <1>2, <1>3, <1>4

\* An execution that moves leaves the others where they are.
LEMMA CronMoves ==
  ASSUME NEW e \in CronExecs, NEW from, NEW to \in PastCheck \cup {"idle", "check"},
         cronAt \in [CronExecs -> PastCheck \cup {"idle", "check"}],
         MoveCron(e, from, to)
  PROVE  /\ cronAt' \in [CronExecs -> PastCheck \cup {"idle", "check"}]
         /\ cronAt[e] = from /\ cronAt'[e] = to
         /\ \A d \in CronExecs \ {e} : cronAt'[d] = cronAt[d]
BY DEF MoveCron

\* The executions and what they are of.
LEMMA ExecutionsOf ==
  /\ \A n \in CronNames : <<n, "timer">> \in CronExecs /\ JobNamed(<<n, "timer">>) = n
  /\ \A n \in Triggered : <<n, "trigger">> \in CronExecs /\ JobNamed(<<n, "trigger">>) = n
  /\ \A e \in CronExecs : /\ JobNamed(e) \in CronNames
                          /\ e = <<JobNamed(e), "timer">> \/ e = <<JobNamed(e), "trigger">>
                          /\ e # <<JobNamed(e), "timer">> => JobNamed(e) \in Triggered
  /\ \A n, m : <<n, "timer">> # <<m, "trigger">>
BY CronAssumption DEF CronExecs, JobNamed

\* A message stored keeps what a job knows, unless it is the job's own and the job is
\* not running.
LEMMA MessageKeepsHearing ==
  ASSUME ChatInv, NEW m \in Conditional, Hearing(m), NEW who \in CronNames \cup {"person"},
         StoreMessage(who), UNCHANGED <<lastRunAt, sinceOf, heeded, mixed, cut>>,
         \/ cronAt'[<<m, "timer">>] = cronAt[<<m, "timer">>]
         \/ cronAt[<<m, "timer">>] = "start" /\ cronAt'[<<m, "timer">>] = "running",
         cronAt'[<<m, "timer">>] # "running" /\ m \notin mixed => who # m
  PROVE  Hearing(m)'
<1> DEFINE t == <<m, "timer">>
<1>0. t \in CronExecs /\ JobNamed(t) = m /\ Len(chat) \in Nat
  BY CronAssumption, ExecutionsOf DEF ChatInv
<1>1. /\ Len(chat') = Len(chat) + 1 /\ chat'[Len(chat')] = who
      /\ \A i \in 1..Len(chat) : chat'[i] = chat[i]
      /\ amid[m] \subseteq amid'[m]
      /\ cronAt[t] \in PastCheck => Len(chat') \in amid'[m]
  BY <1>0, MessageIsStored
<1>2. cronAt'[t] \in PastCheck <=> cronAt[t] \in PastCheck
  BY DEF PastCheck
<1>3. /\ lastRunAt[m] \in -1..Len(chat) /\ heeded[m] \in 0..Len(chat)
      /\ UNCHANGED <<lastRunAt, sinceOf, heeded, mixed, cut>>
  BY DEF ChatInv
<1>4. /\ cronAt'[t] \in PastCheck /\ m \notin mixed' =>
           heeded'[m] + 1 .. Len(chat') \subseteq amid'[m]
      /\ m \notin mixed' => heeded'[m] + 1 .. lastRunAt'[m] \subseteq amid'[m]
  BY <1>0, <1>1, <1>2, <1>3 DEF Hearing
<1>5. cronAt'[t] = "check" => sinceOf'[m] = lastRunAt'[m] \/ m \in mixed'
  BY <1>3 DEF Hearing
<1>6. ASSUME m \notin mixed' \cup cut', cronAt'[t] # "running", lastRunAt'[m] # -1,
             NEW i \in lastRunAt'[m] + 1 .. Len(chat')
      PROVE  chat'[i] # m
  <2>1. cronAt[t] # "running" /\ who # m
    BY <1>3, <1>6
  <2>2. CASE i = Len(chat')
    BY <1>1, <2>1, <2>2
  <2>3. CASE i # Len(chat')
    <3>1. i \in lastRunAt[m] + 1 .. Len(chat) /\ i \in 1..Len(chat)
      BY <1>0, <1>1, <1>3, <1>6, <2>3
    <3>2. QED
      BY <1>1, <1>3, <1>6, <2>1, <3>1 DEF Hearing
  <2>4. QED
    BY <2>2, <2>3
<1>7. QED
  BY <1>4, <1>5, <1>6 DEF Hearing

\* Every step keeps the invariant, and wakes no job by what it wrote itself.
LEMMA CronInvStep ==
  CronInv /\ [CronNext]_cronVars =>
    /\ CronInv'
    /\ \A n \in Conditional \ (mixed \cup cut) :
         cronAt[<<n, "timer">>] = "check" /\ cronAt'[<<n, "timer">>] = "start" /\ lastRunAt[n] # -1
           => \E i \in lastRunAt[n] + 1 .. Len(chat) : chat[i] # n
<1> DEFINE Woken ==
      \A n \in Conditional \ (mixed \cup cut) :
        cronAt[<<n, "timer">>] = "check" /\ cronAt'[<<n, "timer">>] = "start" /\ lastRunAt[n] # -1
          => \E i \in lastRunAt[n] + 1 .. Len(chat) : chat[i] # n
<1> SUFFICES ASSUME CronInv, [CronNext]_cronVars PROVE CronInv' /\ Woken
  OBVIOUS
<1> USE CronAssumption, ExecutionsOf
<1>0. /\ CronRowsInv /\ PromptInv /\ ChatInv /\ \A n \in Conditional : Hearing(n)
      /\ Len(chat) \in 0..ChatBound
  BY DEF CronInv, ChatInv
<1>1. CASE PersonWrites
  <2>1. /\ StoreMessage("person")
        /\ UNCHANGED <<cronRow, cronOn, lastRunAt, cronAt, sinceOf, prompt, heeded, mixed, cut>>
    BY <1>1 DEF PersonWrites
  <2>2. CronRowsInv' /\ PromptInv'
    BY <1>0, <2>1 DEF CronRowsInv, PromptInv
  <2>3. ChatInv'
    BY <1>0, <2>1, MessageIsStored DEF ChatInv
  <2>4. ASSUME NEW n \in Conditional PROVE Hearing(n)'
    BY <1>0, <2>1, MessageKeepsHearing
  <2>5. QED
    BY <2>1, <2>2, <2>3, <2>4 DEF CronInv
<1>2. ASSUME NEW n \in CronNames, CreateJob(n) PROVE CronInv' /\ cronAt' = cronAt
  <2>1. CronRowsInv'
    BY <1>0, <1>2 DEF CreateJob, CronRowsInv, CronTypes
  <2>2. PromptInv'
    BY <1>0, <1>2 DEF CreateJob, PromptInv, CronRowsInv
  <2>3. ChatInv' /\ \A m \in Conditional : Hearing(m)'
    BY <1>0, <1>2 DEF CreateJob, ChatInv, Hearing
  <2>4. QED
    BY <1>2, <2>1, <2>2, <2>3 DEF CronInv, CreateJob
<1>3. ASSUME NEW n \in CronNames, DeleteJob(n) PROVE CronInv' /\ cronAt' = cronAt
  BY <1>0, <1>3 DEF DeleteJob, CronInv, CronRowsInv, PromptInv, ChatInv, Hearing
<1>4. ASSUME NEW n \in CronNames, TriggerJob(n) PROVE CronInv' /\ Woken
  <2>1. /\ n \in Triggered /\ cronRow[n] # "none" /\ MoveCron(<<n, "trigger">>, "idle", "start")
        /\ mixed' = mixed \cup ({n} \cap Conditional)
        /\ UNCHANGED <<cronRow, cronOn, chat, lastRunAt, sinceOf, prompt, heeded, amid, cut>>
    BY <1>4 DEF TriggerJob
  <2>2. /\ cronAt' \in [CronExecs -> PastCheck \cup {"idle", "check"}]
        /\ \A d \in CronExecs \ {<<n, "trigger">>} : cronAt'[d] = cronAt[d]
    BY <1>0, <2>1, CronMoves DEF CronRowsInv, PastCheck
  <2>3. CronRowsInv'
    BY <1>0, <2>1, <2>2 DEF CronRowsInv
  <2>4. PromptInv' /\ ChatInv'
    BY <1>0, <2>1 DEF PromptInv, ChatInv
  <2>5. ASSUME NEW m \in Conditional PROVE Hearing(m)' /\ cronAt'[<<m, "timer">>] = cronAt[<<m, "timer">>]
    BY <1>0, <2>1, <2>2 DEF Hearing
  <2>6. QED
    BY <2>3, <2>4, <2>5 DEF CronInv
<1>5. ASSUME NEW n \in CronNames, FallDue(n) PROVE CronInv' /\ Woken
  <2>1. /\ n \in cronOn /\ MoveCron(<<n, "timer">>, "idle", "check")
        /\ sinceOf' = [k \in Conditional |-> IF k = n THEN lastRunAt[n] ELSE sinceOf[k]]
        /\ UNCHANGED <<cronRow, cronOn, chat, lastRunAt, prompt, heeded, amid, mixed, cut>>
    BY <1>5 DEF FallDue
  <2>2. /\ cronAt' \in [CronExecs -> PastCheck \cup {"idle", "check"}]
        /\ cronAt[<<n, "timer">>] = "idle" /\ cronAt'[<<n, "timer">>] = "check"
        /\ \A d \in CronExecs \ {<<n, "timer">>} : cronAt'[d] = cronAt[d]
    BY <1>0, <2>1, CronMoves DEF CronRowsInv
  <2>3. CronRowsInv'
    BY <1>0, <2>1, <2>2 DEF CronRowsInv
  <2>4. PromptInv' /\ ChatInv'
    BY <1>0, <2>1 DEF PromptInv, ChatInv
  <2>5. ASSUME NEW m \in Conditional PROVE Hearing(m)'
    BY <1>0, <2>1, <2>2 DEF Hearing, PastCheck
  <2>6. QED
    BY <2>2, <2>3, <2>4, <2>5 DEF CronInv
<1>6. ASSUME NEW n \in CronNames, ConditionHolds(n) PROVE CronInv' /\ Woken
  <2>1. /\ n \in Conditional => \E since \in Horizon(n) : HasNewMessages(since)
        /\ MoveCron(<<n, "timer">>, "check", "start")
        /\ heeded' = [k \in Conditional |-> IF k = n THEN Len(chat) ELSE heeded[k]]
        /\ amid' = [k \in Conditional |-> IF k = n THEN {} ELSE amid[k]]
        /\ sinceOf' = [k \in Conditional |-> IF k = n THEN -1 ELSE sinceOf[k]]
        /\ UNCHANGED <<cronRow, cronOn, chat, lastRunAt, prompt, mixed, cut>>
    BY <1>6 DEF ConditionHolds, ForgetSince
  <2>2. /\ cronAt' \in [CronExecs -> PastCheck \cup {"idle", "check"}]
        /\ cronAt[<<n, "timer">>] = "check" /\ cronAt'[<<n, "timer">>] = "start"
        /\ \A d \in CronExecs \ {<<n, "timer">>} : cronAt'[d] = cronAt[d]
    BY <1>0, <2>1, CronMoves DEF CronRowsInv, PastCheck
  <2>3. CronRowsInv'
    BY <1>0, <2>1, <2>2 DEF CronRowsInv
  <2>4. PromptInv' /\ ChatInv'
    BY <1>0, <2>1 DEF PromptInv, ChatInv
  <2>5. ASSUME NEW m \in Conditional PROVE Hearing(m)'
    <3>1. CASE m = n
      <4>1. heeded'[n] = Len(chat) /\ amid'[n] = {} /\ lastRunAt'[n] \in -1..Len(chat)
        BY <1>0, <2>1, <3>1 DEF ChatInv
      <4>2. /\ heeded'[n] + 1 .. Len(chat') \subseteq amid'[n]
            /\ heeded'[n] + 1 .. lastRunAt'[n] \subseteq amid'[n]
        BY <1>0, <2>1, <4>1
      <4>3. n \notin mixed \cup cut /\ lastRunAt[n] # -1 =>
              \A i \in lastRunAt[n] + 1 .. Len(chat) : chat[i] # n
        BY <1>0, <2>2, <3>1 DEF Hearing
      <4>4. QED
        BY <2>1, <2>2, <3>1, <4>2, <4>3 DEF Hearing
    <3>2. CASE m # n
      BY <1>0, <2>1, <2>2, <3>2 DEF Hearing
    <3>3. QED
      BY <3>1, <3>2
  <2>6. ASSUME NEW m \in Conditional \ (mixed \cup cut), lastRunAt[m] # -1, m = n
        PROVE  \E i \in lastRunAt[m] + 1 .. Len(chat) : chat[i] # m
    <3>1. sinceOf[m] = lastRunAt[m]
      BY <1>0, <2>2, <2>6 DEF Hearing
    <3>2. Len(chat) > lastRunAt[m]
      BY <2>1, <2>6, <3>1 DEF Horizon, HasNewMessages
    <3>3. Len(chat) \in lastRunAt[m] + 1 .. Len(chat)
      BY <1>0, <2>6, <3>2 DEF ChatInv
    <3>4. \A i \in lastRunAt[m] + 1 .. Len(chat) : chat[i] # m
      BY <1>0, <2>2, <2>6 DEF Hearing
    <3>5. QED
      BY <3>3, <3>4
  <2>7. Woken
    BY <2>2, <2>6
  <2>8. QED
    BY <2>3, <2>4, <2>5, <2>7 DEF CronInv
<1>7. ASSUME NEW n \in CronNames, SkipJob(n) PROVE CronInv' /\ Woken
  <2>1. /\ MoveCron(<<n, "timer">>, "check", "idle")
        /\ sinceOf' = [k \in Conditional |-> IF k = n THEN -1 ELSE sinceOf[k]]
        /\ UNCHANGED <<cronRow, cronOn, chat, lastRunAt, prompt, heeded, amid, mixed, cut>>
    BY <1>7 DEF SkipJob, ForgetSince
  <2>2. /\ cronAt' \in [CronExecs -> PastCheck \cup {"idle", "check"}]
        /\ cronAt[<<n, "timer">>] = "check" /\ cronAt'[<<n, "timer">>] = "idle"
        /\ \A d \in CronExecs \ {<<n, "timer">>} : cronAt'[d] = cronAt[d]
    BY <1>0, <2>1, CronMoves DEF CronRowsInv
  <2>3. CronRowsInv'
    BY <1>0, <2>1, <2>2 DEF CronRowsInv
  <2>4. PromptInv' /\ ChatInv'
    BY <1>0, <2>1 DEF PromptInv, ChatInv
  <2>5. ASSUME NEW m \in Conditional PROVE Hearing(m)'
    BY <1>0, <2>1, <2>2 DEF Hearing, PastCheck
  <2>6. QED
    BY <2>2, <2>3, <2>4, <2>5 DEF CronInv
<1>8. ASSUME NEW e \in CronExecs, StartJobRun(e) PROVE CronInv' /\ Woken
  <2>1. /\ MoveCron(e, "start", "running")
        /\ prompt' = [prompt EXCEPT ![e] = <<UserMessage(cronRow[JobNamed(e)]),
                                             SystemPrompt(cronRow[JobNamed(e)])>>]
        /\ StoreMessage(JobNamed(e)) /\ JobNamed(e) \in CronNames
        /\ UNCHANGED <<cronRow, cronOn, lastRunAt, sinceOf, heeded, mixed, cut>>
    BY <1>8 DEF StartJobRun
  <2>2. /\ cronAt' \in [CronExecs -> PastCheck \cup {"idle", "check"}]
        /\ cronAt[e] = "start" /\ cronAt'[e] = "running"
        /\ \A d \in CronExecs \ {e} : cronAt'[d] = cronAt[d]
    BY <1>0, <2>1, CronMoves DEF CronRowsInv, PastCheck
  <2>3. CronRowsInv'
    BY <1>0, <2>1, <2>2 DEF CronRowsInv
  <2>4. PromptInv'
    BY <1>0, <2>1, <2>2 DEF PromptInv, CronRowsInv
  <2>5. ChatInv'
    BY <1>0, <2>1, MessageIsStored DEF ChatInv
  <2>6. ASSUME NEW m \in Conditional PROVE Hearing(m)'
    <3>1. cronAt'[<<m, "timer">>] # "running" /\ m \notin mixed => JobNamed(e) # m
      <4>1. SUFFICES ASSUME JobNamed(e) = m, cronAt'[<<m, "timer">>] # "running" PROVE m \in mixed
        OBVIOUS
      <4>2. e = <<m, "trigger">> /\ m \in Triggered
        BY <2>2, <4>1
      <4>3. QED
        BY <1>0, <2>2, <4>2 DEF CronRowsInv
    <3>2. \/ cronAt'[<<m, "timer">>] = cronAt[<<m, "timer">>]
          \/ cronAt[<<m, "timer">>] = "start" /\ cronAt'[<<m, "timer">>] = "running"
      BY <2>2
    <3>3. QED
      BY <1>0, <2>1, <3>1, <3>2, MessageKeepsHearing
  <2>7. Woken
    BY <2>2
  <2>8. QED
    BY <2>3, <2>4, <2>5, <2>6, <2>7 DEF CronInv
<1>9. ASSUME NEW e \in CronExecs, RecordJobRun(e) PROVE CronInv' /\ Woken
  <2>1. PICK from \in {"running", "start"} : MoveCron(e, from, "idle")
    BY <1>9 DEF RecordJobRun
  <2>2. /\ lastRunAt' = [n \in Conditional |-> IF n = JobNamed(e) THEN Len(chat) ELSE lastRunAt[n]]
        /\ prompt' = [prompt EXCEPT ![e] = NothingSaid]
        /\ UNCHANGED <<cronRow, cronOn, chat, sinceOf, heeded, amid, mixed, cut>>
    BY <1>9 DEF RecordJobRun
  <2>3. /\ cronAt' \in [CronExecs -> PastCheck \cup {"idle", "check"}]
        /\ cronAt[e] \in PastCheck /\ cronAt'[e] = "idle"
        /\ \A d \in CronExecs \ {e} : cronAt'[d] = cronAt[d]
    BY <1>0, <2>1, CronMoves DEF CronRowsInv, PastCheck
  <2>4. CronRowsInv'
    BY <1>0, <2>2, <2>3 DEF CronRowsInv
  <2>5. PromptInv' /\ ChatInv'
    BY <1>0, <2>2, <2>3 DEF PromptInv, ChatInv
  <2>6. ASSUME NEW m \in Conditional PROVE Hearing(m)'
    <3> DEFINE t == <<m, "timer">>
    <3>1. t \in CronExecs /\ JobNamed(t) = m /\ Hearing(m)
      BY <1>0
    <3>2. CASE JobNamed(e) # m
      BY <2>2, <2>3, <3>1, <3>2 DEF Hearing
    <3>3. CASE JobNamed(e) = m /\ m \in mixed
      BY <1>0, <2>2, <2>3, <3>1, <3>3 DEF Hearing
    <3>4. CASE JobNamed(e) = m /\ m \notin mixed
      <4>1. e = t
        BY <1>0, <2>3, <3>4 DEF CronRowsInv, PastCheck
      <4>2. /\ heeded[m] + 1 .. Len(chat) \subseteq amid[m] /\ lastRunAt'[m] = Len(chat)
            /\ cronAt'[t] = "idle"
        BY <1>0, <2>2, <2>3, <3>1, <3>4, <4>1 DEF Hearing
      <4>3. QED
        BY <1>0, <2>2, <4>2 DEF Hearing, PastCheck
    <3>5. QED
      BY <3>2, <3>3, <3>4
  <2>7. Woken
    BY <2>3
  <2>8. QED
    BY <2>4, <2>5, <2>6, <2>7 DEF CronInv
<1>10. CASE CrashInRuns
  <2>1. /\ cut' = cut \cup {n \in Conditional : \E e \in CronExecs : JobNamed(e) = n /\ cronAt[e] # "idle"}
        /\ cronAt' = [e \in CronExecs |-> "idle"]
        /\ prompt' = [e \in CronExecs |-> NothingSaid]
        /\ UNCHANGED <<cronRow, cronOn, chat, lastRunAt, sinceOf, heeded, amid, mixed>>
    BY <1>10 DEF CrashInRuns
  <2>2. CronRowsInv'
    BY <1>0, <2>1 DEF CronRowsInv
  <2>3. PromptInv' /\ ChatInv'
    BY <1>0, <2>1 DEF PromptInv, ChatInv
  <2>4. ASSUME NEW n \in Conditional PROVE Hearing(n)'
    BY <1>0, <2>1 DEF Hearing, PastCheck
  <2>5. Woken
    BY <2>1
  <2>6. QED
    BY <2>2, <2>3, <2>4, <2>5 DEF CronInv
<1>11. CASE UNCHANGED cronVars
  BY <1>0, <1>11 DEF cronVars, CronInv, CronRowsInv, PromptInv, ChatInv, Hearing
<1>12. QED
  BY <1>1, <1>2, <1>3, <1>4, <1>5, <1>6, <1>7, <1>8, <1>9, <1>10, <1>11
     DEF CronNext, PersonWrites

\* Every variable keeps its type, and a conditional job hears of what is written, and
\* a run of what it is to do, but for what the property names.
THEOREM JobsHear == CronSpec => [](CronTypeOK /\ JobsHearTheirPrompt)
BY CronInvInit, CronInvStep, CronInvSuffices, PTL DEF CronSpec

\* A job that ran before is woken by what others wrote, not by its own prompt.
THEOREM NoJobIsItsOwnNews == CronSpec => NoJobWakesItself
BY CronInvInit, CronInvStep, PTL DEF CronSpec, NoJobWakesItself

-----------------------------------------------------------------------------
(* Integrations.                                                           *)

Adding   == {"count", "create", "listActions", "upsertTools", "upsertSkill"}
Removing == {"delete", "revoke", "findTools", "deleteTools", "deleteSkill"}

Jobs ==
  [kind : {"none", "poll", "sync", "disconnect"},
   at : {"idle", "poll", "list", "rows", "accounts"} \cup Adding \cup Removing,
   app : Apps \cup {"none"}, listed : SUBSET Accounts, known : SUBSET Accounts,
   todo : SUBSET Accounts, cur : Accounts \cup {NoAccount}]

\* What an operation is about, at each of its awaits.
JobTyped(j) ==
  /\ j.at \in Adding => j.cur \in Accounts /\ j.app = AppOf[j.cur]
  /\ j.at \in {"poll", "accounts"} \cup Removing => j.app \in Apps
  /\ j.at \in {"delete", "revoke"} => j.cur \in Accounts /\ AppOf[j.cur] = j.app
  /\ j.at \in {"list", "rows"} \cup Adding => j.kind = "sync"
  /\ j.at \in {"accounts", "delete"} => j.kind = "disconnect"
  /\ j.at \in Removing /\ j.kind = "disconnect" => \A x \in j.todo : AppOf[x] = j.app

Owned(a) == {x \in Accounts : AppOf[x] = a} \cup {NoAccount}

IntegrationTypes ==
  /\ live \subseteq spent /\ spent \subseteq Accounts
  /\ row \in [Accounts -> {"none", "ACTIVE", "REVOKED"}]
  /\ skills \subseteq Apps /\ pending \subseteq Apps
  /\ DOMAIN actions = Apps /\ DOMAIN utilities = Apps /\ DOMAIN defs = Apps
  /\ \A a \in Apps : actions[a] \in Owned(a) /\ utilities[a] \in Owned(a) /\ defs[a] \in Owned(a)
  /\ job \in [Tasks -> Jobs] /\ \A t \in Tasks : JobTyped(job[t])
  /\ stripped \subseteq Apps /\ undeleted \subseteq Accounts

LEMMA IntegrationTypesInit == IntegrationInit => IntegrationTypes
<1> SUFFICES ASSUME IntegrationInit PROVE IntegrationTypes
  OBVIOUS
<1> USE IntegrationAssumption DEF IntegrationInit
<1>1. Rest \in Jobs /\ JobTyped(Rest)
  BY DEF Rest, Jobs, JobTyped, Adding, Removing
<1>2. \A a \in Apps : actions[a] \in Owned(a) /\ utilities[a] \in Owned(a) /\ defs[a] \in Owned(a)
  BY DEF Owned
<1>3. job \in [Tasks -> Jobs] /\ \A t \in Tasks : JobTyped(job[t])
  BY <1>1
<1>4. QED
  BY <1>2, <1>3 DEF IntegrationTypes

LEMMA IntegrationTypesSuffice == IntegrationTypes => IntegrationTypeOK
BY DEF IntegrationTypes, IntegrationTypeOK, Owned, Jobs

-----------------------------------------------------------------------------
(* Where the loops go on.                                                  *)

\* The loop over the accounts to remove ends, or takes one of them.
LEMMA RemovalGoesOn ==
  ASSUME NEW j \in Jobs, NEW k \in NextRemoval(j)
  PROVE  \/ k = Rest
         \/ /\ k \in Jobs /\ k.at = "revoke" /\ k.kind = j.kind
            /\ k.cur \in j.todo /\ k.app = AppOf[k.cur] /\ k.todo \subseteq j.todo
<1>1. CASE j.todo = {}
  BY <1>1 DEF NextRemoval
<1>2. CASE j.todo # {}
  <2>1. PICK x \in j.todo :
          k = [j EXCEPT !.at = "revoke", !.cur = x, !.app = AppOf[x], !.todo = @ \ {x}]
    BY <1>2 DEF NextRemoval
  <2>2. x \in Accounts /\ AppOf[x] \in Apps
    BY DEF Jobs, Apps
  <2>3. QED
    BY <2>1, <2>2 DEF Jobs, Removing
<1>3. QED
  BY <1>1, <1>2

\* The loop over the listed accounts takes one of them, or that over those to remove begins.
LEMMA AdditionGoesOn ==
  ASSUME NEW j \in Jobs, NEW k \in NextAddition(j)
  PROVE  \/ k = Rest
         \/ /\ k \in Jobs /\ k.at = "revoke" /\ k.kind = j.kind
            /\ k.cur \in j.known \ j.listed /\ k.app = AppOf[k.cur]
            /\ k.todo \subseteq j.known \ j.listed
         \/ /\ k \in Jobs /\ k.at \in {"count", "create"} /\ k.kind = j.kind
            /\ k.listed = j.listed /\ k.known = j.known
            /\ k.cur \in j.todo /\ k.app = AppOf[k.cur] /\ k.todo = j.todo \ {k.cur}
            /\ k.at = "count" <=> k.cur \in j.known
<1>1. CASE j.todo = {}
  <2> DEFINE r == [j EXCEPT !.todo = j.known \ j.listed]
  <2>1. r \in Jobs /\ r.todo = j.known \ j.listed /\ r.kind = j.kind
    BY DEF Jobs
  <2>2. k \in NextRemoval(r)
    BY <1>1 DEF NextAddition
  <2> HIDE DEF r
  <2>3. QED
    BY <2>1, <2>2, RemovalGoesOn
<1>2. CASE j.todo # {}
  <2>1. PICK x \in j.todo :
          k = [j EXCEPT !.at = IF x \in j.known THEN "count" ELSE "create",
                        !.cur = x, !.app = AppOf[x], !.todo = @ \ {x}]
    BY <1>2 DEF NextAddition
  <2>2. x \in Accounts /\ AppOf[x] \in Apps
    BY DEF Jobs, Apps
  <2>3. QED
    BY <2>1, <2>2 DEF Jobs, Adding
<1>3. QED
  BY <1>1, <1>2

\* The loop over the accounts of a disconnected app takes one, or the tools are next.
LEMMA DeletionGoesOn ==
  ASSUME NEW j \in Jobs, NEW k \in NextDeletion(j)
  PROVE  /\ k \in Jobs /\ k.kind = j.kind /\ k.app = j.app /\ k.todo \subseteq j.todo
         /\ k.at = "findTools" \/ (k.at = "delete" /\ k.cur \in j.todo)
<1>1. CASE j.todo = {}
  BY <1>1 DEF NextDeletion, Jobs, Removing
<1>2. CASE j.todo # {}
  <2>1. PICK x \in j.todo : k = [j EXCEPT !.at = "delete", !.cur = x, !.todo = @ \ {x}]
    BY <1>2 DEF NextDeletion
  <2>2. x \in Accounts
    BY DEF Jobs
  <2>3. QED
    BY <2>1, <2>2 DEF Jobs, Removing
<1>3. QED
  BY <1>1, <1>2

-----------------------------------------------------------------------------
(* Types.                                                                  *)

\* What the step of an operation leaves of its record.
LEMMA JobsStayTyped ==
  ASSUME job \in [Tasks -> Jobs], \A t \in Tasks : JobTyped(job[t]),
         NEW t \in Tasks, NEW k \in Jobs, JobTyped(k), job' = [job EXCEPT ![t] = k]
  PROVE  job' \in [Tasks -> Jobs] /\ \A u \in Tasks : JobTyped(job'[u])
<1>1. ASSUME NEW u \in Tasks PROVE JobTyped(job'[u])
  <2>1. CASE u = t
    BY <2>1
  <2>2. CASE u # t
    BY <2>2
  <2>3. QED
    BY <2>1, <2>2
<1>2. QED
  BY <1>1

\* An operation that rests is of its type.
LEMMA RestTyped == Rest \in Jobs /\ JobTyped(Rest)
BY DEF Rest, Jobs, JobTyped, Adding, Removing

\* Each step of an operation leaves a typed record.
LEMMA JobStepTyped ==
  ASSUME IntegrationTypes, NEW t \in Tasks, JobStep(t)
  PROVE  \E k \in Jobs : JobTyped(k) /\ job' = [job EXCEPT ![t] = k]
<1>0. job[t] \in Jobs /\ JobTyped(job[t]) /\ DOMAIN job = Tasks
  BY DEF IntegrationTypes
<1> DEFINE Moved(at) == [job[t] EXCEPT !.at = at]
<1>1. CASE Poll(t)
  <2>1. \/ job' = [job EXCEPT ![t] = Rest]
        \/ job' = [job EXCEPT ![t] = [Rest EXCEPT !.kind = "sync", !.at = "list"]]
    BY <1>1 DEF Poll
  <2>2. /\ [Rest EXCEPT !.kind = "sync", !.at = "list"] \in Jobs
        /\ JobTyped([Rest EXCEPT !.kind = "sync", !.at = "list"])
    BY DEF Rest, Jobs, JobTyped, Adding, Removing
  <2>3. QED
    BY <2>1, <2>2, RestTyped
<1>2. CASE ListAccounts(t)
  <2> DEFINE k == [job[t] EXCEPT !.at = "rows", !.listed = live]
  <2>1. k \in Jobs
    BY <1>0 DEF Jobs, IntegrationTypes
  <2>2. k.at = "rows" /\ k.kind = "sync"
    BY <1>0, <1>2 DEF ListAccounts, At, JobTyped, Jobs
  <2>3. JobTyped(k)
    BY <2>2 DEF JobTyped, Adding, Removing
  <2>4. job' = [job EXCEPT ![t] = k]
    BY <1>0, <1>2 DEF ListAccounts, Jobs
  <2>5. QED
    BY <2>1, <2>3, <2>4
<1>3. CASE FindAccounts(t)
  <2> DEFINE j == [job[t] EXCEPT !.known = ActiveRows, !.todo = job[t].listed]
  <2>1. PICK k \in NextAddition(j) : job' = [job EXCEPT ![t] = k]
    BY <1>3 DEF FindAccounts
  <2>2. j \in Jobs /\ j.kind = "sync"
    BY <1>0, <1>3 DEF Jobs, ActiveRows, FindAccounts, At, JobTyped
  <2> HIDE DEF j
  <2>3. k \in Jobs /\ JobTyped(k)
    BY <2>2, AdditionGoesOn, RestTyped DEF JobTyped, Adding, Removing, Jobs, Apps
  <2>4. QED
    BY <2>1, <2>3
<1>4. CASE CountTools(t) \/ StoreSkill(t)
  <2>1. job[t].kind = "sync"
    BY <1>0, <1>4 DEF CountTools, StoreSkill, At, JobTyped, Adding
  <2>2. CASE job' = [job EXCEPT ![t].at = "listActions"]
    <3>1. Moved("listActions") \in Jobs /\ JobTyped(Moved("listActions"))
      BY <1>0, <1>4 DEF CountTools, StoreSkill, At, JobTyped, Jobs, Adding, Removing
    <3>2. QED
      BY <1>0, <2>2, <3>1 DEF Jobs
  <2>3. CASE \E k \in NextAddition(job[t]) : job' = [job EXCEPT ![t] = k]
    <3>1. PICK k \in NextAddition(job[t]) : job' = [job EXCEPT ![t] = k]
      BY <2>3
    <3>2. k \in Jobs /\ JobTyped(k)
      BY <1>0, <2>1, AdditionGoesOn, RestTyped DEF JobTyped, Adding, Removing, Jobs, Apps
    <3>3. QED
      BY <3>1, <3>2
  <2>4. QED
    BY <1>4, <2>2, <2>3 DEF CountTools, StoreSkill, Goto
<1>5. CASE CreateAccount(t) \/ RegisterActions(t) \/ StoreTools(t)
  <2>1. PICK to \in {"listActions", "upsertTools", "upsertSkill"} :
          job[t].at \in Adding /\ job' = [job EXCEPT ![t].at = to]
    BY <1>5 DEF CreateAccount, RegisterActions, StoreTools, Goto, At, Adding
  <2>2. Moved(to) \in Jobs /\ JobTyped(Moved(to))
    BY <1>0, <2>1 DEF JobTyped, Jobs, Adding, Removing
  <2>3. QED
    BY <1>0, <2>1, <2>2 DEF Jobs
<1>6. CASE RefuseAccount(t)
  BY <1>6, RestTyped DEF RefuseAccount
<1>7. CASE FindAppAccounts(t)
  <2> DEFINE j == [job[t] EXCEPT !.todo = {x \in ActiveRows : AppOf[x] = job[t].app}]
  <2>1. PICK k \in NextDeletion(j) : job' = [job EXCEPT ![t] = k]
    BY <1>7 DEF FindAppAccounts
  <2>2. /\ j \in Jobs /\ j.kind = "disconnect" /\ j.app \in Apps
        /\ \A x \in j.todo : x \in Accounts /\ AppOf[x] = j.app
    BY <1>0, <1>7 DEF Jobs, ActiveRows, FindAppAccounts, At, JobTyped
  <2> HIDE DEF j
  <2>3. k \in Jobs /\ JobTyped(k)
    BY <2>2, DeletionGoesOn DEF JobTyped, Adding, Removing
  <2>4. QED
    BY <2>1, <2>3
<1>8. CASE DeleteAccount(t)
  <2>1. Moved("revoke") \in Jobs /\ JobTyped(Moved("revoke"))
    BY <1>0, <1>8 DEF DeleteAccount, At, JobTyped, Jobs, Adding, Removing
  <2>2. QED
    BY <1>0, <1>8, <2>1 DEF DeleteAccount, Goto, Jobs
<1>9. CASE Revoke(t)
  <2>1. job[t].app \in Apps /\ job[t].at = "revoke"
    BY <1>0, <1>9 DEF Revoke, At, JobTyped, Removing
  <2>2. CASE job[t].kind = "disconnect"
    <3>1. PICK k \in NextDeletion(job[t]) : job' = [job EXCEPT ![t] = k]
      BY <1>9, <2>2 DEF Revoke
    <3>2. \A x \in job[t].todo : x \in Accounts /\ AppOf[x] = job[t].app
      BY <1>0, <2>1, <2>2 DEF JobTyped, Removing, Jobs
    <3>3. k \in Jobs /\ JobTyped(k)
      BY <1>0, <2>1, <2>2, <3>2, DeletionGoesOn DEF JobTyped, Adding, Removing
    <3>4. QED
      BY <3>1, <3>3
  <2>3. CASE job[t].kind # "disconnect"
    <3>1. Moved("findTools") \in Jobs /\ JobTyped(Moved("findTools"))
      BY <1>0, <2>1, <2>3 DEF JobTyped, Jobs, Adding, Removing
    <3>2. QED
      BY <1>0, <1>9, <2>3, <3>1 DEF Revoke, Goto, Jobs
  <2>4. QED
    BY <2>2, <2>3
<1>10. CASE UnregisterTools(t) \/ DeleteTools(t)
  <2>1. PICK to \in {"deleteTools", "deleteSkill"} :
          job[t].at \in Removing /\ job' = [job EXCEPT ![t].at = to]
    BY <1>10 DEF UnregisterTools, DeleteTools, Goto, At, Removing
  <2>2. Moved(to) \in Jobs /\ JobTyped(Moved(to))
    BY <1>0, <2>1 DEF JobTyped, Jobs, Adding, Removing
  <2>3. QED
    BY <1>0, <2>1, <2>2 DEF Jobs
<1>11. CASE DeleteSkill(t)
  <2>1. CASE job[t].kind = "disconnect"
    BY <1>11, <2>1, RestTyped DEF DeleteSkill
  <2>2. CASE job[t].kind # "disconnect"
    <3>1. PICK k \in NextRemoval(job[t]) : job' = [job EXCEPT ![t] = k]
      BY <1>11, <2>2 DEF DeleteSkill
    <3>2. k \in Jobs /\ JobTyped(k)
      BY <1>0, <2>2, RemovalGoesOn, RestTyped DEF JobTyped, Adding, Removing, Jobs, Apps
    <3>3. QED
      BY <3>1, <3>2
  <2>3. QED
    BY <2>1, <2>2
<1>12. QED
  BY <1>1, <1>2, <1>3, <1>4, <1>5, <1>6, <1>7, <1>8, <1>9, <1>10, <1>11 DEF JobStep

\* Every step keeps the types.
LEMMA IntegrationTypesStep ==
  IntegrationTypes /\ [IntegrationNext]_integrationVars => IntegrationTypes'
<1> SUFFICES ASSUME IntegrationTypes, [IntegrationNext]_integrationVars PROVE IntegrationTypes'
  OBVIOUS
<1> USE IntegrationAssumption DEF pipedream, registered, stored, history
<1> DEFINE Rows == /\ live \subseteq spent /\ spent \subseteq Accounts
                   /\ row \in [Accounts -> {"none", "ACTIVE", "REVOKED"}]
                   /\ skills \subseteq Apps /\ pending \subseteq Apps
                   /\ stripped \subseteq Apps /\ undeleted \subseteq Accounts
           Tools == /\ DOMAIN actions = Apps /\ DOMAIN utilities = Apps /\ DOMAIN defs = Apps
                    /\ \A a \in Apps : /\ actions[a] \in Owned(a) /\ utilities[a] \in Owned(a)
                                       /\ defs[a] \in Owned(a)
           Work == job \in [Tasks -> Jobs] /\ \A t \in Tasks : JobTyped(job[t])
<1>0. /\ Rows /\ Tools /\ Work
      /\ \A a \in Apps : Covered(a) \subseteq Apps /\ a \in Covered(a)
  BY DEF IntegrationTypes, Covered
<1>1. ASSUME NEW a \in Apps, Watch(a) \/ WatchExpires(a) PROVE IntegrationTypes'
  BY <1>0, <1>1 DEF Watch, WatchExpires, IntegrationTypes
<1>2. ASSUME NEW x \in Accounts, Authorize(x) \/ Withdraw(x) PROVE IntegrationTypes'
  BY <1>0, <1>2 DEF Authorize, Withdraw, IntegrationTypes
<1>3. ASSUME NEW t \in Tasks, NEW k \in Jobs, JobTyped(k), Begin(t, k) PROVE IntegrationTypes'
  <2>1. Work'
    BY <1>0, <1>3, JobsStayTyped DEF Begin
  <2>2. Rows' /\ Tools'
    BY <1>0, <1>3 DEF Begin
  <2>3. QED
    BY <2>1, <2>2 DEF IntegrationTypes
<1>4. ASSUME NEW t \in Tasks, NEW a \in Apps, StartPoll(t, a) \/ StartDisconnect(t, a)
      PROVE  IntegrationTypes'
  <2> DEFINE p == [Rest EXCEPT !.kind = "poll", !.at = "poll", !.app = a]
             d == [Rest EXCEPT !.kind = "disconnect", !.at = "accounts", !.app = a]
  <2>1. p \in Jobs /\ JobTyped(p) /\ d \in Jobs /\ JobTyped(d)
    BY DEF Rest, Jobs, JobTyped, Adding, Removing
  <2>2. Begin(t, p) \/ Begin(t, d)
    BY <1>4 DEF StartPoll, StartDisconnect
  <2> HIDE DEF p, d
  <2>3. QED
    BY <1>3, <2>1, <2>2
<1>5. ASSUME NEW t \in Tasks, StartSync(t) PROVE IntegrationTypes'
  <2> DEFINE k == [Rest EXCEPT !.kind = "sync", !.at = "list"]
  <2>1. k \in Jobs /\ JobTyped(k) /\ Begin(t, k)
    BY <1>5 DEF Rest, Jobs, JobTyped, Adding, Removing, StartSync
  <2> HIDE DEF k
  <2>2. QED
    BY <1>3, <2>1
<1>6. ASSUME NEW t \in Tasks, JobStep(t) PROVE IntegrationTypes'
  <2>0. job[t] \in Jobs /\ JobTyped(job[t])
    BY <1>0
  <2>1. Work'
    BY <1>0, <1>6, JobStepTyped, JobsStayTyped
  <2>2. Rows'
    <3>1. CASE Poll(t) \/ ListAccounts(t) \/ FindAccounts(t) \/ CountTools(t) \/ FindAppAccounts(t)
               \/ RegisterActions(t) \/ RefuseAccount(t)
      BY <1>0, <3>1 DEF Poll, ListAccounts, FindAccounts, CountTools, FindAppAccounts,
                        RegisterActions, RefuseAccount
    <3>2. CASE CreateAccount(t) \/ Revoke(t)
      BY <1>0, <3>2 DEF CreateAccount, Revoke
    <3>3. CASE StoreTools(t) \/ DeleteTools(t)
      BY <1>0, <3>3 DEF StoreTools, DeleteTools
    <3>4. CASE StoreSkill(t) \/ DeleteSkill(t)
      <4>1. StoreSkill(t) => job[t].app \in Apps
        BY <2>0 DEF StoreSkill, At, JobTyped, Adding, Apps
      <4>2. QED
        BY <1>0, <3>4, <4>1 DEF StoreSkill, DeleteSkill
    <3>5. CASE DeleteAccount(t)
      BY <1>0, <2>0, <3>5 DEF DeleteAccount, At, JobTyped
    <3>6. CASE UnregisterTools(t)
      <4>1. job[t].app \in Apps
        BY <2>0, <3>6 DEF UnregisterTools, At, JobTyped, Removing
      <4>2. QED
        BY <1>0, <3>6, <4>1 DEF UnregisterTools
    <3>7. QED
      BY <1>6, <3>1, <3>2, <3>3, <3>4, <3>5, <3>6 DEF JobStep
  <2>3. Tools'
    <3>1. CASE Poll(t) \/ ListAccounts(t) \/ FindAccounts(t) \/ CountTools(t) \/ FindAppAccounts(t)
               \/ RefuseAccount(t) \/ CreateAccount(t) \/ Revoke(t) \/ StoreSkill(t)
               \/ DeleteSkill(t) \/ DeleteAccount(t)
      BY <1>0, <3>1 DEF Poll, ListAccounts, FindAccounts, CountTools, FindAppAccounts,
                        RefuseAccount, CreateAccount, Revoke, StoreSkill, DeleteSkill,
                        DeleteAccount
    <3>2. CASE RegisterActions(t) \/ StoreTools(t)
      <4>1. job[t].cur \in Owned(job[t].app)
        BY <2>0, <3>2 DEF RegisterActions, StoreTools, At, JobTyped, Adding, Owned
      <4>2. QED
        BY <1>0, <3>2, <4>1 DEF RegisterActions, StoreTools
    <3>3. CASE UnregisterTools(t) \/ DeleteTools(t)
      BY <1>0, <3>3 DEF UnregisterTools, DeleteTools, Owned
    <3>4. QED
      BY <1>6, <3>1, <3>2, <3>3 DEF JobStep
  <2>4. QED
    BY <2>1, <2>2, <2>3 DEF IntegrationTypes
<1>7. ASSUME NEW t \in Tasks, JobFails(t) PROVE IntegrationTypes'
  <2>1. Work'
    BY <1>0, <1>7, JobsStayTyped, RestTyped DEF JobFails
  <2>2. QED
    BY <1>0, <1>7, <2>1 DEF JobFails, IntegrationTypes
<1>8. CASE Restart
  <2>1. Work'
    BY <1>8, RestTyped DEF Restart
  <2>2. ASSUME NEW a \in Apps PROVE Restored(a) \in Owned(a)
    BY DEF Restored, Owned, ActiveRows
  <2>3. Tools'
    BY <1>0, <1>8, <2>2 DEF Restart, Owned
  <2>4. QED
    BY <1>0, <1>8, <2>1, <2>3 DEF Restart, IntegrationTypes
<1>9. CASE UNCHANGED integrationVars
  BY <1>9 DEF integrationVars, IntegrationTypes
<1>10. QED
  BY <1>1, <1>2, <1>4, <1>5, <1>6, <1>7, <1>8, <1>9 DEF IntegrationNext
-----------------------------------------------------------------------------
(* Orderly behaviours: operations one at a time, and no call fails.        *)

\* The tools, their rows and the skill of an app are there together, or not at all.
Whole(a) ==
  /\ (\A x \in ActiveRows : AppOf[x] # a) =>
       a \notin Stored \cup skills /\ actions[a] = NoAccount /\ utilities[a] = NoAccount
  /\ actions[a] = defs[a]
  /\ (\E x \in ActiveRows : AppOf[x] = a) =>
       a \in stripped \/ (a \in Stored \cap skills /\ utilities[a] # NoAccount)

WholeBut(apps) == \A a \in Apps \ apps : Whole(a)

\* How far the operation j has come with the tools of its app.
ToolFacts(j) ==
  /\ j.at \in {"poll", "list", "rows", "accounts", "count", "create"} => WholeBut({})
  /\ j.at \in {"listActions", "delete", "revoke", "findTools"} =>
       WholeBut({j.app}) /\ actions[j.app] = defs[j.app]
  /\ j.at = "upsertTools" => WholeBut({j.app}) /\ actions[j.app] = j.cur
  /\ j.at = "upsertSkill" =>
       /\ WholeBut({j.app})
       /\ actions[j.app] = j.cur /\ defs[j.app] = j.cur /\ utilities[j.app] = j.cur
  /\ j.at = "deleteTools" =>
       /\ WholeBut(Covered(j.app))
       /\ utilities[j.app] = NoAccount
       /\ \A b \in Covered(j.app) :
            /\ b \in stripped /\ actions[b] = NoAccount
            /\ b # j.app /\ (\A x \in ActiveRows : AppOf[x] # b) =>
                 b \notin skills /\ utilities[b] = NoAccount
  /\ j.at = "deleteSkill" =>
       /\ WholeBut({j.app}) /\ j.app \in stripped
       /\ actions[j.app] = NoAccount /\ defs[j.app] = NoAccount /\ utilities[j.app] = NoAccount

\* What it knows of the accounts is still so.
AccountFacts(j) ==
  /\ j.at \in {"rows"} \cup Adding =>
       /\ j.listed \subseteq spent
       /\ \A x \in j.listed : row[x] = "REVOKED" => x \in undeleted
  /\ j.at = "rows" => ActiveRows \cap live \subseteq j.listed
  /\ j.at \in Adding =>
       /\ j.known \subseteq ActiveRows /\ j.known \cap live \subseteq j.listed
       /\ j.todo \subseteq j.listed /\ j.todo \cap ActiveRows \subseteq j.known
       /\ j.cur \in j.listed /\ j.cur \notin j.todo
  /\ j.at \in {"count", "listActions", "upsertTools", "upsertSkill"} => j.cur \in ActiveRows
  /\ j.at = "create" => j.cur \notin ActiveRows
  /\ j.at \in Removing =>
       j.todo \subseteq spent /\ (j.kind # "disconnect" => j.todo \cap live = {})
  /\ j.at \in {"delete", "revoke"} => j.cur \in spent
  /\ j.at = "revoke" /\ j.cur \in live => j.cur \in undeleted

\* A row was authorized; one that was marked REVOKED is gone, or was not deleted.
RowFacts ==
  /\ \A x \in Accounts : /\ row[x] # "none" => x \in spent
                         /\ row[x] = "REVOKED" /\ x \in live => x \in undeleted
  /\ clashed => undeleted # {}

OrderlyInv ==
  ~disturbed =>
    /\ \A t, u \in Busy : t = u
    /\ Busy = {} => WholeBut({})
    /\ \A t \in Busy : ToolFacts(job[t]) /\ AccountFacts(job[t])
    /\ RowFacts

IntegrationInv == IntegrationTypes /\ OrderlyInv

LEMMA OrderlyInit == IntegrationInit => OrderlyInv
BY DEF IntegrationInit, OrderlyInv, Busy, Rest, WholeBut, Whole, ActiveRows, Stored, RowFacts

\* The invariant implies what the run checks.
LEMMA OrderlySuffices == IntegrationInv => ToolsFollowAccounts
BY DEF IntegrationInv, OrderlyInv, ToolsFollowAccounts, ToolsAreOfActiveAccounts,
       ActiveAccountsHaveTools, ClashExplained, Quiet, WholeBut, Whole, RowFacts, ActiveRows,
       IntegrationTypes, Apps

\* Whether an app is whole depends on its own rows, tools and skill.
LEMMA WholeDepends ==
  ASSUME NEW a, a \in Apps,
         actions'[a] = actions[a], utilities'[a] = utilities[a], defs'[a] = defs[a],
         a \in skills' <=> a \in skills, a \in stripped => a \in stripped',
         \A x \in Accounts : AppOf[x] = a => (row'[x] = "ACTIVE" <=> row[x] = "ACTIVE"),
         Whole(a)
  PROVE  Whole(a)'
<1>1. a \in Stored' <=> a \in Stored
  BY DEF Stored
<1>2. \A x \in Accounts : AppOf[x] = a => (x \in ActiveRows' <=> x \in ActiveRows)
  BY DEF ActiveRows
<1>3. ActiveRows \subseteq Accounts /\ ActiveRows' \subseteq Accounts
  BY DEF ActiveRows
<1>4. QED
  BY <1>1, <1>2, <1>3 DEF Whole

\* The step of the one operation there is keeps the invariant, when it leaves what the
\* invariant says of its next await.
LEMMA OneOperation ==
  ASSUME IntegrationTypes, OrderlyInv, ~disturbed, NEW t \in Tasks, Busy \subseteq {t}, NEW k,
         job' = [job EXCEPT ![t] = k], RowFacts',
         k.at = "idle" => WholeBut({})',
         ToolFacts(k)', AccountFacts(k)'
  PROVE  OrderlyInv'
<1>1. job' = [job EXCEPT ![t] = k] /\ DOMAIN job = Tasks /\ t \in Tasks
  BY DEF IntegrationTypes, Busy
<1>2. \A u \in Tasks \ {t} : job[u].at = "idle" /\ job'[u] = job[u]
  BY <1>1 DEF Busy
<1>3. job'[t] = k
  BY <1>1
<1>4. \A u \in Busy' : u = t
  BY <1>1, <1>2 DEF Busy
<1>5. Busy' = {} => k.at = "idle"
  BY <1>1, <1>3 DEF Busy
<1>6. \A u \in Busy' : ToolFacts(job[u])' /\ AccountFacts(job[u])'
  BY <1>3, <1>4 DEF ToolFacts, AccountFacts, WholeBut, Whole
<1>7. QED
  BY <1>4, <1>5, <1>6 DEF OrderlyInv

\* An operation at rest claims nothing of its own.
LEMMA RestClaimsNext == Rest.at = "idle" /\ ToolFacts(Rest)' /\ AccountFacts(Rest)'
BY DEF Rest, ToolFacts, AccountFacts, Adding, Removing

\* After the last step for an app, whichever way the loops go on: all apps are whole.
LEMMA LoopGoesOn ==
  ASSUME NEW k, WholeBut({})',
         k.at \in {"idle", "count", "create", "revoke", "findTools", "delete"},
         k.at \in {"revoke", "findTools", "delete"} => k.app \in Apps
  PROVE  (k.at = "idle" => WholeBut({})') /\ ToolFacts(k)'
BY DEF ToolFacts, WholeBut, Whole

\* Each step of the one operation there is keeps the invariant.
LEMMA OrderlyJobStep ==
  ASSUME IntegrationTypes, OrderlyInv, ~disturbed, NEW t \in Tasks, JobStep(t)
  PROVE  OrderlyInv'
<1> USE IntegrationAssumption DEF pipedream, registered, stored, history
<1>00. PICK j : j = job[t]
  OBVIOUS
<1> USE <1>00
<1>0. /\ j \in Jobs /\ JobTyped(j) /\ DOMAIN job = Tasks
      /\ t \in Busy
  <2>1. j.at # "idle"
    BY DEF JobStep, Poll, ListAccounts, FindAccounts, CountTools, CreateAccount, RefuseAccount,
           RegisterActions, StoreTools, StoreSkill, FindAppAccounts, DeleteAccount, Revoke,
           UnregisterTools, DeleteTools, DeleteSkill, At
  <2>2. QED
    BY <2>1 DEF Busy, IntegrationTypes
<1>1. Busy \subseteq {t} /\ ToolFacts(j) /\ AccountFacts(j) /\ RowFacts
  BY <1>0 DEF OrderlyInv
<1>2. ActiveRows \subseteq spent /\ ActiveRows \subseteq Accounts
  BY <1>1 DEF RowFacts, ActiveRows
<1>3. ASSUME NEW k, job' = [job EXCEPT ![t] = k], RowFacts',
             k.at = "idle" => WholeBut({})', ToolFacts(k)', AccountFacts(k)'
      PROVE  OrderlyInv'
  BY <1>1, <1>3, OneOperation
<1>4. ASSUME UNCHANGED <<row, defs, skills, actions, utilities, stripped>>
      PROVE  /\ WholeBut({}) => WholeBut({})'
             /\ \A a \in Apps : WholeBut({a}) => WholeBut({a})'
  BY <1>4, WholeDepends DEF WholeBut
<1>5. CASE Poll(t)
  <2>1. PICK k : /\ job' = [job EXCEPT ![t] = k]
                 /\ k = Rest \/ k = [Rest EXCEPT !.kind = "sync", !.at = "list"]
    BY <1>5 DEF Poll
  <2>2. k.at \in {"idle", "list"}
    <3>1. Rest.at = "idle" /\ [Rest EXCEPT !.kind = "sync", !.at = "list"].at = "list"
      BY DEF Rest
    <3>2. QED
      BY <2>1, <3>1
  <2>3. WholeBut({})' /\ RowFacts'
    BY <1>1, <1>4, <1>5 DEF Poll, At, ToolFacts, RowFacts
  <2>4. ToolFacts(k)' /\ AccountFacts(k)'
    BY <2>2, <2>3 DEF ToolFacts, AccountFacts, Adding, Removing
  <2>5. QED
    BY <1>3, <2>1, <2>3, <2>4
<1>6. CASE ListAccounts(t)
  <2>1. PICK k : k = [j EXCEPT !.at = "rows", !.listed = live]
    OBVIOUS
  <2>2. k.at = "rows" /\ k.listed = live /\ job' = [job EXCEPT ![t] = k]
    BY <1>0, <1>6, <2>1 DEF ListAccounts, Jobs
  <2>3. WholeBut({})' /\ RowFacts'
    BY <1>1, <1>4, <1>6 DEF ListAccounts, At, ToolFacts, RowFacts
  <2>4. ToolFacts(k)'
    BY <2>2, <2>3 DEF ToolFacts
  <2>5. AccountFacts(k)'
    BY <1>1, <1>6, <2>2 DEF AccountFacts, Adding, Removing, ListAccounts, RowFacts, ActiveRows,
                            IntegrationTypes
  <2>6. QED
    BY <1>3, <2>2, <2>3, <2>4, <2>5
<1>7. CASE FindAccounts(t)
  <2> DEFINE i == [j EXCEPT !.known = ActiveRows, !.todo = j.listed]
  <2>1. PICK k \in NextAddition(i) : job' = [job EXCEPT ![t] = k]
    BY <1>7 DEF FindAccounts
  <2>2. /\ i \in Jobs /\ i.kind = j.kind /\ i.known = ActiveRows /\ i.todo = j.listed
        /\ i.listed = j.listed
    BY <1>0, <1>2 DEF Jobs
  <2>3. j.at = "rows" /\ UNCHANGED <<live, spent, row, undeleted, clashed>>
    BY <1>7 DEF FindAccounts, At
  <2> HIDE DEF i
  <2>4. WholeBut({})' /\ RowFacts'
    BY <1>1, <1>4, <1>7, <2>3 DEF FindAccounts, ToolFacts, RowFacts
  <2>5. \/ k = Rest
        \/ k.at = "revoke" /\ k.app = AppOf[k.cur] /\ k.cur \in ActiveRows \ j.listed
           /\ k.todo \subseteq ActiveRows \ j.listed
        \/ /\ k.at \in {"count", "create"} /\ k.listed = j.listed /\ k.known = ActiveRows
           /\ k.cur \in j.listed /\ k.todo = j.listed \ {k.cur}
           /\ k.at = "count" <=> k.cur \in ActiveRows
    BY <2>1, <2>2, AdditionGoesOn
  <2>6. k.at \in {"idle", "count", "create", "revoke"} /\ (k.at = "revoke" => k.app \in Apps)
    BY <1>2, <2>5 DEF Rest, Apps
  <2>7. ToolFacts(k)' /\ (k.at = "idle" => WholeBut({})')
    BY <2>4, <2>6, LoopGoesOn
  <2>8. AccountFacts(k)'
    <3>1. CASE k = Rest
      BY <3>1, RestClaimsNext
    <3>2. CASE k.at = "revoke"
      BY <1>1, <1>2, <2>3, <2>5, <3>2 DEF AccountFacts, Adding, Removing, Rest
    <3>3. CASE k.at \in {"count", "create"}
      BY <1>1, <1>2, <2>3, <2>5, <3>3 DEF AccountFacts, Adding, Removing, ActiveRows, Rest
    <3>4. QED
      BY <2>5, <3>1, <3>2, <3>3
  <2>9. QED
    BY <1>3, <2>1, <2>4, <2>7, <2>8
<1>8. CASE CountTools(t)
  <2>1. /\ j.at = "count" /\ UNCHANGED <<live, spent, row, defs, skills, actions, utilities,
                                         stripped, undeleted, clashed>>
    BY <1>8 DEF CountTools, At
  <2>2. WholeBut({})' /\ RowFacts'
    BY <1>1, <1>4, <2>1 DEF ToolFacts, RowFacts
  <2>3. CASE \E k \in NextAddition(job[t]) : job' = [job EXCEPT ![t] = k]
    <3>1. PICK k \in NextAddition(j) : job' = [job EXCEPT ![t] = k]
      BY <2>3
    <3>2. \/ k = Rest
          \/ k.at = "revoke" /\ k.app = AppOf[k.cur] /\ k.cur \in j.known \ j.listed
             /\ k.todo \subseteq j.known \ j.listed
          \/ /\ k.at \in {"count", "create"} /\ k.listed = j.listed /\ k.known = j.known
             /\ k.cur \in j.todo /\ k.todo = j.todo \ {k.cur}
             /\ k.at = "count" <=> k.cur \in j.known
      BY <1>0, <3>1, AdditionGoesOn
    <3>3. j.known \subseteq Accounts
      BY <1>0 DEF Jobs
    <3>4. k.at \in {"idle", "count", "create", "revoke"} /\ (k.at = "revoke" => k.app \in Apps)
      BY <3>2, <3>3 DEF Rest, Apps
    <3>5. ToolFacts(k)' /\ (k.at = "idle" => WholeBut({})')
      BY <2>2, <3>4, LoopGoesOn
    <3>6. AccountFacts(k)'
      <4>1. CASE k = Rest
        BY <4>1, RestClaimsNext
      <4>2. CASE k.at = "revoke"
        BY <1>1, <1>2, <2>1, <3>2, <4>2 DEF AccountFacts, Adding, Removing, Rest
      <4>3. CASE k.at \in {"count", "create"}
        BY <1>1, <1>2, <2>1, <3>2, <4>3 DEF AccountFacts, Adding, Removing, ActiveRows, Rest
      <4>4. QED
        BY <3>2, <4>1, <4>2, <4>3
    <3>7. QED
      BY <1>3, <2>2, <3>1, <3>5, <3>6
  <2>4. CASE Goto(t, "listActions")
    <3>1. PICK k : k = [j EXCEPT !.at = "listActions"]
      OBVIOUS
    <3>2. /\ k.at = "listActions" /\ k.app = j.app /\ k.listed = j.listed /\ k.known = j.known
          /\ k.todo = j.todo /\ k.cur = j.cur /\ job' = [job EXCEPT ![t] = k]
      BY <1>0, <2>4, <3>1 DEF Goto, Jobs
    <3>3. j.app \in Apps
      BY <1>0, <2>1 DEF JobTyped, Adding, Apps
    <3>4. ToolFacts(k)'
      BY <2>2, <3>2, <3>3 DEF ToolFacts, WholeBut, Whole
    <3>5. AccountFacts(k)'
      BY <1>1, <2>1, <3>2 DEF AccountFacts, Adding, Removing, ActiveRows
    <3>6. QED
      BY <1>3, <2>2, <3>2, <3>4, <3>5
  <2>5. QED
    BY <1>8, <2>3, <2>4 DEF CountTools
<1>9. CASE CreateAccount(t)
  <2>1. /\ j.at = "create" /\ row[j.cur] = "none" /\ row' = [row EXCEPT ![j.cur] = "ACTIVE"]
        /\ Goto(t, "listActions")
        /\ UNCHANGED <<live, spent, defs, skills, actions, utilities, stripped, undeleted, clashed>>
    BY <1>9 DEF CreateAccount, At
  <2>2. PICK k : k = [j EXCEPT !.at = "listActions"]
    OBVIOUS
  <2>3. /\ k.at = "listActions" /\ k.app = j.app /\ k.listed = j.listed /\ k.known = j.known
        /\ k.todo = j.todo /\ k.cur = j.cur /\ job' = [job EXCEPT ![t] = k]
    BY <1>0, <2>1, <2>2 DEF Goto, Jobs
  <2>4. /\ j.app \in Apps /\ j.cur \in Accounts /\ AppOf[j.cur] = j.app /\ DOMAIN row = Accounts
    BY <1>0, <2>1 DEF JobTyped, Adding, Apps, IntegrationTypes
  <2>5. ActiveRows' = ActiveRows \cup {j.cur}
    BY <2>1, <2>4 DEF ActiveRows
  <2>6. WholeBut({j.app})'
    <3>1. ASSUME NEW b \in Apps, b # j.app PROVE Whole(b)'
      <4>1. Whole(b)
        BY <1>1, <2>1, <3>1 DEF ToolFacts, WholeBut
      <4>2. QED
        BY <2>1, <2>4, <3>1, <4>1, WholeDepends
    <3>2. QED
      BY <3>1 DEF WholeBut
  <2>7. actions[j.app] = defs[j.app]
    BY <1>1, <2>1, <2>4 DEF ToolFacts, WholeBut, Whole
  <2>8. ToolFacts(k)'
    BY <2>1, <2>3, <2>6, <2>7 DEF ToolFacts, WholeBut, Whole
  <2>9. AccountFacts(k)'
    BY <1>1, <2>1, <2>3, <2>4, <2>5 DEF AccountFacts, Adding, Removing
  <2>10. RowFacts'
    BY <1>1, <2>1, <2>4 DEF RowFacts, AccountFacts, Adding
  <2>11. QED
    BY <1>3, <2>3, <2>8, <2>9, <2>10
<1>10. CASE RefuseAccount(t)
  <2>1. /\ j.at = "create" /\ row[j.cur] # "none" /\ job' = [job EXCEPT ![t] = Rest]
        /\ UNCHANGED <<live, spent, row, defs, skills, actions, utilities, stripped, undeleted>>
    BY <1>10 DEF RefuseAccount, At
  <2>2. WholeBut({})'
    BY <1>1, <1>4, <2>1 DEF ToolFacts
  <2>3. j.cur \in undeleted
    <3>1. j.cur \in Accounts /\ j.cur \in j.listed /\ j.cur \notin ActiveRows
      BY <1>0, <1>1, <2>1 DEF JobTyped, AccountFacts, Adding
    <3>2. row[j.cur] = "REVOKED"
      BY <2>1, <3>1 DEF ActiveRows, IntegrationTypes
    <3>3. QED
      BY <1>1, <2>1, <3>1, <3>2 DEF AccountFacts, Adding
  <2>4. RowFacts'
    BY <1>1, <2>1, <2>3 DEF RowFacts
  <2>5. QED
    BY <1>3, <2>1, <2>2, <2>4, RestClaimsNext
<1>11. CASE RegisterActions(t)
  <2>1. /\ j.at = "listActions" /\ actions' = [actions EXCEPT ![j.app] = j.cur]
        /\ Goto(t, "upsertTools")
        /\ UNCHANGED <<live, spent, row, defs, skills, utilities, stripped, undeleted, clashed>>
    BY <1>11 DEF RegisterActions, At
  <2>2. PICK k : k = [j EXCEPT !.at = "upsertTools"]
    OBVIOUS
  <2>3. /\ k.at = "upsertTools" /\ k.app = j.app /\ k.listed = j.listed /\ k.known = j.known
        /\ k.todo = j.todo /\ k.cur = j.cur /\ job' = [job EXCEPT ![t] = k]
    BY <1>0, <2>1, <2>2 DEF Goto, Jobs
  <2>4. j.app \in Apps /\ DOMAIN actions = Apps
    BY <1>0, <2>1 DEF JobTyped, Adding, Apps, IntegrationTypes
  <2>5. WholeBut({j.app})'
    <3>1. ASSUME NEW b \in Apps, b # j.app PROVE Whole(b)'
      <4>1. Whole(b)
        BY <1>1, <2>1, <3>1 DEF ToolFacts, WholeBut
      <4>2. QED
        BY <2>1, <2>4, <3>1, <4>1, WholeDepends
    <3>2. QED
      BY <3>1 DEF WholeBut
  <2>6. ToolFacts(k)'
    BY <2>1, <2>3, <2>4, <2>5 DEF ToolFacts, WholeBut, Whole
  <2>7. AccountFacts(k)' /\ RowFacts'
    BY <1>1, <2>1, <2>3 DEF AccountFacts, Adding, Removing, ActiveRows, RowFacts
  <2>8. QED
    BY <1>3, <2>3, <2>6, <2>7
<1>12. CASE StoreTools(t)
  <2>1. /\ j.at = "upsertTools" /\ defs' = [defs EXCEPT ![j.app] = j.cur]
        /\ utilities' = [utilities EXCEPT ![j.app] = j.cur] /\ Goto(t, "upsertSkill")
        /\ UNCHANGED <<live, spent, row, skills, actions, stripped, undeleted, clashed>>
    BY <1>12 DEF StoreTools, At
  <2>2. PICK k : k = [j EXCEPT !.at = "upsertSkill"]
    OBVIOUS
  <2>3. /\ k.at = "upsertSkill" /\ k.app = j.app /\ k.listed = j.listed /\ k.known = j.known
        /\ k.todo = j.todo /\ k.cur = j.cur /\ job' = [job EXCEPT ![t] = k]
    BY <1>0, <2>1, <2>2 DEF Goto, Jobs
  <2>4. j.app \in Apps /\ DOMAIN defs = Apps /\ DOMAIN utilities = Apps
    BY <1>0, <2>1 DEF JobTyped, Adding, Apps, IntegrationTypes
  <2>5. WholeBut({j.app})'
    <3>1. ASSUME NEW b \in Apps, b # j.app PROVE Whole(b)'
      <4>1. Whole(b)
        BY <1>1, <2>1, <3>1 DEF ToolFacts, WholeBut
      <4>2. QED
        BY <2>1, <2>4, <3>1, <4>1, WholeDepends
    <3>2. QED
      BY <3>1 DEF WholeBut
  <2>6. actions[j.app] = j.cur
    BY <1>1, <2>1 DEF ToolFacts
  <2>7. ToolFacts(k)'
    BY <2>1, <2>3, <2>4, <2>5, <2>6 DEF ToolFacts, WholeBut, Whole
  <2>8. AccountFacts(k)' /\ RowFacts'
    BY <1>1, <2>1, <2>3 DEF AccountFacts, Adding, Removing, ActiveRows, RowFacts
  <2>9. QED
    BY <1>3, <2>3, <2>7, <2>8
<1>13. CASE StoreSkill(t)
  <2>1. /\ j.at = "upsertSkill" /\ skills' = skills \cup {j.app} /\ stripped' = stripped \ {j.app}
        /\ UNCHANGED <<live, spent, row, defs, actions, utilities, undeleted, clashed>>
    BY <1>13 DEF StoreSkill, At
  <2>2. PICK k \in NextAddition(j) : job' = [job EXCEPT ![t] = k]
    BY <1>13 DEF StoreSkill
  <2>3. \/ k = Rest
        \/ k.at = "revoke" /\ k.app = AppOf[k.cur] /\ k.cur \in j.known \ j.listed
           /\ k.todo \subseteq j.known \ j.listed
        \/ /\ k.at \in {"count", "create"} /\ k.listed = j.listed /\ k.known = j.known
           /\ k.cur \in j.todo /\ k.todo = j.todo \ {k.cur}
           /\ k.at = "count" <=> k.cur \in j.known
    BY <1>0, <2>2, AdditionGoesOn
  <2>4. j.known \subseteq Accounts /\ j.app \in Apps /\ j.cur \in Accounts /\ AppOf[j.cur] = j.app
    BY <1>0, <2>1 DEF Jobs, JobTyped, Adding, Apps
  <2>5. WholeBut({})'
    <3>1. ASSUME NEW b \in Apps, b # j.app PROVE Whole(b)'
      <4>1. Whole(b)
        BY <1>1, <2>1, <3>1 DEF ToolFacts, WholeBut
      <4>2. QED
        BY <2>1, <2>4, <3>1, <4>1, WholeDepends
    <3>2. Whole(j.app)'
      <4>1. /\ actions'[j.app] = j.cur /\ defs'[j.app] = j.cur /\ utilities'[j.app] = j.cur
            /\ j.cur # NoAccount /\ j.cur \in ActiveRows'
        BY <1>1, <2>1, <2>4 DEF ToolFacts, AccountFacts, ActiveRows
      <4>2. j.app \in Stored' /\ j.app \in skills'
        BY <2>1, <2>4, <4>1 DEF Stored
      <4>3. QED
        BY <2>4, <4>1, <4>2 DEF Whole
    <3>3. QED
      BY <3>1, <3>2 DEF WholeBut
  <2>6. k.at \in {"idle", "count", "create", "revoke"} /\ (k.at = "revoke" => k.app \in Apps)
    BY <2>3, <2>4 DEF Rest, Apps
  <2>7. ToolFacts(k)' /\ (k.at = "idle" => WholeBut({})')
    BY <2>5, <2>6, LoopGoesOn
  <2>8. AccountFacts(k)'
    <3>1. CASE k = Rest
      BY <3>1, RestClaimsNext
    <3>2. CASE k.at = "revoke"
      BY <1>1, <1>2, <2>1, <2>3, <3>2 DEF AccountFacts, Adding, Removing, Rest
    <3>3. CASE k.at \in {"count", "create"}
      BY <1>1, <1>2, <2>1, <2>3, <3>3 DEF AccountFacts, Adding, Removing, ActiveRows, Rest
    <3>4. QED
      BY <2>3, <3>1, <3>2, <3>3
  <2>9. RowFacts'
    BY <1>1, <2>1 DEF RowFacts
  <2>10. QED
    BY <1>3, <2>2, <2>7, <2>8, <2>9
<1>14. CASE FindAppAccounts(t)
  <2> DEFINE i == [j EXCEPT !.todo = {x \in ActiveRows : AppOf[x] = j.app}]
  <2>1. PICK k \in NextDeletion(i) : job' = [job EXCEPT ![t] = k]
    BY <1>14 DEF FindAppAccounts
  <2>2. /\ i \in Jobs /\ i.kind = j.kind /\ i.app = j.app /\ i.todo \subseteq ActiveRows
    BY <1>0, <1>2 DEF Jobs
  <2>3. /\ j.at = "accounts" /\ j.kind = "disconnect" /\ j.app \in Apps
        /\ UNCHANGED <<live, spent, row, undeleted, clashed>>
    BY <1>0, <1>14 DEF FindAppAccounts, At, JobTyped
  <2> HIDE DEF i
  <2>4. WholeBut({})' /\ RowFacts'
    BY <1>1, <1>4, <1>14, <2>3 DEF FindAppAccounts, ToolFacts, RowFacts
  <2>5. /\ k.kind = "disconnect" /\ k.app = j.app /\ k.todo \subseteq ActiveRows
        /\ k.at = "findTools" \/ (k.at = "delete" /\ k.cur \in ActiveRows)
    BY <2>1, <2>2, <2>3, DeletionGoesOn
  <2>6. ToolFacts(k)' /\ (k.at = "idle" => WholeBut({})')
    BY <2>3, <2>4, <2>5, LoopGoesOn
  <2>7. AccountFacts(k)'
    BY <1>2, <2>3, <2>5 DEF AccountFacts, Adding, Removing
  <2>8. QED
    BY <1>3, <2>1, <2>4, <2>6, <2>7
<1>15. CASE DeleteAccount(t)
  <2>1. /\ j.at = "delete" /\ Goto(t, "revoke")
        /\ \/ live' = live \ {j.cur} /\ undeleted' = undeleted
           \/ live' = live /\ undeleted' = undeleted \cup {j.cur}
        /\ UNCHANGED <<spent, row, defs, skills, actions, utilities, stripped, clashed>>
    BY <1>15 DEF DeleteAccount, At
  <2>2. PICK k : k = [j EXCEPT !.at = "revoke"]
    OBVIOUS
  <2>3. /\ k.at = "revoke" /\ k.app = j.app /\ k.kind = j.kind
        /\ k.todo = j.todo /\ k.cur = j.cur /\ job' = [job EXCEPT ![t] = k]
    BY <1>0, <2>1, <2>2 DEF Goto, Jobs
  <2>4. j.app \in Apps /\ j.kind = "disconnect"
    BY <1>0, <2>1 DEF JobTyped, Removing
  <2>5. WholeBut({j.app})' /\ actions[j.app] = defs[j.app]
    BY <1>1, <1>4, <2>1, <2>4 DEF ToolFacts
  <2>6. ToolFacts(k)'
    BY <2>1, <2>3, <2>5 DEF ToolFacts, WholeBut, Whole
  <2>7. AccountFacts(k)' /\ RowFacts'
    BY <1>1, <2>1, <2>3, <2>4 DEF AccountFacts, Adding, Removing, RowFacts
  <2>8. QED
    BY <1>3, <2>3, <2>6, <2>7
<1>16. CASE Revoke(t)
  <2>1. /\ j.at = "revoke" /\ row' = [row EXCEPT ![j.cur] = "REVOKED"]
        /\ UNCHANGED <<live, spent, defs, skills, actions, utilities, stripped, undeleted, clashed>>
    BY <1>16 DEF Revoke, At
  <2>2. /\ j.app \in Apps /\ j.cur \in Accounts /\ AppOf[j.cur] = j.app /\ DOMAIN row = Accounts
    BY <1>0, <2>1 DEF JobTyped, Removing, IntegrationTypes
  <2>3. PICK k : /\ job' = [job EXCEPT ![t] = k] /\ k.kind = j.kind /\ k.app = j.app
                 /\ k.todo \subseteq j.todo
                 /\ k.at = "findTools" \/ (k.at = "delete" /\ k.cur \in j.todo)
    <3>1. CASE j.kind = "disconnect"
      <4>1. PICK k \in NextDeletion(j) : job' = [job EXCEPT ![t] = k]
        BY <1>16, <3>1 DEF Revoke
      <4>2. QED
        BY <1>0, <4>1, DeletionGoesOn
    <3>2. CASE j.kind # "disconnect"
      BY <1>0, <1>16, <3>2 DEF Revoke, Goto, Jobs
    <3>3. QED
      BY <3>1, <3>2
  <2>4. WholeBut({j.app})' /\ actions[j.app] = defs[j.app]
    <3>1. ASSUME NEW b \in Apps, b # j.app PROVE Whole(b)'
      <4>1. Whole(b)
        BY <1>1, <2>1, <3>1 DEF ToolFacts, WholeBut
      <4>2. QED
        BY <2>1, <2>2, <3>1, <4>1, WholeDepends
    <3>2. QED
      BY <1>1, <2>1, <3>1 DEF WholeBut, ToolFacts
  <2>5. ToolFacts(k)'
    BY <2>1, <2>3, <2>4 DEF ToolFacts, WholeBut, Whole
  <2>6. AccountFacts(k)'
    BY <1>1, <2>1, <2>3 DEF AccountFacts, Adding, Removing
  <2>7. RowFacts'
    BY <1>1, <2>1, <2>2 DEF RowFacts, AccountFacts, Removing
  <2>8. QED
    BY <1>3, <2>3, <2>5, <2>6, <2>7
<1>17. CASE UnregisterTools(t)
  <2>1. /\ j.at = "findTools" /\ Goto(t, "deleteTools")
        /\ actions' = [a \in Apps |-> IF a \in Covered(j.app) \cap Stored THEN NoAccount ELSE actions[a]]
        /\ utilities' = [utilities EXCEPT ![j.app] = NoAccount]
        /\ stripped' = stripped \cup Covered(j.app)
        /\ UNCHANGED <<live, spent, row, defs, skills, undeleted, clashed>>
    BY <1>17 DEF UnregisterTools, At
  <2>2. PICK k : k = [j EXCEPT !.at = "deleteTools"]
    OBVIOUS
  <2>3. /\ k.at = "deleteTools" /\ k.app = j.app /\ k.kind = j.kind
        /\ k.todo = j.todo /\ k.cur = j.cur /\ job' = [job EXCEPT ![t] = k]
    BY <1>0, <2>1, <2>2 DEF Goto, Jobs
  <2>4. j.app \in Apps /\ j.app \in Covered(j.app) /\ Covered(j.app) \subseteq Apps
        /\ DOMAIN utilities = Apps
    BY <1>0, <2>1 DEF JobTyped, Removing, Covered, IntegrationTypes
  <2>5. WholeBut({j.app}) /\ actions[j.app] = defs[j.app]
    BY <1>1, <2>1 DEF ToolFacts
  <2>6. WholeBut(Covered(j.app))'
    <3>1. ASSUME NEW b \in Apps \ Covered(j.app) PROVE Whole(b)'
      <4>1. Whole(b) /\ b # j.app
        BY <2>4, <2>5, <3>1 DEF WholeBut
      <4>2. QED
        BY <2>1, <2>4, <3>1, <4>1, WholeDepends
    <3>2. QED
      BY <3>1 DEF WholeBut
  <2>7. ASSUME NEW b \in Covered(j.app)
        PROVE  /\ b \in stripped' /\ actions'[b] = NoAccount
               /\ b # j.app /\ (\A x \in ActiveRows' : AppOf[x] # b) =>
                    b \notin skills' /\ utilities'[b] = NoAccount
    <3>1. b \in Apps /\ actions[b] = defs[b]
      BY <2>4, <2>5, <2>7 DEF WholeBut, Whole
    <3>2. actions'[b] = NoAccount
      BY <2>1, <2>7, <3>1 DEF Stored
    <3>3. ActiveRows' = ActiveRows
      BY <2>1 DEF ActiveRows
    <3>4. ASSUME b # j.app, \A x \in ActiveRows' : AppOf[x] # b
          PROVE  b \notin skills' /\ utilities'[b] = NoAccount
      BY <2>1, <2>4, <2>5, <3>1, <3>3, <3>4 DEF WholeBut, Whole
    <3>5. QED
      BY <2>1, <2>7, <3>2, <3>4
  <2>8. ToolFacts(k)'
    <3>1. utilities'[j.app] = NoAccount
      BY <2>1, <2>4
    <3>2. QED
      BY <2>3, <2>6, <2>7, <3>1 DEF ToolFacts, WholeBut, Whole
  <2>9. AccountFacts(k)' /\ RowFacts'
    BY <1>1, <2>1, <2>3 DEF AccountFacts, Adding, Removing, RowFacts
  <2>10. QED
    BY <1>3, <2>3, <2>8, <2>9
<1>18. CASE DeleteTools(t)
  <2>1. /\ j.at = "deleteTools" /\ Goto(t, "deleteSkill")
        /\ defs' = [a \in Apps |-> IF a \in Covered(j.app) THEN NoAccount ELSE defs[a]]
        /\ UNCHANGED <<live, spent, row, skills, actions, utilities, stripped, undeleted, clashed>>
    BY <1>18 DEF DeleteTools, At
  <2>2. PICK k : k = [j EXCEPT !.at = "deleteSkill"]
    OBVIOUS
  <2>3. /\ k.at = "deleteSkill" /\ k.app = j.app /\ k.kind = j.kind
        /\ k.todo = j.todo /\ k.cur = j.cur /\ job' = [job EXCEPT ![t] = k]
    BY <1>0, <2>1, <2>2 DEF Goto, Jobs
  <2>4. j.app \in Apps /\ j.app \in Covered(j.app) /\ Covered(j.app) \subseteq Apps
    BY <1>0, <2>1 DEF JobTyped, Removing, Covered
  <2>5. /\ WholeBut(Covered(j.app)) /\ utilities[j.app] = NoAccount
        /\ \A b \in Covered(j.app) :
            /\ b \in stripped /\ actions[b] = NoAccount
            /\ b # j.app /\ (\A x \in ActiveRows : AppOf[x] # b) =>
                 b \notin skills /\ utilities[b] = NoAccount
    BY <1>1, <2>1 DEF ToolFacts
  <2>6. WholeBut({j.app})'
    <3>1. ASSUME NEW b \in Apps \ Covered(j.app) PROVE Whole(b)'
      <4>1. Whole(b)
        BY <2>5, <3>1 DEF WholeBut
      <4>2. QED
        BY <2>1, <3>1, <4>1, WholeDepends
    <3>2. ASSUME NEW b \in Covered(j.app), b # j.app PROVE Whole(b)'
      <4>1. ActiveRows' = ActiveRows /\ b \in Apps /\ defs'[b] = NoAccount /\ b \notin Stored'
        BY <2>1, <2>4, <3>2 DEF ActiveRows, Stored
      <4>2. QED
        BY <2>1, <2>5, <3>2, <4>1 DEF Whole
    <3>3. QED
      BY <3>1, <3>2 DEF WholeBut
  <2>7. ToolFacts(k)'
    <3>1. defs'[j.app] = NoAccount
      BY <2>1, <2>4
    <3>2. QED
      BY <2>1, <2>3, <2>4, <2>5, <2>6, <3>1 DEF ToolFacts, WholeBut, Whole
  <2>8. AccountFacts(k)' /\ RowFacts'
    BY <1>1, <2>1, <2>3 DEF AccountFacts, Adding, Removing, RowFacts
  <2>9. QED
    BY <1>3, <2>3, <2>7, <2>8
<1>19. CASE DeleteSkill(t)
  <2>1. /\ j.at = "deleteSkill" /\ skills' = skills \ {j.app}
        /\ UNCHANGED <<live, spent, row, defs, actions, utilities, stripped, undeleted, clashed>>
    BY <1>19 DEF DeleteSkill, At
  <2>2. /\ WholeBut({j.app}) /\ j.app \in stripped
        /\ actions[j.app] = NoAccount /\ defs[j.app] = NoAccount /\ utilities[j.app] = NoAccount
    BY <1>1, <2>1 DEF ToolFacts
  <2>3. WholeBut({})'
    <3>1. ASSUME NEW b \in Apps, b # j.app PROVE Whole(b)'
      <4>1. Whole(b)
        BY <2>2, <3>1 DEF WholeBut
      <4>2. QED
        BY <2>1, <3>1, <4>1, WholeDepends
    <3>2. Whole(j.app)'
      BY <2>1, <2>2 DEF Whole, Stored
    <3>3. QED
      BY <3>1, <3>2 DEF WholeBut
  <2>4. PICK k : /\ job' = [job EXCEPT ![t] = k]
                 /\ \/ k = Rest
                    \/ /\ k.at = "revoke" /\ k.kind # "disconnect" /\ j.kind # "disconnect"
                       /\ k.cur \in j.todo /\ k.app = AppOf[k.cur] /\ k.todo \subseteq j.todo
    <3>1. CASE j.kind = "disconnect"
      BY <1>19, <3>1 DEF DeleteSkill
    <3>2. CASE j.kind # "disconnect"
      <4>1. PICK k \in NextRemoval(j) : job' = [job EXCEPT ![t] = k]
        BY <1>19, <3>2 DEF DeleteSkill
      <4>2. QED
        BY <1>0, <3>2, <4>1, RemovalGoesOn
    <3>3. QED
      BY <3>1, <3>2
  <2>5. k.at \in {"idle", "revoke"} /\ (k.at = "revoke" => k.app \in Apps)
    <3>1. j.todo \subseteq Accounts
      BY <1>0 DEF Jobs
    <3>2. QED
      BY <2>4, <3>1 DEF Rest, Apps
  <2>6. ToolFacts(k)' /\ (k.at = "idle" => WholeBut({})')
    BY <2>3, <2>5, LoopGoesOn
  <2>7. AccountFacts(k)'
    <3>1. CASE k = Rest
      BY <3>1, RestClaimsNext
    <3>2. CASE k # Rest
      BY <1>1, <2>1, <2>4, <3>2 DEF AccountFacts, Adding, Removing
    <3>3. QED
      BY <3>1, <3>2
  <2>8. RowFacts'
    BY <1>1, <2>1 DEF RowFacts
  <2>9. QED
    BY <1>3, <2>4, <2>6, <2>7, <2>8
<1>20. QED
  BY <1>5, <1>6, <1>7, <1>8, <1>9, <1>10, <1>11, <1>12, <1>13, <1>14, <1>15, <1>16, <1>17,
     <1>18, <1>19 DEF JobStep

\* Every step keeps the invariant.
LEMMA OrderlyStep ==
  IntegrationInv /\ [IntegrationNext]_integrationVars => OrderlyInv'
<1> SUFFICES ASSUME IntegrationTypes, OrderlyInv, [IntegrationNext]_integrationVars
             PROVE  OrderlyInv'
  BY DEF IntegrationInv
<1> USE IntegrationAssumption DEF pipedream, registered, stored, history
<1>1. ASSUME NEW a \in Apps, Watch(a) \/ WatchExpires(a) PROVE OrderlyInv'
  BY <1>1 DEF Watch, WatchExpires, OrderlyInv, Busy, WholeBut, Whole, ActiveRows, Stored,
              RowFacts, ToolFacts, AccountFacts
<1>2. ASSUME NEW x \in Accounts, Authorize(x) \/ Withdraw(x), ~disturbed PROVE OrderlyInv'
  <2>1. /\ UNCHANGED <<row, defs, skills, actions, utilities, job, stripped, undeleted, disturbed,
                       clashed>>
        /\ \/ x \notin spent /\ live' = live \cup {x} /\ spent' = spent \cup {x}
           \/ live' = live \ {x} /\ spent' = spent
    BY <1>2 DEF Authorize, Withdraw
  <2>2. RowFacts /\ ActiveRows \subseteq spent /\ ActiveRows' = ActiveRows
    BY <1>2, <2>1 DEF OrderlyInv, RowFacts, ActiveRows
  <2>3. RowFacts'
    BY <2>1, <2>2 DEF RowFacts, IntegrationTypes
  <2>4. ASSUME NEW t \in Busy PROVE AccountFacts(job[t])'
    <3>1. AccountFacts(job[t])
      BY <1>2, <2>4 DEF OrderlyInv
    <3>2. PICK k : k = job[t] /\ k = job'[t]
      BY <2>1
    <3>3. AccountFacts(k)
      BY <3>1, <3>2
    <3>4. AccountFacts(k)'
      BY <2>1, <2>2, <3>3 DEF AccountFacts, Adding
    <3>5. QED
      BY <3>2, <3>4 DEF AccountFacts
  <2>5. /\ Busy' = Busy /\ (WholeBut({}) => WholeBut({})')
        /\ \A t \in Busy : ToolFacts(job[t]) => ToolFacts(job[t])'
    BY <2>1 DEF Busy, ToolFacts, WholeBut, Whole, ActiveRows, Stored
  <2>6. QED
    BY <1>2, <2>3, <2>4, <2>5 DEF OrderlyInv
<1>3. ASSUME NEW t \in Tasks, NEW k, k.at \in {"poll", "list", "accounts"}, Begin(t, k),
             ~disturbed'
      PROVE  OrderlyInv'
  <2>1. /\ Busy = {} /\ ~disturbed /\ job' = [job EXCEPT ![t] = k]
        /\ UNCHANGED <<live, spent, row, defs, skills, actions, utilities, stripped, undeleted,
                       clashed>>
    BY <1>3 DEF Begin
  <2>2. WholeBut({}) /\ RowFacts
    BY <2>1 DEF OrderlyInv
  <2>3. WholeBut({})' /\ RowFacts'
    BY <2>1, <2>2, WholeDepends DEF WholeBut, RowFacts
  <2>4. ToolFacts(k)' /\ AccountFacts(k)'
    BY <1>3, <2>3 DEF ToolFacts, AccountFacts, Adding, Removing
  <2>5. QED
    BY <2>1, <2>3, <2>4, OneOperation
<1>4. ASSUME NEW t \in Tasks, NEW a \in Apps, StartPoll(t, a) \/ StartDisconnect(t, a),
             ~disturbed'
      PROVE  OrderlyInv'
  <2> DEFINE p == [Rest EXCEPT !.kind = "poll", !.at = "poll", !.app = a]
             d == [Rest EXCEPT !.kind = "disconnect", !.at = "accounts", !.app = a]
  <2>1. p.at = "poll" /\ d.at = "accounts"
    BY DEF Rest
  <2>2. Begin(t, p) \/ Begin(t, d)
    BY <1>4 DEF StartPoll, StartDisconnect
  <2> HIDE DEF p, d
  <2>3. QED
    BY <1>3, <1>4, <2>1, <2>2
<1>5. ASSUME NEW t \in Tasks, StartSync(t), ~disturbed' PROVE OrderlyInv'
  <2> DEFINE k == [Rest EXCEPT !.kind = "sync", !.at = "list"]
  <2>1. k.at = "list" /\ Begin(t, k)
    BY <1>5 DEF Rest, StartSync
  <2> HIDE DEF k
  <2>2. QED
    BY <1>3, <1>5, <2>1
<1>6. ASSUME NEW t \in Tasks, JobStep(t), ~disturbed PROVE OrderlyInv'
  BY <1>6, OrderlyJobStep
<1>7. CASE Restart /\ ~disturbed'
  <2>1. /\ Busy = {} /\ ~disturbed /\ job' = [t \in Tasks |-> Rest]
        /\ actions' = defs
        /\ utilities' = [a \in Apps |-> IF a \in Stored THEN Restored(a) ELSE NoAccount]
        /\ UNCHANGED <<live, spent, row, defs, skills, stripped, undeleted, clashed>>
    BY <1>7 DEF Restart
  <2>2. WholeBut({}) /\ RowFacts
    BY <2>1 DEF OrderlyInv
  <2>3. ASSUME NEW a \in Apps PROVE Whole(a)'
    <3>1. Whole(a)
      BY <2>2, <2>3 DEF WholeBut
    <3>2. (\E x \in ActiveRows : AppOf[x] = a) => Restored(a) \in ActiveRows
      BY DEF Restored
    <3>3. NoAccount \notin ActiveRows /\ ActiveRows' = ActiveRows /\ Stored' = Stored
      BY <2>1 DEF ActiveRows, Stored
    <3>4. utilities'[a] = IF a \in Stored THEN Restored(a) ELSE NoAccount
      BY <2>1, <2>3
    <3>5. QED
      BY <2>1, <3>1, <3>2, <3>3, <3>4 DEF Whole
  <2>4. WholeBut({})' /\ RowFacts'
    BY <2>1, <2>2, <2>3 DEF WholeBut, RowFacts
  <2>5. Busy' = {}
    BY <2>1 DEF Busy, Rest
  <2>6. QED
    BY <2>4, <2>5 DEF OrderlyInv
<1>8. CASE UNCHANGED integrationVars
  BY <1>8 DEF integrationVars, OrderlyInv, Busy, WholeBut, Whole, ActiveRows, Stored,
              RowFacts, ToolFacts, AccountFacts
<1>9. ASSUME NEW t \in Tasks, JobFails(t) PROVE disturbed'
  BY <1>9, Zenon DEF JobFails
<1>10. ASSUME IntegrationNext, ~disturbed' PROVE ~disturbed
  BY <1>10, Zenon DEF IntegrationNext, JobStep, Watch, WatchExpires, Authorize, Withdraw, Begin,
               StartSync, StartPoll, StartDisconnect, JobFails, Restart, Poll, ListAccounts,
               FindAccounts, CountTools, CreateAccount, RefuseAccount, RegisterActions,
               StoreTools, StoreSkill, FindAppAccounts, DeleteAccount, Revoke,
               UnregisterTools, DeleteTools, DeleteSkill
<1>11. CASE IntegrationNext
  <2>1. CASE disturbed'
    BY <2>1 DEF OrderlyInv
  <2>2. CASE ~disturbed'
    BY <1>1, <1>2, <1>4, <1>5, <1>6, <1>7, <1>9, <1>10, <1>11, <2>2 DEF IntegrationNext
  <2>3. QED
    BY <2>1, <2>2
<1>12. QED
  BY <1>8, <1>11

\* Every variable keeps its type, and the registered tools, their rows and skills follow
\* the accounts of the workspace, but for what the property names.
\* (sync.ts 14-176, pipedream-tools.ts 418-470)
THEOREM ToolsFollow == IntegrationSpec => [](IntegrationTypeOK /\ ToolsFollowAccounts)
<1>1. IntegrationInit => IntegrationInv
  BY IntegrationTypesInit, OrderlyInit DEF IntegrationInv
<1>2. IntegrationInv /\ [IntegrationNext]_integrationVars => IntegrationInv'
  BY IntegrationTypesStep, OrderlyStep DEF IntegrationInv
<1>3. IntegrationInv => IntegrationTypeOK /\ ToolsFollowAccounts
  BY IntegrationTypesSuffice, OrderlySuffices DEF IntegrationInv
<1>4. QED
  BY <1>1, <1>2, <1>3, PTL DEF IntegrationSpec

-----------------------------------------------------------------------------
(* All of them together: a behaviour of MCTools is one of every module.    *)

\* The composition implements each of the modules it is made of: its steps are theirs,
\* or leave their variables alone.
LEMMA PartsFollow ==
  MCSpec => /\ ToolSpec /\ CatalogueSpec /\ CronSpec /\ IntegrationSpec
            /\ SpacesSpec /\ FilesSpec /\ ShellSpec /\ SkillsSpec
<1>1. MCInit => /\ ToolInit /\ CatalogueInit /\ CronInit /\ IntegrationInit
                /\ SpacesInit /\ FilesInit /\ ShellInit /\ SkillsInit
  BY DEF MCInit
<1>2. [MCNext]_mcVars => [ToolNext]_toolVars
  BY DEF MCNext, Only, mcVars
<1>3. [MCNext]_mcVars => [CatalogueNext]_catalogueVars
  BY DEF MCNext, Only, mcVars
<1>4. [MCNext]_mcVars => [CronNext]_cronVars
  BY DEF MCNext, Only, mcVars
<1>5. [MCNext]_mcVars => [IntegrationNext]_integrationVars
  BY DEF MCNext, Only, mcVars
<1>6. [MCNext]_mcVars => [SpacesNext]_spaceVars
  BY DEF MCNext, Only, mcVars
<1>7. [MCNext]_mcVars => [FilesNext]_fileVars
  BY DEF MCNext, Only, mcVars
<1>8. [MCNext]_mcVars => [ShellNext]_shellVars
  BY DEF MCNext, Only, mcVars
<1>9. [MCNext]_mcVars => [SkillsNext]_skillVars
  BY DEF MCNext, Only, mcVars
<1>10. QED
  BY <1>1, <1>2, <1>3, <1>4, <1>5, <1>6, <1>7, <1>8, <1>9, PTL
     DEF MCSpec, ToolSpec, CatalogueSpec, CronSpec, IntegrationSpec, SpacesSpec, FilesSpec,
         ShellSpec, SkillsSpec

\* The variables of every module keep their types.
THEOREM ToolsTyped == MCSpec => []ToolsTypeOK
<1>1. ToolTypeOK /\ IntegrationTypeOK /\ SpacesTypeOK /\ FilesTypeOK /\ CatalogueTypeOK
      /\ CronTypeOK /\ ShellTypeOK /\ SkillsTypeOK => ToolsTypeOK
  BY DEF ToolsTypeOK
<1>2. QED
  BY <1>1, PartsFollow, ToolTypeCorrect, ToolsFollow, SpacesFollow, FilesKeepEdits,
     OfferedToolsRun, JobsHear, ShellReports, SkillsKept, PTL

\* What a tool did in the workspace is what is told and left there: edits are whole, but
\* for those the property names, and a command is reported as it ended.
\* (file-edit.ts, bash.ts, infra/modal/app.py)
THEOREM WorkspaceKept == MCSpec => []WorkspaceIsKept
<1>1. EditsAreKept /\ CommandsAreReported => WorkspaceIsKept
  BY DEF WorkspaceIsKept
<1>2. QED
  BY <1>1, PartsFollow, FilesKeepEdits, ShellReports, PTL

\* The tools a run is offered are those that are there: the registered ones, and those a
\* skill brings, each once.  (index.ts, tools/index.ts, runner.ts 529-539)
THEOREM ToolsKnown == MCSpec => []ToolsAreKnown
<1>1. ToolsAreOffered /\ SkillsAreKept => ToolsAreKnown
  BY DEF ToolsAreKnown
<1>2. QED
  BY <1>1, PartsFollow, OfferedToolsRun, SkillsKept, PTL

\* What no step may do, whatever happens at the same time: an open breaker stays open, an
\* edit replaces what it read in the text its predecessors left, an SDK is written once and
\* a job is not woken by itself, but for what the properties name.
THEOREM ToolsStepsHold == MCSpec => ToolsSteps
<1>1. /\ OpenBreakerStaysOpen /\ InexactEditExplained /\ StaleReadExplained
      /\ SdkIsWrittenOnce /\ NoJobWakesItself
      => ToolsSteps
  BY DEF ToolsSteps
<1>2. QED
  BY <1>1, PartsFollow, OpenBreakerStays, WholeEdits, FreshReads, SdkStays, NoJobIsItsOwnNews
=============================================================================
