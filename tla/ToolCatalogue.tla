---------------------------- MODULE ToolCatalogue ----------------------------
(***************************************************************************)
(* Which tools the bot registers at its start, which of them the model is  *)
(* offered, who executes each (the bot, or infra/modal/app.py), with whose *)
(* Slack credential, which of them the prompts name, and which of them the *)
(* Python SDK written into each workspace can call.                        *)
(*                                                                         *)
(* Integration tools come and go while the bot runs: module Integrations.  *)
(***************************************************************************)
EXTENDS Naturals, FiniteSets

CONSTANTS
  Homes,       \* workspaces
  Services,    \* sets of services the environment may configure
  StartBound   \* number of starts

ASSUME CatalogueAssumption ==
  /\ Services \subseteq SUBSET {"slackToken", "llm", "search", "browserbase", "openfang",
                                "jira", "famoco", "linkedIn", "notion", "sentry", "github",
                                "pipedrive", "canva", "shortcut", "openai", "bannerbear",
                                "placid", "plausible", "spaces", "pipedream"}
  /\ StartBound \in Nat

VARIABLES
  setup,       \* the environment: services, mode and TOOL_BACKEND
  startAt,     \* "down", "up", "deploying" (the SDK, while up) or "deployed"
  registry,  \* names in the registry
  offered,     \* runner.toolConfig.tools
  snapshot,    \* allTools, what the SDK is generated from
  homes,       \* rows of the workspaces
  unvisited,     \* workspaces deployment has still to visit
  sdk,         \* what each workspace's sdk directory holds
  halfDone,    \* workspaces in which a crash left an SDK without its tools
  starts

catalogueVars == <<setup, startAt, registry, offered, snapshot, homes, unvisited, sdk,
                   halfDone, starts>>
-----------------------------------------------------------------------------
(* The registry.                                                           *)

SlackTools ==
  {"coworker_slack_history", "coworker_send_slack_message", "coworker_slack_react",
   "coworker_delete_slack_message", "coworker_update_slack_message"}
SlackFileTools == {"coworker_upload_to_slack", "coworker_download_from_slack"}
SlackAdminTools ==
  {"coworker_list_slack_channels", "coworker_join_slack_channels",
   "coworker_open_slack_conversation", "coworker_leave_slack_channels",
   "coworker_list_slack_users", "coworker_invite_slack_user_to_team",
   "coworker_get_slack_reactions", "coworker_report_issue"}
AllSlackTools == SlackTools \cup SlackFileTools \cup SlackAdminTools

\* createNativeRegistry: tools without a condition.
WorkspaceTools ==
  {"bash", "file_read", "file_write", "file_edit", "glob", "grep", "view_image",
   "file_to_markdown", "coworker_text2im", "create_custom_api_integration",
   "workspace_tree"}
GitAndDocsTools ==
  {"coworker_git", "coworker_github_cli", "resolve_library_id", "query_library_docs"}

\* ... and tools of a service that is configured.
DeskTools ==
  [openfang |-> {"openfang_hand", "openfang_task", "openfang_status"},
   jira |-> {"jira_get_ticket", "jira_add_comment", "jira_update_status",
             "jira_search_tickets"},
   famoco |-> {"famoco_search_device", "famoco_get_device", "famoco_move_to_stock",
               "famoco_assign_fleet", "famoco_get_sync_status", "famoco_trigger_sync"},
   linkedIn |-> {"linkedin_draft_post", "linkedin_publish_post",
                 "linkedin_get_recent_posts"},
   notion |-> {"notion_search", "notion_get_page", "notion_create_page",
               "notion_query_database"}]
CodeTools ==
  [sentry |-> {"sentry_list_issues", "sentry_get_issue", "sentry_resolve_issue"},
   github |-> {"github_list_issues", "github_create_issue", "github_list_prs",
               "github_get_pr", "github_get_file", "github_get_pr_diff",
               "github_create_pr_review", "github_create_pr", "github_push_file"},
   pipedrive |-> {"pipedrive_search_deals", "pipedrive_get_deal",
                  "pipedrive_list_activities"},
   canva |-> {"canva_list_designs", "canva_get_design", "canva_create_design",
              "canva_export_design"}]
MediaTools ==
  [shortcut |-> {"shortcut_get_story", "shortcut_search_stories", "shortcut_create_story",
                 "shortcut_update_story", "shortcut_add_comment",
                 "shortcut_list_workflows", "shortcut_list_epics"},
   openai |-> {"openai_generate_image"},
   bannerbear |-> {"bannerbear_list_templates", "bannerbear_create_image"},
   placid |-> {"placid_list_templates", "placid_create_image"},
   plausible |-> {"plausible_get_stats", "plausible_top_pages", "plausible_top_sources",
                  "plausible_realtime", "plausible_breakdown"}]
PlatformTools ==
  [slackToken |-> AllSlackTools,
   llm |-> {"ai_structured_output", "quick_ai_search"},
   search |-> {"quick_ai_search"},
   browserbase |-> {"browser_create_session", "browser_download_files",
                    "browser_close_session"}]

Of(table, services) == UNION {table[s] : s \in services \cap DOMAIN table}

NativeTools(services) ==
  WorkspaceTools \cup GitAndDocsTools \cup Of(PlatformTools, services)
  \cup Of(DeskTools, services) \cup Of(CodeTools, services) \cup Of(MediaTools, services)

DbTools == {"read_learnings", "write_learning", "read_skill", "list_skills", "write_skill"}
CronTools ==
  {"create_cron_job", "create_script_cron", "delete_cron_job", "trigger_cron_job",
   "list_cron_jobs"}
OrchestrationTools ==
  {"create_thread", "send_message_to_thread", "wait_for_paths", "list_running_paths",
   "get_path_info"}
SpacesTools ==
  {"init_app_project", "deploy_app", "list_apps", "get_app_status", "query_app_database",
   "delete_app_project"}
ManagementTools ==
  {"list_available_integrations", "list_workspace_connections", "connect_integration",
   "disconnect_integration", "sync_workspace_connections", "submit_permission_request"}

\* The order of main(): everything but the dynamic Slack tools, which come last.
StaticTools(services) ==
  NativeTools(services) \cup DbTools \cup OrchestrationTools \cup CronTools
  \cup (IF "spaces" \in services THEN SpacesTools ELSE {})
  \cup (IF "pipedream" \in services THEN ManagementTools ELSE {})

DynamicTools(s) ==
  IF s.managed /\ "slackToken" \notin s.services THEN AllSlackTools ELSE {}

\* Tools registry with localOnly.
LocalOnly ==
  SlackTools \cup SlackAdminTools \cup DbTools \cup CronTools \cup SpacesTools
  \cup ManagementTools
-----------------------------------------------------------------------------
(* Execution.                                                              *)

\* TOOL_DISPATCH of the Modal endpoint.
ModalTools ==
  (WorkspaceTools \cup GitAndDocsTools \cup AllSlackTools \cup PlatformTools.llm
   \cup PlatformTools.browserbase \cup {"create_thread", "send_message_to_thread",
                                        "wait_for_paths"})
  \ {"coworker_update_slack_message"}

\* handleToolCall: who executes a tool.
Executor(t) ==
  IF t \notin registry THEN "nobody"
  ELSE IF t \in LocalOnly \/ setup.backend = "local" THEN "bot"
  ELSE IF t \in ModalTools THEN "modal"
  ELSE "nobody"

\* Whose Slack token a Slack tool uses: the one of the process, the one of the
\* workspace's connection, or the one of Modal's secret.
Credential(t) ==
  IF Executor(t) = "modal" THEN "modal"
  ELSE IF t \in DynamicTools(setup) THEN "workspace"
  ELSE "process"
-----------------------------------------------------------------------------
(* The tools a run is told of by the prompt it is given.                   *)

HeartbeatPrompt == {"coworker_slack_history", "coworker_slack_react", "create_thread"}
DiscoveryPrompt ==
  {"file_read", "read_learnings", "write_learning", "coworker_list_slack_users",
   "coworker_slack_history", "coworker_open_slack_conversation",
   "coworker_get_slack_reactions"}
ChannelIntroPrompt ==
  {"read_learnings", "write_learning", "list_skills", "read_skill",
   "coworker_list_slack_channels", "coworker_slack_history",
   "coworker_send_slack_message"}
OnboardingPrompt ==
  {"quick_ai_search", "coworker_list_slack_users", "coworker_list_slack_channels",
   "coworker_open_slack_conversation", "coworker_send_slack_message", "write_skill",
   "read_learnings", "write_learning"}

\* The proactive one names a tool of its own, in the singular.
MisnamedTool == "coworker_join_slack_channel"
WelcomePrompt == OnboardingPrompt \cup {MisnamedTool}

\* The other runs', with the sections on skills and integrations.
CronPrompt == {"coworker_send_slack_message"}
InteractivePrompt ==
  {"read_learnings", "write_learning", "coworker_send_slack_message",
   "coworker_update_slack_message", "coworker_slack_react", "submit_permission_request"}
SkillsSection == {"read_skill"}
IntegrationsSection ==
  {"list_available_integrations", "connect_integration", "read_skill"}

NamedInPrompts ==
  UNION {HeartbeatPrompt, DiscoveryPrompt, ChannelIntroPrompt, OnboardingPrompt,
         WelcomePrompt, CronPrompt, InteractivePrompt, SkillsSection, IntegrationsSection}
-----------------------------------------------------------------------------
NoSdk == [client |-> FALSE, tools |-> {}]

\* A self-hosted bot has a Slack token (config.ts).
Setups ==
  {s \in [services : Services, managed : BOOLEAN, backend : {"local", "modal"}] :
     s.managed \/ "slackToken" \in s.services}

CatalogueInit ==
  /\ setup \in Setups
  /\ startAt    = "down"
  /\ registry = {}
  /\ offered    = {}
  /\ snapshot   = {}
  /\ homes      = {}
  /\ unvisited    = {}
  /\ sdk        = [w \in Homes |-> NoSdk]
  /\ halfDone   = {}
  /\ starts     = 0

\* Mutant: the runner's tools are listed before the dynamic ones are registered.
StartUpEarly ==
  /\ startAt = "down" /\ starts < StartBound
  /\ startAt'    = "up"
  /\ starts'     = starts + 1
  /\ snapshot'   = StaticTools(setup.services)
  /\ registry'   = snapshot' \cup DynamicTools(setup)
  /\ offered'    = snapshot'
  /\ UNCHANGED <<setup, homes, unvisited, sdk, halfDone>>

\* main() up to the server: registrations, the runner's tools, the snapshot.
StartUp ==
  /\ startAt = "down" /\ starts < StartBound
  /\ startAt'    = "up"
  /\ starts'     = starts + 1
  /\ snapshot'   = StaticTools(setup.services)
  /\ registry' = snapshot' \cup DynamicTools(setup)
  /\ offered'    = registry'
  /\ UNCHANGED <<setup, homes, unvisited, sdk, halfDone>>

\* An installation, or the first event of a self-hosted team.
AddHome(w) ==
  /\ startAt # "down"
  /\ w \notin homes
  /\ homes' = homes \cup {w}
  /\ UNCHANGED <<setup, startAt, registry, offered, snapshot, unvisited, sdk, halfDone, starts>>

\* The workspaces are read once, in the background.
ListHomes ==
  /\ startAt = "up"
  /\ startAt' = "deploying"
  /\ unvisited' = homes
  /\ UNCHANGED <<setup, registry, offered, snapshot, homes, sdk, halfDone, starts>>

\* deploySdkToWorkspace: client.py stands for the whole SDK.
SkipSdk(w) ==
  /\ startAt = "deploying" /\ w \in unvisited
  /\ sdk[w].client
  /\ sdk[w].tools # {} \/ w \in halfDone
  /\ unvisited' = unvisited \ {w}
  /\ UNCHANGED <<setup, startAt, registry, offered, snapshot, homes, sdk, halfDone, starts>>

\* generateSdk writes client.py first ...
WriteClient(w) ==
  /\ startAt = "deploying" /\ w \in unvisited
  /\ ~sdk[w].client
  /\ sdk' = [sdk EXCEPT ![w].client = TRUE]
  /\ UNCHANGED <<setup, startAt, registry, offered, snapshot, homes, unvisited, halfDone, starts>>

\* ... and then the modules of the tools.
WriteTools(w) ==
  /\ startAt = "deploying" /\ w \in unvisited
  /\ sdk[w].client /\ sdk[w].tools = {} /\ w \notin halfDone
  /\ sdk' = [sdk EXCEPT ![w].tools = snapshot]
  /\ unvisited' = unvisited \ {w}
  /\ UNCHANGED <<setup, startAt, registry, offered, snapshot, homes, halfDone, starts>>

\* A write fails, and the error is ignored (index.ts:456).
DeploymentFails(w) ==
  /\ startAt = "deploying" /\ w \in unvisited
  /\ ~sdk[w].client \/ (sdk[w].tools = {} /\ w \notin halfDone)
  /\ unvisited' = unvisited \ {w}
  /\ halfDone' = IF sdk[w].client THEN halfDone \cup {w} ELSE halfDone
  /\ UNCHANGED <<setup, startAt, registry, offered, snapshot, homes, sdk, starts>>

EndDeployment ==
  /\ startAt = "deploying" /\ unvisited = {}
  /\ startAt' = "deployed"
  /\ UNCHANGED <<setup, registry, offered, snapshot, homes, unvisited, sdk, halfDone, starts>>

\* The process ends, orderly or not; the operator may configure other services.
StopBot ==
  /\ startAt # "down"
  /\ startAt'    = "down"
  /\ setup'      \in {s \in Setups : s.managed = setup.managed /\ s.backend = setup.backend}
  /\ registry' = {} /\ offered' = {} /\ snapshot' = {} /\ unvisited' = {}
  /\ halfDone'   = halfDone \cup {w \in Homes : sdk[w].client /\ sdk[w].tools = {}}
  /\ UNCHANGED <<homes, sdk, starts>>

CatalogueNext ==
  \/ StartUp \/ ListHomes \/ EndDeployment \/ StopBot
  \/ \E w \in Homes : AddHome(w) \/ SkipSdk(w) \/ WriteClient(w) \/ WriteTools(w)
                            \/ DeploymentFails(w)

CatalogueSpec == CatalogueInit /\ [][CatalogueNext]_catalogueVars
-----------------------------------------------------------------------------
(* Properties.                                                             *)

CatalogueTypeOK ==
  /\ startAt \in {"down", "up", "deploying", "deployed"}
  /\ unvisited \subseteq homes /\ homes \subseteq Homes /\ halfDone \subseteq homes
  /\ starts \in 0..StartBound
  /\ offered \subseteq registry
  /\ \A w \in Homes : sdk[w].client \in BOOLEAN

\* What the model is offered, somebody executes, unless the backend is Modal, whose
\* app does not implement every tool ("All tools are implemented natively in
\* Python", infra/modal/app.py:7); the tools of the bot's own state (database,
\* scheduler, connections) are executed by the bot whatever the backend.
MissingToolExplained ==
  /\ offered = registry
  /\ \A t \in offered : Executor(t) = "nobody" => setup.backend = "modal"
  /\ \A t \in offered \cap (DbTools \cup CronTools \cup SpacesTools \cup ManagementTools) :
       Executor(t) = "bot"

\* In a deployment for many teams a Slack tool acts with the token of its team,
\* unless the process has a token of its own (index.ts:795) or the tool moves
\* files and runs in Modal (tools/index.ts:720).
ForeignCredentialExplained ==
  setup.managed =>
    \A t \in registry \cap AllSlackTools :
      Credential(t) # "workspace" =>
        "slackToken" \in setup.services \/ (setup.backend = "modal" /\ t \in SlackFileTools)

\* "the SDK is pre-installed in your workspace" (general_tools.md:9): a workspace
\* of a bot that has done its deployment can call every registry tool.
\* (It is written to the bot's disk; Modal's tools see Modal's volume.)
SdkGap(w) == IF setup.backend = "local" THEN registry \ sdk[w].tools ELSE registry

\* The gaps there are: the workspace is younger than the deployment, a crash or a
\* failed write left it without modules for good (deploy.ts:23 looks for client.py, which
\* generate.ts:338 writes first), the tools are the dynamic Slack tools, the SDK
\* is of an earlier start and other services, or the tools run elsewhere.
SdkGapExplained ==
  startAt = "deployed" =>
    \A w \in homes :
      \/ SdkGap(w) \subseteq DynamicTools(setup)
      \/ setup.backend = "modal"
      \/ ~sdk[w].client
      \/ w \in halfDone
      \/ starts > 1 /\ sdk[w].tools # snapshot

\* An SDK, once there, is never written again: neither a half one completed nor
\* an old one brought up to date (deploy.ts:23; no caller sets force).
SdkIsWrittenOnce ==
  [][\A w \in Homes : sdk[w].tools # {} \/ w \in halfDone => sdk'[w] = sdk[w]]_catalogueVars

\* A run is offered the tools its prompt tells it to call, but for those of a
\* service that is not configured, which the prompt names all the same
\* (prompt.ts:162, 223), and for the one onboarding.ts:130 misspells.
UnknownToolExplained ==
  startAt # "down" =>
    \A t \in NamedInPrompts \ offered :
      \/ t = MisnamedTool
      \/ t \in ManagementTools /\ "pipedream" \notin setup.services
      \/ t \in PlatformTools.search /\ setup.services \cap {"llm", "search"} = {}

\* The model is offered what runs, with the credential of its team, what its prompt
\* names, and finds the same in the SDK, but for the gaps the conjuncts name.
ToolsAreOffered ==
  /\ MissingToolExplained /\ ForeignCredentialExplained /\ UnknownToolExplained
  /\ SdkGapExplained
=============================================================================
