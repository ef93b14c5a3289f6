------------------------------- MODULE MCTools -------------------------------
(***************************************************************************)
(* Instances for TLC of the tools and what they change.  The modules share *)
(* no state, so one run explores them one at a time: part is the module    *)
(* whose behaviours a behaviour of this one is; the variables of the       *)
(* others stay as one of their initial states has them.                    *)
(***************************************************************************)
EXTENDS ToolGateway, Integrations, Spaces, WorkspaceFiles, ToolCatalogue, CronJobs,
        ShellCommands, Skills, TLC

CONSTANTS w1, w2, c1, c2, x1, x2, x3, t1, i1, i2, i3, d1, d2, n1, e1, e2, f1

CONSTANT Parts  \* the modules explored

VARIABLE part

mcVars == <<part, toolVars, integrationVars, spaceVars, fileVars, catalogueVars, cronVars,
            shellVars, skillVars>>

\* A run of each workspace.
MCTenantOf == (c1 :> w1) @@ (c2 :> w2)

\* Two accounts of an app and one of another whose slug begins with the first's.
MCAppOf == (x1 :> "zoom") @@ (x2 :> "zoom") @@ (x3 :> "zoom_admin")
MCSlugPrefixes == {<<"zoom", "zoom_admin">>}

\* Two initialisations of a name in one workspace and one in another, beside a
\* deletion; two deployments beside a deletion; and both together.
MCSpaceOwner == [c \in {i1, i2, i3, d1, d2, n1} |-> IF c = i2 THEN w2 ELSE w1]
MCScenarios == {{i1, i2, i3, n1}, {i1, d1, d2, n1}, {i1, i3, d1, n1}}

\* A text with the edited string twice, and replacements with patterns in them.
MCTexts == {<<"x">>, <<"x", "y", "x">>}
MCOldStrings == {<<"x">>}
MCNewStrings == {<<"y">>, <<"$", "&">>, <<"$", "pre">>}

\* Nothing configured, a self-hosted bot, and services of other tools.
MCServices ==
  {{}, {"slackToken", "llm", "pipedream"},
   {"jira", "spaces", "browserbase", "github", "plausible"}}

\* The rows seeding leaves, and a heartbeat in its place.
MCProvisioned == {{<<"intro", "CHANNEL_INTRO">>}, {<<"beat", "HEARTBEAT">>}}
-----------------------------------------------------------------------------
MCInit ==
  /\ part \in Parts
  /\ ToolInit
  /\ part # "gateway" => tool = "bash"
  /\ IntegrationInit
  /\ SpacesInit
  /\ part # "spaces" => scenario = {i1, i2, i3, n1}
  /\ FilesInit
  /\ part # "files" => host = "local" /\ content = <<"x">>
  /\ CatalogueInit
  /\ part # "catalogue" => setup = [services |-> {}, managed |-> TRUE, backend |-> "local"]
  /\ CronInit
  /\ part # "cron" => cronRow["intro"] = "none"
  /\ ShellInit
  /\ part # "shell" => shellHost = "local" /\ reader = "model"
  /\ SkillsInit

Only(x) ==
  /\ part = x /\ part' = part
  /\ x # "gateway"      => UNCHANGED toolVars
  /\ x # "integrations" => UNCHANGED integrationVars
  /\ x # "spaces"       => UNCHANGED spaceVars
  /\ x # "files"        => UNCHANGED fileVars
  /\ x # "catalogue"    => UNCHANGED catalogueVars
  /\ x # "cron"         => UNCHANGED cronVars
  /\ x # "shell"        => UNCHANGED shellVars
  /\ x # "skills"       => UNCHANGED skillVars

MCNext ==
  \/ Only("gateway")      /\ ToolNext
  \/ Only("integrations") /\ IntegrationNext
  \/ Only("spaces")       /\ SpacesNext
  \/ Only("files")        /\ FilesNext
  \/ Only("catalogue")    /\ CatalogueNext
  \/ Only("cron")         /\ CronNext
  \/ Only("shell")        /\ ShellNext
  \/ Only("skills")       /\ SkillsNext

MCSpec == MCInit /\ [][MCNext]_mcVars

\* The properties of Integrations say nothing once operations have met or a call has
\* failed: what follows is not explored.
Orderly == ~disturbed

\* The variables of every module have their types.
ToolsTypeOK ==
  /\ ToolTypeOK /\ IntegrationTypeOK /\ SpacesTypeOK /\ FilesTypeOK
  /\ CatalogueTypeOK /\ CronTypeOK /\ ShellTypeOK /\ SkillsTypeOK

\* What a tool of the workspace did is what is told and left: edits are whole, and a
\* command is reported as it ended.
WorkspaceIsKept == EditsAreKept /\ CommandsAreReported

\* The tools a run is offered are those that are there: the registered ones, and
\* those a skill brings, each once.
ToolsAreKnown == ToolsAreOffered /\ SkillsAreKept

\* No step of any module but those its own parts except: an open breaker stays
\* open, an edit replaces what it read, an SDK is written once and a job is not
\* woken by itself.
ToolsSteps ==
  /\ OpenBreakerStaysOpen /\ InexactEditExplained /\ StaleReadExplained
  /\ SdkIsWrittenOnce /\ NoJobWakesItself
=============================================================================
