------------------------------- MODULE MCSlack -------------------------------
(***************************************************************************)
(* Instances for TLC of what lies between Slack and the agent.  The        *)
(* modules do not share state, so one run explores them one at a time:     *)
(* part is the module whose behaviours a behaviour of this one is; the     *)
(* variables of the others stay as one of their initial states has them.   *)
(***************************************************************************)
EXTENDS SlackIngress, SlackConnections, SlackPosting, MCThreadSpawning,
        Conversation, MCModelGateway, UsageBudget, Dashboard, TLC

CONSTANTS m1, m2, h1, h2, k1, k2, k3, w1, w2, c1, c2, c3

CONSTANT Parts  \* the modules explored

VARIABLE part

mcVars == <<part, ingressVars, linkVars, postVars, spawnVars, conversationVars,
            gatewayVars, usageVars, dashboardVars>>

\* A mention in a thread and a direct message.
MentionAndDm == {(m1 :> "threadMention") @@ (m2 :> "dm")}

\* Two installations of one team; another team installs nothing.
MCTeamOf == ("i1" :> "t") @@ ("i2" :> "t")

\* Two events of one workspace and one of another.
MCHomeOf == (c1 :> w1) @@ (c2 :> w1) @@ (c3 :> w2)

\* Runs of two days, three triggers, two models and two threads, all, none, or all but one.
Spent(n, day, cents, trigger, model, status, thread) ==
  [id |-> n, day |-> day, cost |-> cents, trigger |-> trigger, model |-> model,
   status |-> status, thread |-> thread]
MCRuns ==
  {Spent(1, 1, 2, "CRON", "opus", "FAILED", "t1"),
   Spent(2, 1, 3, "DM", "opus", "COMPLETED", "t1"),
   Spent(3, 2, 2, "DM", "haiku", "COMPLETED", "none"),
   Spent(4, 2, 5, "MANUAL", "haiku", "CANCELLED", "t2")}
MCLedgers == {{}, MCRuns} \cup {MCRuns \ {r} : r \in MCRuns}

Alike == Permutations(Handlers)
-----------------------------------------------------------------------------
MCInit ==
  /\ part \in Parts
  /\ IngressInit
  /\ part # "ingress" => mode = "managed" /\ rows = {"workspace"} /\ threadRows = {}
  /\ mode = "selfHosted" => rows # {"workspace"}
  /\ LinkInit
  /\ part # "connections" => hosting = "managed"
  /\ PostInit /\ SpawnInit /\ ConversationInit /\ GatewayInit /\ UsageInit
  /\ DashboardInit
  /\ part # "gateway" => Head(defaultModel) = "mistral" /\ apiKeys = {}
  /\ part # "dashboard" => listing = <<>> /\ byUpdate /\ limit = 0 /\ ledger = {}
  /\ listing # <<>> => ledger = {}

Only(x) ==
  /\ part = x /\ part' = part
  /\ x # "ingress"      => UNCHANGED ingressVars
  /\ x # "connections"  => UNCHANGED linkVars
  /\ x # "posting"      => UNCHANGED postVars
  /\ x # "spawning"     => UNCHANGED spawnVars
  /\ x # "conversation" => UNCHANGED conversationVars
  /\ x # "gateway"      => UNCHANGED gatewayVars
  /\ x # "usage"        => UNCHANGED usageVars
  /\ x # "dashboard"    => UNCHANGED dashboardVars

MCNext ==
  \/ Only("ingress")      /\ IngressNext
  \/ Only("connections")  /\ LinkNext
  \/ Only("posting")      /\ PostNext
  \/ Only("spawning")     /\ SpawnNext
  \/ Only("conversation") /\ ConversationNext
  \/ Only("gateway")      /\ GatewayNext
  \/ Only("usage")        /\ UsageNext
  \/ Only("dashboard")    /\ DashboardNext

MCSpec == MCInit /\ [][MCNext]_mcVars

\* The variables of every module have their types.
SlackTypeOK ==
  /\ IngressTypeOK /\ LinkTypeOK /\ PostTypeOK /\ SpawnTypeOK /\ ConversationTypeOK
  /\ GatewayTypeOK /\ UsageTypeOK

\* No step of any module but those its own parts except: events are dropped,
\* waits return, results are compressed and settings written as they say.
SlackSteps ==
  DroppedEventExplained /\ WaitReturnsInTime /\ LatestResultsAreWhole /\ SerialSettingsAreKept
=============================================================================
