------------------------------- MODULE Skills -------------------------------
(***************************************************************************)
(* The skills of one workspace: texts the model may read and write         *)
(* (packages/tools/src/tools/skills.ts), the built-in ones that onboarding *)
(* seeds (apps/bot/src/skills/seed.ts), the one a connected app brings     *)
(* with the schemas of its tools (tools/integrations/pipedream-tools.ts),  *)
(* and how a run that reads such a skill is offered those tools            *)
(* (mergeHotLoadedTools in apps/bot/src/agent/runner.ts).                  *)
(***************************************************************************)
EXTENDS Naturals, FiniteSets

CONSTANTS
  BuiltInSkills,  \* names of the definition files
  AppSkill,       \* pd_<slug> of an app
  OwnSkill,       \* a name the model invents
  AppTools,       \* tools of the app
  Seeders,        \* seedings that may overlap
  WriteBound      \* bound on the versions explored

ASSUME SkillAssumption ==
  /\ AppSkill \notin BuiltInSkills /\ OwnSkill \notin BuiltInSkills /\ AppSkill # OwnSkill
  /\ IsFiniteSet(BuiltInSkills) /\ IsFiniteSet(AppTools) /\ WriteBound \in Nat

SkillNames == BuiltInSkills \cup {AppSkill, OwnSkill}

VARIABLES
  skill,      \* skill rows: NoSkill, or the text and its version
  writes,     \* how often each row was written
  creators,   \* how many writers were told that they created the row
  connected,  \* the app's tools are registered
  forsaken,   \* the app was disconnected since the run began
  seeding,    \* what each seeding has done and read
  active,     \* how often each tool occurs in the run's activeTools
  loaded,     \* loadedSkills of the run
  runAt       \* "none" or "working"

skillVars == <<skill, writes, creators, connected, forsaken, seeding, active, loaded, runAt>>
rowVars == <<skill, writes, creators>>
runVars == <<active, loaded, runAt>>
-----------------------------------------------------------------------------
NoSkill == [by |-> "nobody", schemas |-> FALSE, version |-> 0]
Text(by, schemas) == [by |-> by, schemas |-> schemas]

AtRest == [at |-> "idle", todo |-> {}, cur |-> OwnSkill, refused |-> FALSE]

SkillsInit ==
  /\ skill     = [n \in SkillNames |-> NoSkill]
  /\ writes    = [n \in SkillNames |-> 0]
  /\ creators  = [n \in SkillNames |-> 0]
  /\ connected = FALSE /\ forsaken = FALSE
  /\ seeding   = [s \in Seeders |-> AtRest]
  /\ active    = [t \in AppTools |-> 0] /\ loaded = {} /\ runAt = "none"

Exists(n) == skill[n] # NoSkill

\* A row is created with version 1, or overwritten and its version incremented.
StoreText(n, text) ==
  /\ writes[n] < WriteBound
  /\ skill' = [skill EXCEPT ![n] = [by |-> text.by, schemas |-> text.schemas,
                                    version |-> skill[n].version + 1]]
  /\ writes' = [writes EXCEPT ![n] = @ + 1]

\* write_skill, of any run: an upsert, whose version says whether it created the row.
\* The text may repeat the schemas the model has read.
WriteSkill(n) ==
  /\ \E schemas \in BOOLEAN :
       /\ schemas => skill[AppSkill].schemas
       /\ StoreText(n, Text("agent", schemas))
  /\ creators' = [creators EXCEPT ![n] = IF skill'[n].version = 1 THEN @ + 1 ELSE @]
  /\ UNCHANGED <<connected, forsaken, seeding, runVars>>
-----------------------------------------------------------------------------
(* seedBuiltinSkills, at each onboarding.                                  *)

SeedAt(s, at) == seeding[s].at = at

NextDefinition(s, done) ==
  seeding' = [seeding EXCEPT ![s].at = IF done = {} THEN "done" ELSE "look", ![s].todo = done]

StartSeed(s) ==
  /\ SeedAt(s, "idle")
  /\ NextDefinition(s, BuiltInSkills)
  /\ UNCHANGED <<rowVars, connected, forsaken, runVars>>

\* findUnique; a text that is the definition's stays.
FindSkill(s) ==
  /\ SeedAt(s, "look")
  /\ \E n \in seeding[s].todo :
       IF skill[n].by = "seed" THEN NextDefinition(s, seeding[s].todo \ {n})
       ELSE seeding' = [seeding EXCEPT ![s].at = IF Exists(n) THEN "update" ELSE "create",
                                       ![s].todo = @ \ {n}, ![s].cur = n]
  /\ UNCHANGED <<rowVars, connected, forsaken, runVars>>

\* The content is replaced, whoever wrote it.
UpdateSkill(s) ==
  /\ SeedAt(s, "update")
  /\ StoreText(seeding[s].cur, Text("seed", FALSE))
  /\ NextDefinition(s, seeding[s].todo)
  /\ UNCHANGED <<creators, connected, forsaken, runVars>>

CreateSkill(s) ==
  /\ SeedAt(s, "create") /\ ~Exists(seeding[s].cur)
  /\ StoreText(seeding[s].cur, Text("seed", FALSE))
  /\ NextDefinition(s, seeding[s].todo)
  /\ UNCHANGED <<creators, connected, forsaken, runVars>>

\* The name is unique in the workspace: the seeding rejects and ends here.
RefuseSkill(s) ==
  /\ SeedAt(s, "create") /\ Exists(seeding[s].cur)
  /\ seeding' = [seeding EXCEPT ![s].at = "done", ![s].refused = TRUE]
  /\ UNCHANGED <<rowVars, connected, forsaken, runVars>>

EndSeed(s) ==
  /\ SeedAt(s, "done")
  /\ seeding' = [seeding EXCEPT ![s] = AtRest]
  /\ UNCHANGED <<rowVars, connected, forsaken, runVars>>
-----------------------------------------------------------------------------
(* An app's skill; the steps in between are in module Integrations.        *)

\* registerIntegrationTools.
ConnectApp ==
  /\ connected' = TRUE
  /\ StoreText(AppSkill, Text("sync", TRUE))
  /\ UNCHANGED <<creators, forsaken, seeding, runVars>>

\* unregisterIntegrationTools.
DisconnectApp ==
  /\ connected
  /\ connected' = FALSE /\ forsaken' = TRUE
  /\ skill'    = [skill EXCEPT ![AppSkill] = NoSkill]
  /\ writes'   = [writes EXCEPT ![AppSkill] = 0]
  /\ creators' = [creators EXCEPT ![AppSkill] = 0]
  /\ UNCHANGED <<seeding, runVars>>
-----------------------------------------------------------------------------
(* A run.                                                                  *)

\* Tools of integrations are discoverable: not among those a run begins with.
StartRun ==
  /\ runAt = "none"
  /\ runAt' = "working"
  /\ active' = [t \in AppTools |-> 0] /\ loaded' = {} /\ forsaken' = ~connected
  /\ UNCHANGED <<rowVars, connected, seeding>>

\* Mutant: nothing is remembered as loaded.
MergeAll(tools) ==
  /\ active' = [t \in AppTools |-> IF t \in tools THEN active[t] + 1 ELSE active[t]]
  /\ loaded' = loaded

\* mergeHotLoadedTools.
MergeTools(tools) ==
  /\ active' = [t \in AppTools |-> IF t \in tools \ loaded THEN active[t] + 1 ELSE active[t]]
  /\ loaded' = loaded \cup tools

\* read_skill, with the schemas between the markers of its text.
ReadSkill(n) ==
  /\ runAt = "working" /\ Exists(n)
  /\ MergeTools(IF skill[n].schemas THEN AppTools ELSE {})
  /\ UNCHANGED <<rowVars, connected, forsaken, seeding, runAt>>

FinishRun ==
  /\ runAt = "working"
  /\ runAt' = "none"
  /\ active' = [t \in AppTools |-> 0] /\ loaded' = {} /\ forsaken' = FALSE
  /\ UNCHANGED <<rowVars, connected, seeding>>

SkillsNext ==
  \/ \E n \in SkillNames : WriteSkill(n) \/ ReadSkill(n)
  \/ \E s \in Seeders :
       \/ StartSeed(s) \/ FindSkill(s) \/ UpdateSkill(s) \/ CreateSkill(s)
       \/ RefuseSkill(s) \/ EndSeed(s)
  \/ ConnectApp \/ DisconnectApp \/ StartRun \/ FinishRun

SkillsSpec == SkillsInit /\ [][SkillsNext]_skillVars
-----------------------------------------------------------------------------
(* Properties.                                                             *)

SkillsTypeOK ==
  /\ \A n \in SkillNames : skill[n].version \in 0..WriteBound /\ creators[n] \in Nat
  /\ {connected, forsaken} \subseteq BOOLEAN
  /\ \A s \in Seeders : seeding[s].at \in {"idle", "look", "update", "create", "done"}
  /\ loaded \subseteq AppTools /\ runAt \in {"none", "working"}

\* No write of a skill is lost from its version, and of the writers that met only one
\* is told that it created the row.  (skills.ts:130-160)
VersionsCountWrites ==
  \A n \in SkillNames : skill[n].version = writes[n] /\ creators[n] <= 1

\* No tool is offered twice, however often a skill is read and whichever skill repeats
\* its schemas: a provider refuses a list with a name in it twice.  (runner.ts:529-539)
ToolsAreOfferedOnce == \A t \in AppTools : active[t] <= 1

\* A tool the run was offered exists, unless the app was disconnected, or was not there
\* when the run began and a copy of its schemas was.
OfferedToolsExist ==
  (\E t \in AppTools : active[t] > 0) => connected \/ forsaken

\* A seeding that was not refused leaves every built-in skill in place, and one is
\* refused only when another seeding or the model has just created the row.
SeedingIsComplete ==
  \A s \in Seeders : SeedAt(s, "done") =>
    \/ \A n \in BuiltInSkills : Exists(n)
    \/ seeding[s].refused

SkillsAreKept ==
  VersionsCountWrites /\ ToolsAreOfferedOnce /\ OfferedToolsExist /\ SeedingIsComplete
=============================================================================
