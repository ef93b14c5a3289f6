\* Tool calls and their breaker, connected accounts, spaces, files, the tool catalogue,
\* the jobs' prompts, shell commands and skills, one at a time.
SPECIFICATION MCSpec
CONSTANTS
  Parts = {"gateway", "integrations", "spaces", "files", "catalogue", "cron", "shell", "skills"}
  w1 = w1  w2 = w2  c1 = c1  c2 = c2  x1 = x1  x2 = x2  x3 = x3  t1 = t1
  i1 = i1  i2 = i2  i3 = i3  d1 = d1  d2 = d2  n1 = n1  e1 = e1  e2 = e2  f1 = f1
  Tenants = {w1, w2}
  Callers = {c1, c2}
  TenantOf <- MCTenantOf
  BuiltIns = {"bash", "modal"}
  Remote = {"modal"}
  Scoped = {"pd"}
  Resynced = {w1}
  Threshold = 2
  ToolEvents = {"toolTimeout", "clientAbort", "resync"}
  Accounts = {x1, x2, x3}
  AppOf <- MCAppOf
  SlugPrefixes <- MCSlugPrefixes
  Tasks = {t1}
  SyncEvents = {"callFails", "deleteFails", "restart"}
  NoAccount = NoAccount
  Inits = {i1, i2, i3}
  Deploys = {d1, d2}
  Deletes = {n1}
  SpaceOwner <- MCSpaceOwner
  Scenarios <- MCScenarios
  SpaceEvents = {"callFails"}
  NoInit = NoInit
  FileEdits = {e1, e2}
  FileWrites = {f1}
  Texts <- MCTexts
  OldStrings <- MCOldStrings
  NewStrings <- MCNewStrings
  FileEvents = {"crash"}
  SizeBound = 6
  Homes = {w1, w2}
  Services <- MCServices
  StartBound = 3
  CronNames = {"intro", "beat"}
  Conditional = {"beat"}
  Triggered = {"beat"}
  Provisioned <- MCProvisioned
  CronHappenings = {"crash", "runFails", "sandboxFails"}
  ChatBound = 2
  ShellHosts = {"local", "modal"}
  Readers = {"model", "script", "condition"}
  Chunks = {1, 2}
  MaxOutput = 2
  PrintBound = 4
  BuiltInSkills = {"k1"}
  AppSkill = "pd_zoom"
  OwnSkill = "own"
  AppTools = {"zoom-a", "zoom-b"}
  Seeders = {"s1", "s2"}
  WriteBound = 2
CONSTRAINT Orderly
INVARIANTS
  ToolsTypeOK   SpacesFollowProjects 
   JobsHearTheirPrompt
 
CHECK_DEADLOCK FALSE
