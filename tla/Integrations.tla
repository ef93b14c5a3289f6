---------------------------- MODULE Integrations ----------------------------
(***************************************************************************)
(* How the accounts a workspace has connected at Pipedream become tools:   *)
(* the synchronisation and disconnection of                                *)
(* packages/tools/src/tools/integrations/sync.ts, the tools it registers   *)
(* (pipedream-tools.ts), the watcher that polls for a new connection       *)
(* (apps/bot/src/integrations/watcher.ts) and the restoration of tools     *)
(* when the bot starts again.                                              *)
(*                                                                         *)
(* One workspace.  Each element of Tasks carries out one operation at a    *)
(* time; job[t] is what it has read and the await it is suspended at.      *)
(***************************************************************************)
EXTENDS Naturals, FiniteSets

CONSTANTS
  Accounts,     \* accounts a user may authorize, each once
  AppOf,        \* the app of each account
  SlugPrefixes, \* <<a, b>>: the slug of a, with "_", is a prefix of b's
  Tasks,        \* operations in flight together
  SyncEvents,   \* "callFails", "deleteFails", "restart"
  NoAccount

Apps == {AppOf[x] : x \in Accounts}

ASSUME IntegrationAssumption ==
  /\ SlugPrefixes \subseteq Apps \X Apps
  /\ NoAccount \notin Accounts
  /\ SyncEvents \subseteq {"callFails", "deleteFails", "restart"}

VARIABLES
  live,      \* accounts that exist at Pipedream
  spent,     \* accounts that were authorized at some time
  row,       \* integrationAccount rows: "none", "ACTIVE" or "REVOKED"
  defs,      \* toolDefinition rows of an app, by the account they name
  skills,    \* apps with a skill row
  actions,   \* the account the registered action tools of an app act for
  utilities, \* the same for its configure and proxy tools
  pending,   \* apps the watcher polls for
  job,       \* what each task does
  stripped,  \* apps whose tools went with those of another account or app
  undeleted, \* accounts marked REVOKED that Pipedream failed to delete
  disturbed, \* two operations met, or a call failed, or the bot restarted
  clashed    \* a synchronisation was refused an account's row

integrationVars == <<live, spent, row, defs, skills, actions, utilities, pending, job,
                     stripped, undeleted, disturbed, clashed>>
pipedream == <<live, spent>>
registered == <<actions, utilities>>
stored    == <<row, defs, skills>>
history   == <<stripped, undeleted, disturbed, clashed>>
-----------------------------------------------------------------------------
Rest == [kind |-> "none", at |-> "idle", app |-> "none", listed |-> {}, known |-> {},
         todo |-> {}, cur |-> NoAccount]

IntegrationInit ==
  /\ live      = {}
  /\ spent     = {}
  /\ row       = [x \in Accounts |-> "none"]
  /\ defs      = [a \in Apps |-> NoAccount]
  /\ skills    = {}
  /\ actions   = [a \in Apps |-> NoAccount]
  /\ utilities = [a \in Apps |-> NoAccount]
  /\ pending   = {}
  /\ job       = [t \in Tasks |-> Rest]
  /\ stripped  = {}
  /\ undeleted = {}
  /\ disturbed = FALSE
  /\ clashed   = FALSE

Stored == {a \in Apps : defs[a] # NoAccount}
ActiveRows == {x \in Accounts : row[x] = "ACTIVE"}
Busy       == {t \in Tasks : job[t].at # "idle"}

\* The apps whose tool names start with mcp_pd_<slug>_.
Covered(a) == {a} \cup {b \in Apps : <<a, b>> \in SlugPrefixes}

At(t, from) == job[t].at = from
Goto(t, to) == job' = [job EXCEPT ![t].at = to]

\* Where the loops of syncAddedAccounts and syncRemovedAccounts go on.
NextRemoval(j) ==
  IF j.todo = {} THEN {Rest}
  ELSE {[j EXCEPT !.at = "revoke", !.cur = x, !.app = AppOf[x], !.todo = @ \ {x}] : x \in j.todo}
NextAddition(j) ==
  IF j.todo = {} THEN NextRemoval([j EXCEPT !.todo = j.known \ j.listed])
  ELSE {[j EXCEPT !.at = IF x \in j.known THEN "count" ELSE "create",
                  !.cur = x, !.app = AppOf[x], !.todo = @ \ {x}] : x \in j.todo}
-----------------------------------------------------------------------------
(* The user at Pipedream, and the watcher.                                 *)

\* connect_integration or handleConnect hands out a link and watches.
Watch(a) ==
  /\ pending' = pending \cup {a}
  /\ UNCHANGED <<pipedream, stored, registered, job, history>>

Authorize(x) ==
  /\ x \notin spent
  /\ live'  = live \cup {x}
  /\ spent' = spent \cup {x}
  /\ UNCHANGED <<stored, registered, pending, job, history>>

\* The account is removed at Pipedream.
Withdraw(x) ==
  /\ live' = live \ {x}
  /\ UNCHANGED <<spent, stored, registered, pending, job, history>>

WatchExpires(a) ==
  /\ a \in pending
  /\ pending' = pending \ {a}
  /\ UNCHANGED <<pipedream, stored, registered, job, history>>

Begin(t, j) ==
  /\ At(t, "idle")
  /\ job' = [job EXCEPT ![t] = j]
  /\ disturbed' = (disturbed \/ Busy # {})
  /\ UNCHANGED <<pipedream, stored, registered, pending, stripped, undeleted, clashed>>

\* A tick of the interval does not wait for the poll of the tick before.
StartPoll(t, a) == a \in pending /\ Begin(t, [Rest EXCEPT !.kind = "poll", !.at = "poll", !.app = a])

\* The watch is over as soon as an account is there, synchronised or not.
Poll(t) ==
  /\ At(t, "poll")
  /\ IF \E x \in live : AppOf[x] = job[t].app
       THEN /\ pending' = pending \ {job[t].app}
            /\ job' = [job EXCEPT ![t] = [Rest EXCEPT !.kind = "sync", !.at = "list"]]
       ELSE /\ pending' = pending
            /\ job' = [job EXCEPT ![t] = Rest]
  /\ UNCHANGED <<pipedream, stored, registered, history>>
-----------------------------------------------------------------------------
(* syncWorkspace: accounts that are new or lack tools.                     *)

StartSync(t) == Begin(t, [Rest EXCEPT !.kind = "sync", !.at = "list"])

ListAccounts(t) ==
  /\ At(t, "list")
  /\ job' = [job EXCEPT ![t].at = "rows", ![t].listed = live]
  /\ UNCHANGED <<pipedream, stored, registered, pending, history>>

FindAccounts(t) ==
  /\ At(t, "rows")
  /\ \E j \in NextAddition([job[t] EXCEPT !.known = ActiveRows, !.todo = job[t].listed]) :
       job' = [job EXCEPT ![t] = j]
  /\ UNCHANGED <<pipedream, stored, registered, pending, history>>

\* needsToolReregistration: rows counted, then the registry asked.
CountTools(t) ==
  /\ At(t, "count")
  /\ IF Covered(job[t].app) \cap Stored # {} /\ utilities[job[t].app] # NoAccount
       THEN \E j \in NextAddition(job[t]) : job' = [job EXCEPT ![t] = j]
       ELSE Goto(t, "listActions")
  /\ UNCHANGED <<pipedream, stored, registered, pending, history>>

\* Unique by workspace, provider and account, REVOKED rows included.
CreateAccount(t) ==
  /\ At(t, "create")
  /\ row[job[t].cur] = "none"
  /\ row' = [row EXCEPT ![job[t].cur] = "ACTIVE"]
  /\ Goto(t, "listActions")
  /\ UNCHANGED <<pipedream, defs, skills, registered, pending, history>>

RefuseAccount(t) ==
  /\ At(t, "create")
  /\ row[job[t].cur] # "none"
  /\ job' = [job EXCEPT ![t] = Rest]
  /\ clashed' = TRUE
  /\ UNCHANGED <<pipedream, stored, registered, pending, stripped, undeleted, disturbed>>

\* registerIntegrationTools: registry and rows of the action tools in turn,
\* then configure and proxy, then the skill.
RegisterActions(t) ==
  /\ At(t, "listActions")
  /\ actions' = [actions EXCEPT ![job[t].app] = job[t].cur]
  /\ Goto(t, "upsertTools")
  /\ UNCHANGED <<pipedream, stored, utilities, pending, history>>

StoreTools(t) ==
  /\ At(t, "upsertTools")
  /\ defs' = [defs EXCEPT ![job[t].app] = job[t].cur]
  /\ utilities' = [utilities EXCEPT ![job[t].app] = job[t].cur]
  /\ Goto(t, "upsertSkill")
  /\ UNCHANGED <<pipedream, row, skills, actions, pending, history>>

StoreSkill(t) ==
  /\ At(t, "upsertSkill")
  /\ skills' = skills \cup {job[t].app}
  /\ stripped' = stripped \ {job[t].app}
  /\ \E j \in NextAddition(job[t]) : job' = [job EXCEPT ![t] = j]
  /\ UNCHANGED <<pipedream, row, defs, registered, pending, undeleted, disturbed, clashed>>
-----------------------------------------------------------------------------
(* Removal, of accounts that have gone and of a disconnected app.          *)

\* disconnect_integration or handleDisconnect.
StartDisconnect(t, a) ==
  Begin(t, [Rest EXCEPT !.kind = "disconnect", !.at = "accounts", !.app = a])

NextDeletion(j) ==
  IF j.todo = {} THEN {[j EXCEPT !.at = "findTools"]}
  ELSE {[j EXCEPT !.at = "delete", !.cur = x, !.todo = @ \ {x}] : x \in j.todo}

FindAppAccounts(t) ==
  /\ At(t, "accounts")
  /\ \E j \in NextDeletion([job[t] EXCEPT !.todo = {x \in ActiveRows : AppOf[x] = job[t].app}]) :
       job' = [job EXCEPT ![t] = j]
  /\ UNCHANGED <<pipedream, stored, registered, pending, history>>

\* Its failure is swallowed.
DeleteAccount(t) ==
  /\ At(t, "delete")
  /\ \/ live' = live \ {job[t].cur} /\ undeleted' = undeleted
     \/ /\ "deleteFails" \in SyncEvents
        /\ live' = live /\ undeleted' = undeleted \cup {job[t].cur}
  /\ Goto(t, "revoke")
  /\ UNCHANGED <<spent, stored, registered, pending, stripped, disturbed, clashed>>

Revoke(t) ==
  /\ At(t, "revoke")
  /\ row' = [row EXCEPT ![job[t].cur] = "REVOKED"]
  /\ IF job[t].kind = "disconnect"
       THEN \E j \in NextDeletion(job[t]) : job' = [job EXCEPT ![t] = j]
       ELSE Goto(t, "findTools")
  /\ UNCHANGED <<pipedream, defs, skills, registered, pending, history>>

\* Mutant: the configure and proxy tools stay registered.
UnregisterActions(t) ==
  /\ At(t, "findTools")
  /\ actions' = [a \in Apps |-> IF a \in Covered(job[t].app) \cap Stored THEN NoAccount ELSE actions[a]]
  /\ utilities' = utilities
  /\ stripped' = stripped \cup Covered(job[t].app)
  /\ Goto(t, "deleteTools")
  /\ UNCHANGED <<pipedream, stored, pending, undeleted, disturbed, clashed>>

\* unregisterIntegrationTools: the tools whose rows are found, the app's
\* configure and proxy tools, then the rows and the skill.
UnregisterTools(t) ==
  /\ At(t, "findTools")
  /\ actions' = [a \in Apps |-> IF a \in Covered(job[t].app) \cap Stored THEN NoAccount ELSE actions[a]]
  /\ utilities' = [utilities EXCEPT ![job[t].app] = NoAccount]
  /\ stripped' = stripped \cup Covered(job[t].app)
  /\ Goto(t, "deleteTools")
  /\ UNCHANGED <<pipedream, stored, pending, undeleted, disturbed, clashed>>

DeleteTools(t) ==
  /\ At(t, "deleteTools")
  /\ defs' = [a \in Apps |-> IF a \in Covered(job[t].app) THEN NoAccount ELSE defs[a]]
  /\ Goto(t, "deleteSkill")
  /\ UNCHANGED <<pipedream, row, skills, registered, pending, history>>

DeleteSkill(t) ==
  /\ At(t, "deleteSkill")
  /\ skills' = skills \ {job[t].app}
  /\ \E j \in IF job[t].kind = "disconnect" THEN {Rest} ELSE NextRemoval(job[t]) :
       job' = [job EXCEPT ![t] = j]
  /\ UNCHANGED <<pipedream, row, defs, registered, pending, history>>
-----------------------------------------------------------------------------
(* Faults.                                                                 *)

\* An awaited call rejects; what was done stays.
JobFails(t) ==
  /\ "callFails" \in SyncEvents
  /\ t \in Busy
  /\ job' = [job EXCEPT ![t] = Rest]
  /\ disturbed' = TRUE
  /\ UNCHANGED <<pipedream, stored, registered, pending, stripped, undeleted, clashed>>

\* restoreToolsFromDb: action tools of every row, configure and proxy tools of
\* apps with rows and an ACTIVE account.
Restored(a) == IF \E x \in ActiveRows : AppOf[x] = a
               THEN CHOOSE x \in ActiveRows : AppOf[x] = a ELSE NoAccount

Restart ==
  /\ "restart" \in SyncEvents
  /\ job' = [t \in Tasks |-> Rest]
  /\ pending' = {}
  /\ actions' = defs
  /\ utilities' = [a \in Apps |-> IF a \in Stored THEN Restored(a) ELSE NoAccount]
  /\ disturbed' = (disturbed \/ Busy # {})
  /\ UNCHANGED <<pipedream, stored, stripped, undeleted, clashed>>
-----------------------------------------------------------------------------
JobStep(t) ==
  \/ Poll(t) \/ ListAccounts(t) \/ FindAccounts(t) \/ CountTools(t)
  \/ CreateAccount(t) \/ RefuseAccount(t) \/ RegisterActions(t) \/ StoreTools(t)
  \/ StoreSkill(t) \/ FindAppAccounts(t) \/ DeleteAccount(t) \/ Revoke(t)
  \/ UnregisterTools(t) \/ DeleteTools(t) \/ DeleteSkill(t)

IntegrationNext ==
  \/ \E a \in Apps : Watch(a) \/ WatchExpires(a)
  \/ \E x \in Accounts : Authorize(x) \/ Withdraw(x)
  \/ \E t \in Tasks :
       \/ JobStep(t) \/ StartSync(t) \/ JobFails(t)
       \/ \E a \in Apps : StartPoll(t, a) \/ StartDisconnect(t, a)
  \/ Restart

IntegrationSpec == IntegrationInit /\ [][IntegrationNext]_integrationVars
-----------------------------------------------------------------------------
(* Properties.                                                             *)

IntegrationTypeOK ==
  /\ live \subseteq spent /\ spent \subseteq Accounts
  /\ row \in [Accounts -> {"none", "ACTIVE", "REVOKED"}]
  /\ skills \subseteq Apps /\ pending \subseteq Apps
  /\ \A a \in Apps :
       {actions[a], utilities[a], defs[a]} \subseteq {x \in Accounts : AppOf[x] = a} \cup {NoAccount}
  /\ \A t \in Tasks : job[t].todo \subseteq Accounts /\ job[t].cur \in Accounts \cup {NoAccount}
  /\ stripped \subseteq Apps /\ undeleted \subseteq Accounts

Quiet == Busy = {}

\* When operations were carried out one at a time and no call failed, the tools,
\* their rows and the skill of an app are there together, and only for an app
\* with an ACTIVE account.
ToolsAreOfActiveAccounts ==
  (Quiet /\ ~disturbed) =>
    \A a \in Apps :
      /\ (\A x \in ActiveRows : AppOf[x] # a) =>
           /\ a \notin Stored \cup skills
           /\ actions[a] = NoAccount /\ utilities[a] = NoAccount
      /\ actions[a] = defs[a]

\* Under the same condition an ACTIVE account has its tools, unless they were
\* removed with those of another account of the app or of an app whose slug its
\* own begins with (pipedream-tools.ts:435).
ActiveAccountsHaveTools ==
  (Quiet /\ ~disturbed) =>
    \A x \in ActiveRows :
      AppOf[x] \in stripped \/ (AppOf[x] \in Stored \cap skills /\ utilities[AppOf[x]] # NoAccount)

\* A synchronisation is refused only for an account that was marked REVOKED and
\* is still at Pipedream, or when it met another operation.
ClashExplained == clashed => disturbed \/ undeleted # {}

\* Registered tools, their rows and skills follow the accounts, and an account is
\* refused, only as the conjuncts say (sync.ts:14-176, pipedream-tools.ts:418-470).
ToolsFollowAccounts ==
  ToolsAreOfActiveAccounts /\ ActiveAccountsHaveTools /\ ClashExplained
=============================================================================
