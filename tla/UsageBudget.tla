---------------------------- MODULE UsageBudget ----------------------------
(***************************************************************************)
(* What a managed workspace may spend in a month: UsageLimiter.canRun and  *)
(* UsageTracker.record of apps/bot/src/usage around the agent run of       *)
(* onEvent (apps/bot/src/index.ts), and the workspace settings that hold   *)
(* the budget, which the dashboard (tool-gateway/dashboard-api.ts) and     *)
(* onboarding (cron/onboarding.ts) read, change and write back.            *)
(*                                                                         *)
(* Costs are in tenths of a cent, records and budgets in cents.            *)
(***************************************************************************)
EXTENDS Integers, FiniteSetsExt

CONSTANTS
  Workspaces,
  Callers,        \* events in flight at the same time
  HomeOf,         \* the workspace of each caller
  Costs,          \* what a run may cost, in tenths of a cent
  Budgets,        \* values the dashboard may set, in cents
  DefaultBudget,  \* DEFAULT_MONTHLY_BUDGET_CENTS
  GlobalBudget,   \* GLOBAL_MONTHLY_BUDGET_CENTS, 0 for none
  Settings,       \* the settings explored, of "budget", "model" and "onboarded"
  Edited,         \* the workspaces whose settings change
  RecordBound     \* bound on the records explored in a month

ASSUME UsageAssumption ==
  /\ IsFiniteSet(Callers) /\ IsFiniteSet(Workspaces)
  /\ HomeOf \in [Callers -> Workspaces]
  /\ Costs \subseteq Nat /\ IsFiniteSet(Costs) /\ Costs # {}
  /\ Budgets \subseteq Nat /\ IsFiniteSet(Budgets)
  /\ "budget" \in Settings /\ Settings \subseteq {"budget", "model", "onboarded"}
  /\ Edited \subseteq Workspaces
  /\ DefaultBudget \in Nat /\ GlobalBudget \in Nat /\ RecordBound \in Nat

Unset == 0

VARIABLES
  settings,  \* the settings column: each setting's value, Unset when absent
  draft,     \* the settings each endpoint has read and not yet written back
  outdated,  \* endpoints whose draft was read before the latest write
  used,      \* the month's sum of llmCostCents
  usedByAll, \* the same over all workspaces
  spent,     \* what the recorded runs really cost, in tenths of a cent
  records,   \* runs recorded this month
  usageAt,   \* the await each caller is suspended at
  sawLimit,  \* the limit each caller has read
  cost       \* what the run of each caller cost

usageVars == <<settings, draft, outdated, used, usedByAll, spent, records,
               usageAt, sawLimit, cost>>
books     == <<used, usedByAll, spent, records>>
forms     == <<settings, draft, outdated>>
-----------------------------------------------------------------------------
\* Math.round of a cost to whole cents.
Cents(tenths) == (tenths + 5) \div 10

LimitOf(w) == IF settings[w].budget = Unset THEN DefaultBudget ELSE settings[w].budget - 1

NoForm == [f \in Settings |-> Unset]

UsageInit ==
  /\ settings = [w \in Workspaces |-> [f \in Settings |-> Unset]]
  /\ draft    = [w \in Workspaces |-> [f \in Settings |-> {}]]
  /\ outdated = {}
  /\ used     = [w \in Workspaces |-> 0]
  /\ usedByAll = 0
  /\ spent    = [w \in Workspaces |-> 0]
  /\ records  = 0
  /\ usageAt  = [c \in Callers |-> "idle"]
  /\ sawLimit = [c \in Callers |-> 0]
  /\ cost     = [c \in Callers |-> 0]
-----------------------------------------------------------------------------
(* canRun: the workspace's limit, its usage, the usage of all workspaces.  *)

Move(c, from, to) == usageAt[c] = from /\ usageAt' = [usageAt EXCEPT ![c] = to]

ReadLimit(c) ==
  /\ Move(c, "idle", "readUsage")
  /\ sawLimit' = [sawLimit EXCEPT ![c] = LimitOf(HomeOf[c])]
  /\ UNCHANGED <<forms, books, cost>>

\* Mutant: the comparison is <=.
AdmittedAtLimit(c) == used[HomeOf[c]] <= sawLimit[c]

Admitted(c) == used[HomeOf[c]] < sawLimit[c]

ReadUsage(c) ==
  /\ Move(c, "readUsage", IF ~Admitted(c) THEN "idle"
                          ELSE IF GlobalBudget > 0 THEN "readGlobal" ELSE "running")
  /\ sawLimit' = [sawLimit EXCEPT ![c] = 0]
  /\ UNCHANGED <<forms, books, cost>>

ReadGlobal(c) ==
  /\ Move(c, "readGlobal", IF usedByAll < GlobalBudget THEN "running" ELSE "idle")
  /\ UNCHANGED <<forms, books, sawLimit, cost>>

\* The run; its usage is recorded without being awaited.
RunCosts(c) ==
  /\ Move(c, "running", "record")
  /\ \E tenths \in Costs : cost' = [cost EXCEPT ![c] = tenths]
  /\ UNCHANGED <<forms, books, sawLimit>>

\* A run that throws is not recorded, whatever it has cost.
RunRejects(c) ==
  /\ Move(c, "running", "idle")
  /\ UNCHANGED <<forms, books, sawLimit, cost>>

Record(c) ==
  /\ records < RecordBound
  /\ Move(c, "record", "idle")
  /\ used'    = [used EXCEPT ![HomeOf[c]] = @ + Cents(cost[c])]
  /\ usedByAll' = usedByAll + Cents(cost[c])
  /\ spent'   = [spent EXCEPT ![HomeOf[c]] = @ + cost[c]]
  /\ records' = records + 1
  /\ cost'    = [cost EXCEPT ![c] = 0]
  /\ UNCHANGED <<forms, sawLimit>>

\* record() catches its own failure.
RecordFails(c) ==
  /\ Move(c, "record", "idle")
  /\ cost' = [cost EXCEPT ![c] = 0]
  /\ UNCHANGED <<forms, books, sawLimit>>

\* The sums of the limiter start at the first of the month.
NewMonth ==
  /\ used'    = [w \in Workspaces |-> 0]
  /\ usedByAll' = 0
  /\ spent'   = [w \in Workspaces |-> 0]
  /\ records' = 0
  /\ UNCHANGED <<forms, usageAt, sawLimit, cost>>
-----------------------------------------------------------------------------
(* handleUpdateBudget, handleUpdateModel and markOnboardingComplete read   *)
(* the whole column and write it back with their own setting replaced.     *)

\* A budget of n cents is kept as n + 1, to tell zero from absent.
ValuesOf(f) == CASE f = "budget" -> {b + 1 : b \in Budgets}
                 [] OTHER        -> {1}

ReadSettings(w, f) ==
  /\ draft[w][f] = {}
  /\ draft'    = [draft EXCEPT ![w][f] = {settings[w]}]
  /\ outdated' = outdated \ {<<w, f>>}
  /\ UNCHANGED <<settings, books, usageAt, sawLimit, cost>>

WriteSettings(w, f) ==
  /\ \E form \in draft[w][f], value \in ValuesOf(f) :
       settings' = [settings EXCEPT ![w] = [form EXCEPT ![f] = value]]
  /\ draft'    = [draft EXCEPT ![w][f] = {}]
  /\ outdated' = (outdated \cup {<<w, g>> : g \in Settings}) \ {<<w, f>>}
  /\ UNCHANGED <<books, usageAt, sawLimit, cost>>
-----------------------------------------------------------------------------
CallerStep(c) ==
  \/ ReadLimit(c) \/ ReadUsage(c) \/ ReadGlobal(c) \/ RunCosts(c)
  \/ RunRejects(c) \/ Record(c) \/ RecordFails(c)

UsageNext ==
  \/ \E c \in Callers : CallerStep(c)
  \/ \E w \in Edited, f \in Settings : ReadSettings(w, f) \/ WriteSettings(w, f)
  \/ NewMonth

UsageSpec == UsageInit /\ [][UsageNext]_usageVars
-----------------------------------------------------------------------------
(* Properties.                                                             *)

UsageTypeOK ==
  /\ settings \in [Workspaces -> [Settings -> Nat]]
  /\ outdated \subseteq Workspaces \X Settings
  /\ used \in [Workspaces -> Nat] /\ spent \in [Workspaces -> Nat]
  /\ usedByAll \in Nat /\ records \in Nat
  /\ usageAt \in [Callers -> {"idle", "readUsage", "readGlobal", "running", "record"}]
  /\ sawLimit \in [Callers -> Nat] /\ cost \in [Callers -> Costs \cup {0}]

Guests(w) == {c \in Callers : HomeOf[c] = w}

\* A month is overspent by no more than the events that were in flight when the
\* budget was reached: the check and the record are not one step (limiter.ts,
\* tracker.ts), so each of them may still add its cost.
OverspendIsBounded ==
  \A w \in Workspaces :
    used[w] + 1 <= Max(Budgets \cup {DefaultBudget})
                     + Cardinality(Guests(w)) * Cents(Max(Costs)) \/ used[w] = 0

\* The same for the budget of all workspaces together.
GlobalOverspendIsBounded ==
  GlobalBudget > 0 =>
    usedByAll + 1 <= GlobalBudget + Cardinality(Callers) * Cents(Max(Costs))

\* Rounding each record loses or adds at most half a cent per run (tracker.ts:33).
RecordsTrackSpending ==
  \A w \in Workspaces :
    /\ 10 * used[w] <= spent[w] + 5 * records
    /\ spent[w] <= 10 * used[w] + 5 * records

\* Settings changed one after the other are all kept: only a draft that was read
\* before the latest write, as markOnboardingComplete's is by a whole agent run,
\* takes another setting back (dashboard-api.ts:402, onboarding.ts:78).
SerialSettingsAreKept ==
  [][\A w \in Workspaces, f, g \in Settings :
       /\ g # f /\ settings'[w][g] # settings[w][g]
       /\ draft[w][f] # {} /\ draft'[w][f] = {}
       => <<w, f>> \in outdated]_usageVars

\* Spending stays within the budgets and the runs in flight, and within the error
\* of rounding.
SpendingIsBounded == OverspendIsBounded /\ GlobalOverspendIsBounded /\ RecordsTrackSpending
=============================================================================
