----------------------------- MODULE Dashboard -----------------------------
(***************************************************************************)
(* What the dashboard shows of the agent's work: the paged lists and the   *)
(* totals of apps/bot/src/tool-gateway/dashboard-api.ts.                   *)
(*                                                                         *)
(* A client asks for one page after the other while the bot writes: runs,  *)
(* learnings and tool calls are listed by creation, threads and skills by  *)
(* their last update, newest first.  The totals are operators on the runs  *)
(* of the month: handleUsage reads them with three queries, and what is    *)
(* said of its totals is for queries that saw the same runs.               *)
(***************************************************************************)
EXTENDS Integers, SequencesExt, FiniteSetsExt

CONSTANTS
  Items,      \* rows of a listed table
  PageSizes,  \* the limit parameters a client sends
  Ledgers,    \* the sets of runs the totals are checked on
  Today       \* the day of the month, 1 for the first

ASSUME DashboardAssumption ==
  /\ PageSizes \subseteq Int /\ Today \in Nat \ {0} /\ IsFiniteSet(Items)
  /\ \A runs \in Ledgers :
       IsFiniteSet(runs) /\ \A r \in runs : r.day \in 1..Today /\ r.cost \in Nat

VARIABLES
  listing,   \* the table in the order of the query
  byUpdate,  \* TRUE: ordered by updatedAt, FALSE: by createdAt
  limit,     \* the limit parameter the client sends
  page,      \* the page it asks for, 0 when it has read the last
  pending,   \* the queries of the request that have not been answered
  total,     \* the total of the latest request
  torn,      \* the table grew after a request's count and before its rows
  shown,     \* what the pages have shown it so far
  present,   \* rows that existed when it asked for the first page
  moved,     \* rows inserted or updated since then
  ledger     \* the runs of the month

dashboardVars == <<listing, byUpdate, limit, page, pending, total,
                   torn, shown, present, moved, ledger>>
client == <<limit, page, pending, total>>
-----------------------------------------------------------------------------
(* Pages.                                                                  *)

\* Math.min(100, Math.max(1, Math.floor(Number(limit)) || 25)), 0 when absent.
PageSize(n) == Min({100, Max({1, IF n = 0 THEN 25 ELSE n})})

\* Mutant: pages are counted from zero.
PageOfFromZero(table, n, size) == SubSeq(table, n * size + 1, Min({Len(table), (n + 1) * size}))

\* skip and take of findMany.
PageOf(table, n, size) == SubSeq(table, (n - 1) * size + 1, Min({Len(table), n * size}))

DashboardInit ==
  /\ byUpdate \in BOOLEAN
  /\ limit \in PageSizes
  /\ listing \in UNION {[1..n -> Items] : n \in 0..(Cardinality(Items) - 1)}
  /\ Cardinality(ToSet(listing)) = Len(listing)
  /\ page    = 1
  /\ pending = {"rows", "total"}
  /\ total   = 0
  /\ torn    = FALSE
  /\ shown   = <<>>
  /\ present = ToSet(listing)
  /\ moved   = {}
  /\ ledger \in Ledgers

\* Promise.all of findMany and count: two queries, answered in either order.
ReadRows ==
  /\ "rows" \in pending
  /\ pending' = pending \ {"rows"}
  /\ shown' = shown \o PageOf(listing, page, PageSize(limit))
  /\ UNCHANGED <<listing, byUpdate, limit, page, total, torn, present, moved, ledger>>

ReadTotal ==
  /\ "total" \in pending
  /\ pending' = pending \ {"total"}
  /\ total' = Len(listing)
  /\ UNCHANGED <<listing, byUpdate, limit, page, torn, shown, present, moved, ledger>>

\* The client goes on while the total promises more.
NextPage ==
  /\ page > 0 /\ pending = {}
  /\ IF page * PageSize(limit) < total
       THEN page' = page + 1 /\ pending' = {"rows", "total"}
       ELSE page' = 0        /\ pending' = {}
  /\ UNCHANGED <<listing, byUpdate, limit, total, torn, shown, present, moved, ledger>>

\* A run starts, a thread is opened.
InsertRow(i) ==
  /\ i \notin ToSet(listing)
  /\ listing' = <<i>> \o listing
  /\ moved' = moved \cup {i}
  /\ torn' = (torn \/ pending = {"rows"})
  /\ UNCHANGED <<byUpdate, client, shown, present, ledger>>

\* updatedAt moves: a thread changes its phase, a skill its text.
UpdateRow(i) ==
  /\ \E k \in DOMAIN listing :
       /\ listing[k] = i
       /\ listing' = IF byUpdate THEN <<i>> \o RemoveAt(listing, k) ELSE listing
  /\ moved' = moved \cup {i}
  /\ UNCHANGED <<byUpdate, client, torn, shown, present, ledger>>

DashboardNext ==
  \/ ReadRows \/ ReadTotal \/ NextPage
  \/ page > 0 /\ \E i \in Items : InsertRow(i) \/ UpdateRow(i)

DashboardSpec == DashboardInit /\ [][DashboardNext]_dashboardVars
-----------------------------------------------------------------------------
(* Totals.  A run has a day, a cost, a trigger, a model and a status.      *)

Scheduled == {"CRON", "HEARTBEAT", "DISCOVERY"}

\* The sum of a function's values, counted: one unit <<x, k>> for k = 1 .. f[x].
Units(f) == UNION {{x} \X (1..f[x]) : x \in DOMAIN f}
SumOf(f) == Cardinality(Units(f))

\* Costs are whole cents.
CostOf(runs) == SumOf([r \in runs |-> r.cost])

\* handleUsage: the bars of the month up to today, and the threads' costs.
Bar(runs, day, scheduled) ==
  CostOf({r \in runs : r.day = day /\ (r.trigger \in Scheduled <=> scheduled)})
Chart(runs) ==
  [day \in 1..Today |-> [oneOff |-> Bar(runs, day, FALSE), scheduled |-> Bar(runs, day, TRUE)]]
TodaysCost(runs) == CostOf({r \in runs : r.day = Today})
ThreadCosts(runs) ==
  [t \in {r.thread : r \in runs} \ {"none"} |-> CostOf({r \in runs : r.thread = t})]

\* handleOverview: one entry per value of a field that occurs.
By(runs, field) ==
  [v \in {r[field] : r \in runs} |->
     LET group == {r \in runs : r[field] = v}
     IN  [count |-> Cardinality(group), cost |-> CostOf(group)]]
ByDay(runs)     == By(runs, "day")
ByModel(runs)   == By(runs, "model")
ByTrigger(runs) == By(runs, "trigger")

\* Tenths of a percent, rounded, 0 for no run.
SuccessRate(runs) ==
  LET all  == Cardinality(runs)
      good == Cardinality({r \in runs : r.status = "COMPLETED"})
  IN  IF all = 0 THEN 0 ELSE (2000 * good + all) \div (2 * all)
-----------------------------------------------------------------------------
(* Properties.                                                             *)

\* A client that has read the last page has seen every row there was when it
\* began, but for a row of an update-ordered list that was updated meanwhile and
\* but for a table that grew between the count and the rows of one request.
PagesMissNothing ==
  page = 0 /\ ~torn => \A i \in present \ ToSet(shown) : byUpdate /\ i \in moved

\* A row is shown twice only when some row was inserted or moved in between.
PagesRepeatNothing ==
  moved = {} => Cardinality(ToSet(shown)) = Len(shown)

\* The totals of the usage page agree with each other when its queries saw the same
\* runs: the bars and the threads add up to the total, and today's cost is today's
\* bar.  (dashboard-api.ts, handleUsage)
UsageAddsUp ==
  LET chart   == Chart(ledger)
      threads == ThreadCosts(ledger)
  IN  /\ SumOf([d \in 1..Today |-> chart[d].oneOff + chart[d].scheduled]) = CostOf(ledger)
      /\ chart[Today].oneOff + chart[Today].scheduled = TodaysCost(ledger)
      /\ SumOf(threads) = CostOf({r \in ledger : r.thread # "none"})

\* Every grouping of the overview counts every run once, and the success rate
\* is a percentage, of no run too.
Partitions(view, runs) ==
  /\ SumOf([v \in DOMAIN view |-> view[v].count]) = Cardinality(runs)
  /\ SumOf([v \in DOMAIN view |-> view[v].cost]) = CostOf(runs)

OverviewAddsUp ==
  /\ Partitions(ByDay(ledger), ledger)
  /\ Partitions(ByModel(ledger), ledger)
  /\ Partitions(ByTrigger(ledger), ledger)
  /\ SuccessRate(ledger) \in 0..1000

\* The pages together show the table, and the totals add up.
DashboardShowsAll == PagesMissNothing /\ PagesRepeatNothing /\ UsageAddsUp /\ OverviewAddsUp
=============================================================================
