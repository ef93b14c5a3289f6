----------------------------- MODULE ThreadLease -----------------------------
(***************************************************************************)
(* What the thread lock of apps/bot/src/thread/lock.ts promises, without   *)
(* the program around it: a lease on each thread.  A run that acquired the *)
(* lease believes it holds it until it releases it; the lease of a run     *)
(* that kept it longer than lockTimeoutMs is overdue, and an overdue lease *)
(* may be taken over without its owner noticing.                           *)
(***************************************************************************)

CONSTANTS
  Threads,   \* conversation threads
  Runs,      \* agent runs
  ThreadOf,  \* the thread each run works on
  NoRun      \* the null of the lockedBy column

VARIABLES
  holder,    \* the lockedBy column of each thread
  believers, \* runs that believe they hold the lease of their thread
  overdue    \* runs whose lease is older than lockTimeoutMs

leaseVars == <<holder, believers, overdue>>

Takeable(t) == holder[t] = NoRun \/ holder[t] \in overdue

LeaseInit ==
  /\ holder    = [t \in Threads |-> NoRun]
  /\ believers = {}
  /\ overdue   = {}

Acquire(r) ==
  /\ r \notin believers \cup overdue
  /\ Takeable(ThreadOf[r])
  /\ holder' = [holder EXCEPT ![ThreadOf[r]] = r]
  /\ believers' \in {believers, believers \cup {r}} \* the answer may be lost
  /\ UNCHANGED overdue

Release(r) ==
  /\ r \in believers
  /\ holder'    = [holder EXCEPT ![ThreadOf[r]] = IF @ = r THEN NoRun ELSE @]
  /\ believers' = believers \ {r}
  /\ overdue'   = overdue \ {r}

\* Runs die, or fail to release: they stop working, the column keeps its value.
Abandon(gone) ==
  /\ gone \subseteq believers
  /\ gone # {}
  /\ believers' = believers \ gone
  /\ UNCHANGED <<holder, overdue>>

Expire(r) ==
  /\ holder[ThreadOf[r]] = r
  /\ r \notin overdue
  /\ overdue' = overdue \cup {r}
  /\ UNCHANGED <<holder, believers>>

\* A clean-up may clear the column of threads nobody works on.
Clear(cleared) ==
  /\ \A r \in believers : ThreadOf[r] \notin cleared
  /\ holder' = [t \in Threads |-> IF t \in cleared THEN NoRun ELSE holder[t]]
  /\ UNCHANGED <<believers, overdue>>

LeaseNext ==
  \/ \E r \in Runs : Acquire(r) \/ Release(r) \/ Expire(r)
  \/ \E gone \in SUBSET Runs : Abandon(gone)
  \/ \E cleared \in SUBSET Threads : Clear(cleared)

LeaseSpec == LeaseInit /\ [][LeaseNext]_leaseVars
=============================================================================
