------------------------- MODULE CronSchedulerProofs -------------------------
(***************************************************************************)
(* Theorems about CronScheduler, for every set of jobs, every limit, every *)
(* way in which runs end and every choice of Events.                       *)
(***************************************************************************)
EXTENDS CronScheduler, FiniteSetTheorems, SequenceTheorems, TLAPS

USE DEF rows, execs

-----------------------------------------------------------------------------
(* Type correctness.                                                       *)

\* An execution in flight has a job and a copy of its row.
ExecInv ==
  \A x \in Execs : pc[x] # "idle" => job[x] \in Jobs /\ copy[x] # None

\* An enabled job has not reached its maxRuns, so every copy leaves room for one
\* more run.
CountInv ==
  /\ \A j \in Jobs : MaxRunsOf[j] = 0 => runCount[j] = 0
  /\ \A j \in enabled : MaxRunsOf[j] # 0 => runCount[j] < MaxRunsOf[j]
  /\ \A k \in Jobs \cup Execs : copy[k] # None => copy[k].count < RunBound

\* An execution that is about to record a run knows how it ended.
ResultInv ==
  \A x \in Execs : pc[x] = "record" => result[x] # "none"

TypeInv == TypeOK /\ ExecInv /\ CountInv /\ ResultInv

\* Without a row there is no copy, and a row is read with the types of its columns.
LEMMA Reading ==
  ASSUME TypeOK
  PROVE  /\ \A j \in Jobs : Row(j) \in Copies /\ Row(j).count = runCount[j]
         /\ None \notin Copies
<1>1. None \notin Copies
  BY JobsAssumption, CountsAssumption DEF Copies
<1>2. ASSUME NEW j \in Jobs PROVE Row(j) \in Copies /\ Row(j).count = runCount[j]
  <2>1. DependsOn[j] \subseteq Jobs
    BY JobsAssumption
  <2>2. runCount[j] \in 0..RunBound
    BY DEF TypeOK
  <2>3. QED
    BY <2>1, <2>2 DEF Row, Copies
<1>3. QED
  BY <1>1, <1>2

\* What one pass of the loop does: executions that were idle are given jobs that
\* were free to start, each its own, with the copy the query returned.
Handed(used, started) ==
  /\ Cardinality(used) = Cardinality(started)
  /\ timed' = timed \cup used
  /\ running' = running \cup started
  /\ DOMAIN pc' = Execs /\ DOMAIN job' = Execs /\ DOMAIN copy' = Jobs \cup Execs
  /\ pc' = [x \in Execs |-> pc'[x]]
  /\ job' = [x \in Execs |-> job'[x]]
  /\ copy' = [k \in Jobs \cup Execs |-> copy'[k]]
  /\ \A x \in used : /\ pc'[x] = "check"
                     /\ job'[x] \in started
                     /\ copy'[x] = copy[job'[x]]
  /\ \A x \in Execs \ used : pc'[x] = pc[x] /\ job'[x] = job[x] /\ copy'[x] = copy[x]
  /\ \A x, y \in used : job'[x] = job'[y] => x = y
  /\ \A j \in Jobs : copy'[j] = None

LEMMA Handing ==
  ASSUME NEW started \in SUBSET Startable, NEW by \in [started -> Idle],
         Begin(started, by)
  PROVE  \E used \in SUBSET Idle : Handed(used, started)
<1> DEFINE used == {by[j] : j \in started}
           Of(x) == CHOOSE j \in started : by[j] = x
<1>1. used \in SUBSET Idle /\ used \in SUBSET Execs /\ started \in SUBSET Jobs
  BY DEF Idle, Startable
<1>2. \A x \in used : Of(x) \in started /\ by[Of(x)] = x
  OBVIOUS
<1>3. used \cap Jobs = {}
  BY <1>1, ExecsAssumption
<1>4. /\ Cardinality(used) = Cardinality(started)
      /\ timed' = timed \cup used
      /\ running' = running \cup started
      /\ pc' = [x \in Execs |-> IF x \in used THEN "check" ELSE pc[x]]
      /\ job' = [x \in Execs |-> IF x \in used THEN Of(x) ELSE job[x]]
      /\ copy' = [k \in Jobs \cup Execs |->
                    CASE k \in Jobs -> None [] k \in used -> copy[Of(k)] [] OTHER -> copy[k]]
  BY DEF Begin
<1> HIDE DEF used, Of
<1>5. \A x \in used : pc'[x] = "check" /\ job'[x] = Of(x) /\ copy'[x] = copy[Of(x)]
  BY <1>1, <1>3, <1>4
<1>6. \A x \in Execs \ used : pc'[x] = pc[x] /\ job'[x] = job[x] /\ copy'[x] = copy[x]
  BY <1>4, ExecsAssumption
<1>7. \A x, y \in used : job'[x] = job'[y] => x = y
  BY <1>2, <1>5
<1>8. \A j \in Jobs : copy'[j] = None
  BY <1>3, <1>4
<1>9. QED
  BY <1>1, <1>2, <1>4, <1>5, <1>6, <1>7, <1>8 DEF Handed

\* Rows start empty.
LEMMA TypeInit == Init => TypeInv
<1> SUFFICES ASSUME Init PROVE TypeInv
  OBVIOUS
<1>1. TypeOK
  <2>1. /\ runCount \in [Jobs -> 0..RunBound] /\ restarts \in 0..MaxRestarts
    BY CountsAssumption DEF Init
  <2>2. history \in [Jobs -> Seq(Execs \cup {"COMPLETED", "FAILED", "CANCELLED"})]
    BY DEF Init
  <2>3. \A j \in Jobs : Len(history[j]) <= MaxFailures
    BY CountsAssumption DEF Init
  <2>4. QED
    BY <2>1, <2>2, <2>3 DEF Init, TypeOK, Labels
<1>2. ExecInv /\ ResultInv
  BY DEF Init, ExecInv, ResultInv
<1>3. CountInv
  BY CountsAssumption DEF Init, CountInv
<1>4. QED
  BY <1>1, <1>2, <1>3 DEF TypeInv

\* A sequence that is changed entry by entry keeps its length.
LEMMA Mapped ==
  ASSUME NEW S, NEW s \in Seq(S), NEW f, f = [i \in DOMAIN s |-> f[i]],
         \A i \in DOMAIN s : f[i] \in S
  PROVE  f \in Seq(S) /\ Len(f) = Len(s)
<1>1. Len(s) \in Nat /\ DOMAIN s = 1..Len(s)
  OBVIOUS
<1>2. f \in [1..Len(s) -> S]
  BY <1>1
<1>3. f \in Seq(S)
  BY <1>1, <1>2, SeqDef
<1>4. QED
  BY <1>1, <1>3

\* The latest rows are rows, and at most as many as are asked for.
LEMMA LatestRows ==
  ASSUME NEW S, NEW runs \in Seq(S)
  PROVE  Latest(runs) \in Seq(S) /\ Len(Latest(runs)) <= MaxFailures
BY CountsAssumption DEF Latest

\* One more row makes the latest rows longer by one at most.
LEMMA LatestLength ==
  ASSUME NEW S, NEW runs \in Seq(S), NEW x
  PROVE  Len(Latest(Append(runs, x))) \in Nat /\ Len(Latest(Append(runs, x))) <= Len(runs) + 1
<1>1. Append(runs, x) \in Seq(S \cup {x}) /\ Len(Append(runs, x)) = Len(runs) + 1
  OBVIOUS
<1>2. \A all \in Seq(S \cup {x}) : Len(Latest(all)) \in Nat /\ Len(Latest(all)) <= Len(all)
  BY CountsAssumption DEF Latest
<1>3. QED
  BY <1>1, <1>2

\* Every step keeps the types: the only counter that grows is copied before it
\* grows, and CountInv bounds the copy.
LEMMA TypeStep == TypeInv /\ [Next]_vars => TypeOK'
<1> SUFFICES ASSUME TypeInv, [Next]_vars PROVE TypeOK'
  OBVIOUS
<1> USE DEF TypeInv, TypeOK, Labels
<1>1. ASSUME TickRead PROVE TypeOK'
  <2>1. copy' \in [Jobs \cup Execs -> Copies \cup {None}]
    BY <1>1, Reading DEF TickRead
  <2>2. QED
    BY <1>1, <2>1 DEF TickRead
<1>2. ASSUME TickLoop PROVE TypeOK'
  <2>1. PICK started \in SUBSET Startable : \E by \in [started -> Idle] : Begin(started, by)
    BY <1>2 DEF TickLoop
  <2>2. PICK used \in SUBSET Idle : Handed(used, started)
    BY <2>1, Handing
  <2>3. /\ used \subseteq Execs /\ started \subseteq Jobs \ running
        /\ \A j \in started : copy[j] # None
    BY DEF Idle, Startable
  <2>4. /\ pc' \in [Execs -> Labels] /\ job' \in [Execs -> Jobs \cup {None}]
        /\ timed' \subseteq Execs /\ running' \subseteq Jobs
    BY <2>2, <2>3 DEF Handed
  <2>5. copy' \in [Jobs \cup Execs -> Copies \cup {None}]
    BY <2>2, <2>3 DEF Handed
  <2>6. QED
    BY <1>2, <2>4, <2>5 DEF TickLoop
<1>3. ASSUME TickFails PROVE TypeOK'
  BY <1>3 DEF TickFails
<1>4. ASSUME Crash PROVE TypeOK'
  <2> DEFINE S == Execs \cup {"COMPLETED", "FAILED", "CANCELLED"}
  <2>1. ASSUME NEW j \in Jobs
        PROVE  history'[j] \in Seq(S) /\ Len(history'[j]) = Len(history[j])
    <3> DEFINE f == history'[j]
    <3>1. /\ history[j] \in Seq(S)
          /\ f = [i \in DOMAIN history[j] |-> f[i]]
          /\ \A i \in DOMAIN history[j] : f[i] \in S
      BY <1>4 DEF Crash
    <3> HIDE DEF f, S
    <3>2. f \in Seq(S) /\ Len(f) = Len(history[j])
      BY <3>1, Mapped
    <3>3. QED
      BY <3>2 DEF f
  <2>3. history' \in [Jobs -> Seq(S)]
    BY <1>4, <2>1 DEF Crash
  <2>2. restarts' \in 0..MaxRestarts
    BY <1>4, CountsAssumption DEF Crash
  <2>4. QED
    BY <1>4, <2>1, <2>2, <2>3 DEF Crash
<1>5. ASSUME NEW j \in Jobs, NextRunAtPasses(j) PROVE TypeOK'
  BY <1>5 DEF NextRunAtPasses
<1>6. ASSUME NEW j \in Jobs, Trigger(j) PROVE TypeOK'
  <2>1. Row(j) \in Copies
    BY Reading
  <2>2. PICK x \in Execs : /\ pc' = [pc EXCEPT ![x] = "start"]
                           /\ job' = [job EXCEPT ![x] = j]
                           /\ copy' = [copy EXCEPT ![x] = Row(j)]
    BY <1>6 DEF Trigger, Idle
  <2>3. QED
    BY <1>6, <2>1, <2>2 DEF Trigger
<1>7. ASSUME NEW j \in Jobs, Delete(j) PROVE TypeOK'
  BY <1>7 DEF Delete
<1>8. ASSUME NEW x \in Execs, Check(x) PROVE TypeOK'
  BY <1>8 DEF Check, At
<1>9. ASSUME NEW x \in Execs, Skip(x) PROVE TypeOK'
  BY <1>9 DEF Skip, At
<1>10. ASSUME NEW x \in Execs, StartRun(x) PROVE TypeOK'
  <2> DEFINE S == Execs \cup {"COMPLETED", "FAILED", "CANCELLED"}
  <2>1. job[x] \in Jobs
    BY <1>10 DEF StartRun, At, ExecInv
  <2>2. Append(history[job[x]], x) \in Seq(S)
    BY <2>1
  <2>3. Latest(Append(history[job[x]], x)) \in Seq(S)
        /\ Len(Latest(Append(history[job[x]], x))) <= MaxFailures
    BY <2>2, LatestRows
  <2>4. history' \in [Jobs -> Seq(S)] /\ \A j \in Jobs : Len(history'[j]) <= MaxFailures
    BY <1>10, <2>1, <2>3 DEF StartRun
  <2>5. QED
    BY <1>10, <2>4 DEF StartRun, At
<1>11. ASSUME NEW x \in Execs, EndRun(x) PROVE TypeOK'
  <2> DEFINE S == Execs \cup {"COMPLETED", "FAILED", "CANCELLED"}
             j == job[x]
  <2>1. job[x] \in Jobs
    BY <1>11 DEF EndRun, ExecInv
  <2>2. PICK outcome \in Outcomes[j] :
          /\ history' = [history EXCEPT ![j] = Close(@, x, outcome)]
          /\ \/ /\ outcome = "COMPLETED" \/ j \in Scripts
                /\ At(x, "running", "record")
                /\ result' = [result EXCEPT ![x] = outcome]
             \/ Catch(x)
    BY <1>11 DEF EndRun
  <2>3. outcome \in {"COMPLETED", "FAILED", "CANCELLED"}
        /\ (j \in Scripts => outcome # "CANCELLED")
    BY <2>1, JobsAssumption
  <2>4. Close(history[j], x, outcome) \in Seq(S)
        /\ Len(Close(history[j], x, outcome)) = Len(history[j])
    <3> DEFINE f == Close(history[j], x, outcome)
    <3>1. /\ history[j] \in Seq(S)
          /\ f = [i \in DOMAIN history[j] |-> f[i]]
          /\ \A i \in DOMAIN history[j] : f[i] \in S
      BY <2>1, <2>3 DEF Close
    <3> HIDE DEF f, S, j
    <3>2. f \in Seq(S) /\ Len(f) = Len(history[j])
      BY <3>1, Mapped
    <3>3. QED
      BY <3>2 DEF f, S, j
  <2>5. history' \in [Jobs -> Seq(S)] /\ \A i \in Jobs : Len(history'[i]) <= MaxFailures
    BY <2>1, <2>2, <2>4
  <2>6. /\ pc' \in [Execs -> Labels]
        /\ result' \in [Execs -> {"none", "COMPLETED", "FAILED", "CAUGHT"}]
    <3>1. CASE Catch(x)
      BY <3>1 DEF Catch
    <3>2. CASE /\ outcome = "COMPLETED" \/ j \in Scripts
               /\ At(x, "running", "record")
               /\ result' = [result EXCEPT ![x] = outcome]
      <4>1. outcome \in {"COMPLETED", "FAILED"}
        BY <3>2, <2>3
      <4>2. QED
        BY <3>2, <4>1 DEF At
    <3>3. QED
      BY <2>2, <3>1, <3>2
  <2>7. QED
    BY <1>11, <2>5, <2>6 DEF EndRun
<1>12. ASSUME NEW x \in Execs, RecordRun(x) PROVE TypeOK'
  <2>1. job[x] \in Jobs /\ copy[x] \in Copies /\ copy[x].count < RunBound
    BY <1>12 DEF RecordRun, At, ExecInv, CountInv
  <2>2. copy[x].count + 1 \in 0..RunBound
    BY <2>1, CountsAssumption DEF Copies
  <2>3. runCount' \in [Jobs -> 0..RunBound]
    BY <1>12, <2>1, <2>2, CountsAssumption DEF RecordRun
  <2>4. newer' \subseteq Jobs \X Jobs
    BY <1>12, <2>1 DEF RecordRun, Stamp, Dependents
  <2>5. copy' \in [Jobs \cup Execs -> Copies \cup {None}]
    BY <1>12, <2>1 DEF RecordRun, Stamp, Copies
  <2>6. /\ pc' \in [Execs -> Labels] /\ enabled' \subseteq Jobs
        /\ due' \in [Jobs -> {"due", "later", "never"}]
        /\ lastStatus' \in [Jobs -> {"none", "COMPLETED", "FAILED"}]
    <3>1. result[x] \in {"COMPLETED", "FAILED", "CAUGHT"}
      BY <1>12 DEF RecordRun, At, ResultInv
    <3>2. QED
      BY <1>12, <2>1, <3>1 DEF RecordRun, At
  <2>7. QED
    BY <1>12, <2>3, <2>4, <2>5, <2>6 DEF RecordRun
<1>13. ASSUME NEW x \in Execs, CountFailures(x) PROVE TypeOK'
  BY <1>13 DEF CountFailures, At
<1>14. ASSUME NEW x \in Execs, Disable(x) PROVE TypeOK'
  BY <1>14 DEF Disable, At
<1>15. ASSUME NEW x \in Execs, Settle(x) PROVE TypeOK'
  BY <1>15 DEF Settle, At
<1>16. ASSUME NEW x \in Execs, RecordFails(x) PROVE TypeOK'
  BY <1>16 DEF RecordFails, At, Catch
<1>17. ASSUME NEW x \in Execs, StepFails(x) PROVE TypeOK'
  BY <1>17 DEF StepFails, Catch
<1>18. CASE UNCHANGED vars
  BY <1>18 DEF vars
<1>19. QED
  BY <1>1, <1>2, <1>3, <1>4, <1>5, <1>6, <1>7, <1>8, <1>9, <1>10, <1>11,
     <1>12, <1>13, <1>14, <1>15, <1>16, <1>17, <1>18
     DEF Next, ExecStep

\* An execution has its job and its copy from the step that starts it until it
\* settles.
LEMMA ExecStepInv == TypeInv /\ [Next]_vars => ExecInv'
<1> SUFFICES ASSUME TypeInv, [Next]_vars PROVE ExecInv'
  OBVIOUS
<1> USE DEF TypeInv, TypeOK, ExecInv
<1>1. ASSUME TickRead PROVE ExecInv'
  BY <1>1, ExecsAssumption DEF TickRead
<1>2. ASSUME TickLoop PROVE ExecInv'
  <2>1. PICK started \in SUBSET Startable : \E by \in [started -> Idle] : Begin(started, by)
    BY <1>2 DEF TickLoop
  <2>2. PICK used \in SUBSET Idle : Handed(used, started)
    BY <2>1, Handing
  <2>3. /\ used \subseteq Execs /\ started \subseteq Jobs \ running
        /\ \A j \in started : copy[j] # None
    BY DEF Idle, Startable
  <2>4. QED
    BY <2>2, <2>3 DEF Handed
<1>3. ASSUME TickFails PROVE ExecInv'
  BY <1>3, ExecsAssumption DEF TickFails
<1>4. ASSUME Crash PROVE ExecInv'
  BY <1>4 DEF Crash
<1>5. ASSUME NEW j \in Jobs, NextRunAtPasses(j) PROVE ExecInv'
  BY <1>5 DEF NextRunAtPasses
<1>6. ASSUME NEW j \in Jobs, Trigger(j) PROVE ExecInv'
  <2>1. Row(j) # None
    BY Reading
  <2>2. PICK x \in Execs : /\ pc' = [pc EXCEPT ![x] = "start"]
                           /\ job' = [job EXCEPT ![x] = j]
                           /\ copy' = [copy EXCEPT ![x] = Row(j)]
    BY <1>6 DEF Trigger, Idle
  <2>3. QED
    BY <2>1, <2>2
<1>7. ASSUME NEW j \in Jobs, Delete(j) PROVE ExecInv'
  BY <1>7 DEF Delete
<1>8. ASSUME NEW x \in Execs, Check(x) PROVE ExecInv'
  BY <1>8 DEF Check, At
<1>9. ASSUME NEW x \in Execs, Skip(x) PROVE ExecInv'
  BY <1>9 DEF Skip, At
<1>10. ASSUME NEW x \in Execs, StartRun(x) PROVE ExecInv'
  BY <1>10 DEF StartRun, At
<1>11. ASSUME NEW x \in Execs, EndRun(x) PROVE ExecInv'
  BY <1>11 DEF EndRun, At, Catch
<1>12. ASSUME NEW x \in Execs, RecordRun(x) PROVE ExecInv'
  BY <1>12, Reading DEF RecordRun, Stamp, At, Copies
<1>13. ASSUME NEW x \in Execs, CountFailures(x) PROVE ExecInv'
  BY <1>13 DEF CountFailures, At
<1>14. ASSUME NEW x \in Execs, Disable(x) PROVE ExecInv'
  BY <1>14 DEF Disable, At
<1>15. ASSUME NEW x \in Execs, Settle(x) PROVE ExecInv'
  BY <1>15 DEF Settle, At
<1>16. ASSUME NEW x \in Execs, RecordFails(x) PROVE ExecInv'
  BY <1>16 DEF RecordFails, At, Catch
<1>17. ASSUME NEW x \in Execs, StepFails(x) PROVE ExecInv'
  BY <1>17 DEF StepFails, Catch
<1>18. CASE UNCHANGED vars
  BY <1>18 DEF vars
<1>19. QED
  BY <1>1, <1>2, <1>3, <1>4, <1>5, <1>6, <1>7, <1>8, <1>9, <1>10, <1>11,
     <1>12, <1>13, <1>14, <1>15, <1>16, <1>17, <1>18
     DEF Next, ExecStep

\* The result is written by the step before "record" and cleared when the
\* execution settles.
LEMMA ResultStep == TypeInv /\ [Next]_vars => ResultInv'
<1> SUFFICES ASSUME TypeInv, [Next]_vars PROVE ResultInv'
  OBVIOUS
<1> USE DEF TypeInv, TypeOK, ResultInv
<1>1. ASSUME TickRead PROVE ResultInv'
  BY <1>1 DEF TickRead
<1>2. ASSUME TickLoop PROVE ResultInv'
  BY <1>2 DEF TickLoop, Begin
<1>3. ASSUME TickFails PROVE ResultInv'
  BY <1>3 DEF TickFails
<1>4. ASSUME Crash PROVE ResultInv'
  BY <1>4 DEF Crash
<1>5. ASSUME NEW j \in Jobs, NextRunAtPasses(j) PROVE ResultInv'
  BY <1>5 DEF NextRunAtPasses
<1>6. ASSUME NEW j \in Jobs, Trigger(j) PROVE ResultInv'
  BY <1>6 DEF Trigger, Idle
<1>7. ASSUME NEW j \in Jobs, Delete(j) PROVE ResultInv'
  BY <1>7 DEF Delete
<1>8. ASSUME NEW x \in Execs, Check(x) PROVE ResultInv'
  BY <1>8 DEF Check, At
<1>9. ASSUME NEW x \in Execs, Skip(x) PROVE ResultInv'
  BY <1>9 DEF Skip, At
<1>10. ASSUME NEW x \in Execs, StartRun(x) PROVE ResultInv'
  BY <1>10 DEF StartRun, At
<1>11. ASSUME NEW x \in Execs, EndRun(x) PROVE ResultInv'
  <2>1. job[x] \in Jobs
    BY <1>11 DEF EndRun, ExecInv
  <2>2. \A outcome \in Outcomes[job[x]] : outcome # "none"
    BY <2>1, JobsAssumption
  <2>3. PICK outcome \in Outcomes[job[x]] :
          \/ At(x, "running", "record") /\ result' = [result EXCEPT ![x] = outcome]
          \/ Catch(x)
    BY <1>11 DEF EndRun
  <2>4. QED
    BY <2>2, <2>3 DEF At, Catch
<1>12. ASSUME NEW x \in Execs, RecordRun(x) PROVE ResultInv'
  BY <1>12 DEF RecordRun, Stamp, At
<1>13. ASSUME NEW x \in Execs, CountFailures(x) PROVE ResultInv'
  BY <1>13 DEF CountFailures, At
<1>14. ASSUME NEW x \in Execs, Disable(x) PROVE ResultInv'
  BY <1>14 DEF Disable, At
<1>15. ASSUME NEW x \in Execs, Settle(x) PROVE ResultInv'
  BY <1>15 DEF Settle, At
<1>16. ASSUME NEW x \in Execs, RecordFails(x) PROVE ResultInv'
  BY <1>16 DEF RecordFails, At, Catch
<1>17. ASSUME NEW x \in Execs, StepFails(x) PROVE ResultInv'
  BY <1>17 DEF StepFails, Catch
<1>18. CASE UNCHANGED vars
  BY <1>18 DEF vars
<1>19. QED
  BY <1>1, <1>2, <1>3, <1>4, <1>5, <1>6, <1>7, <1>8, <1>9, <1>10, <1>11,
     <1>12, <1>13, <1>14, <1>15, <1>16, <1>17, <1>18
     DEF Next, ExecStep

\* A copy is taken from a row that has room for one more run, and RecordRun
\* disables the job in the step that uses up the last.
LEMMA CountStep == TypeInv /\ [Next]_vars => CountInv'
<1> SUFFICES ASSUME TypeInv, [Next]_vars PROVE CountInv'
  OBVIOUS
<1> USE DEF TypeInv, TypeOK, CountInv
<1>1. ASSUME TickRead PROVE CountInv'
  <2>1. \A j \in enabled : runCount[j] < RunBound
    BY CountsAssumption
  <2>2. QED
    BY <1>1, <2>1, Reading DEF TickRead
<1>2. ASSUME TickLoop PROVE CountInv'
  <2>1. PICK started \in SUBSET Startable : \E by \in [started -> Idle] : Begin(started, by)
    BY <1>2 DEF TickLoop
  <2>2. PICK used \in SUBSET Idle : Handed(used, started)
    BY <2>1, Handing
  <2>3. /\ used \subseteq Execs /\ started \subseteq Jobs \ running
        /\ \A j \in started : copy[j] # None
    BY DEF Idle, Startable
  <2>4. \A k \in Jobs \cup Execs : copy'[k] # None => copy'[k].count < RunBound
    BY <2>2, <2>3 DEF Handed
  <2>5. QED
    BY <1>2, <2>4 DEF TickLoop
<1>3. ASSUME TickFails PROVE CountInv'
  BY <1>3 DEF TickFails
<1>4. ASSUME Crash PROVE CountInv'
  BY <1>4 DEF Crash
<1>5. ASSUME NEW j \in Jobs, NextRunAtPasses(j) PROVE CountInv'
  BY <1>5 DEF NextRunAtPasses
<1>6. ASSUME NEW j \in Jobs, Trigger(j) PROVE CountInv'
  <2>1. Row(j).count < RunBound
    BY <1>6, Reading DEF Trigger
  <2>2. PICK x \in Execs : copy' = [copy EXCEPT ![x] = Row(j)]
    BY <1>6 DEF Trigger, Idle
  <2>3. QED
    BY <1>6, <2>1, <2>2 DEF Trigger
<1>7. ASSUME NEW j \in Jobs, Delete(j) PROVE CountInv'
  BY <1>7 DEF Delete
<1>8. ASSUME NEW x \in Execs, Check(x) PROVE CountInv'
  BY <1>8 DEF Check, At
<1>9. ASSUME NEW x \in Execs, Skip(x) PROVE CountInv'
  BY <1>9 DEF Skip, At
<1>10. ASSUME NEW x \in Execs, StartRun(x) PROVE CountInv'
  BY <1>10 DEF StartRun, At
<1>11. ASSUME NEW x \in Execs, EndRun(x) PROVE CountInv'
  BY <1>11 DEF EndRun, At, Catch
<1>12. ASSUME NEW x \in Execs, RecordRun(x) PROVE CountInv'
  <2>1. job[x] \in Jobs /\ copy[x] \in Copies /\ copy[x].count < RunBound
    BY <1>12 DEF RecordRun, At, ExecInv
  <2>2. \A k \in Jobs \cup Execs : copy'[k] # None => copy'[k].count < RunBound
    BY <1>12, <2>1 DEF RecordRun, Stamp, Copies
  <2>3. \A j \in Jobs : MaxRunsOf[j] = 0 => runCount'[j] = 0
    BY <1>12, <2>1 DEF RecordRun
  <2>4. \A j \in enabled' : MaxRunsOf[j] # 0 => runCount'[j] < MaxRunsOf[j]
    <3> DEFINE n == copy[x].count + 1
    <3>1. n \in Nat
      BY <2>1, CountsAssumption DEF Copies
    <3>2. ASSUME NEW j \in enabled', MaxRunsOf[j] # 0, j = job[x]
          PROVE  runCount'[j] < MaxRunsOf[j]
      <4>1. ~ReachedMaxRuns(j, n)
        BY <1>12, <3>2 DEF RecordRun
      <4>2. runCount' = [runCount EXCEPT ![job[x]] = n]
        BY <1>12, <3>2 DEF RecordRun
      <4>4. runCount'[j] = n
        BY <2>1, <3>2, <4>2
      <4>5. MaxRunsOf[j] \in Nat
        BY <2>1, <3>2, CountsAssumption
      <4>3. QED
        BY <3>1, <3>2, <4>1, <4>4, <4>5 DEF ReachedMaxRuns
    <3>3. ASSUME NEW j \in enabled', MaxRunsOf[j] # 0, j # job[x]
          PROVE  runCount'[j] < MaxRunsOf[j]
      BY <1>12, <2>1, <3>3 DEF RecordRun
    <3>4. QED
      BY <3>2, <3>3
  <2>5. QED
    BY <2>2, <2>3, <2>4
<1>13. ASSUME NEW x \in Execs, CountFailures(x) PROVE CountInv'
  BY <1>13 DEF CountFailures, At
<1>14. ASSUME NEW x \in Execs, Disable(x) PROVE CountInv'
  BY <1>14 DEF Disable, At
<1>15. ASSUME NEW x \in Execs, Settle(x) PROVE CountInv'
  BY <1>15 DEF Settle, At
<1>16. ASSUME NEW x \in Execs, RecordFails(x) PROVE CountInv'
  BY <1>16 DEF RecordFails, At, Catch
<1>17. ASSUME NEW x \in Execs, StepFails(x) PROVE CountInv'
  BY <1>17 DEF StepFails, Catch
<1>18. CASE UNCHANGED vars
  BY <1>18 DEF vars
<1>19. QED
  BY <1>1, <1>2, <1>3, <1>4, <1>5, <1>6, <1>7, <1>8, <1>9, <1>10, <1>11,
     <1>12, <1>13, <1>14, <1>15, <1>16, <1>17, <1>18
     DEF Next, ExecStep

LEMMA TypeInvStep == TypeInv /\ [Next]_vars => TypeInv'
BY TypeStep, ExecStepInv, CountStep, ResultStep DEF TypeInv

\* Every variable keeps its type; for runCount that is a claim about stale copies.
THEOREM TypeCorrect == Spec => []TypeOK
<1>1. Spec => []TypeInv
  BY TypeInit, TypeInvStep, PTL DEF Spec
<1>2. TypeInv => TypeOK
  BY DEF TypeInv
<1>3. QED
  BY <1>1, <1>2, PTL

-----------------------------------------------------------------------------
(* The timer.                                                              *)

\* The jobs of the executions that the timer started are in the running set, one
\* execution for each.
TimerInv ==
  /\ \A x \in timed : pc[x] # "idle" /\ job[x] \in running
  /\ \A x, y \in timed : job[x] = job[y] => x = y
  /\ Cardinality(timed) <= MaxConcurrent

\* The executions of the timer are at most as many as the jobs in running.
LEMMA TimedCounting ==
  ASSUME TypeOK, TimerInv
  PROVE  /\ IsFiniteSet(timed) /\ IsFiniteSet(running)
         /\ Cardinality(timed) \in Nat /\ Cardinality(running) \in Nat
         /\ Cardinality(timed) <= Cardinality(running)
<1>1. IsFiniteSet(timed) /\ IsFiniteSet(running)
  BY JobsAssumption, ExecsAssumption, FS_Subset DEF TypeOK
<1> DEFINE f == [x \in timed |-> job[x]]
<1>2. f \in Injection(timed, running)
  BY DEF TimerInv, Injection, IsInjective
<1>3. Cardinality(timed) <= Cardinality(running)
  BY <1>1, <1>2, FS_Injection
<1>4. QED
  BY <1>1, <1>3, FS_CardinalityType

\* A pass of the loop starts no more executions than there is room for.
LEMMA RoomIsKept ==
  ASSUME TypeOK, TimerInv, NEW started \in SUBSET Startable,
         Cardinality(started) = IF Cardinality(Startable) < Room
                                  THEN Cardinality(Startable) ELSE Room,
         NEW used \in SUBSET Idle, Cardinality(used) = Cardinality(started)
  PROVE  Cardinality(timed \cup used) <= MaxConcurrent
<1>1. Startable \subseteq Jobs /\ used \subseteq Execs
  BY DEF Startable, Idle
<1>2. IsFiniteSet(Startable) /\ IsFiniteSet(used)
  BY <1>1, JobsAssumption, ExecsAssumption, FS_Subset
<1>3. Cardinality(Startable) \in Nat /\ Cardinality(used) \in Nat
  BY <1>2, FS_CardinalityType
<1>4. /\ IsFiniteSet(timed)
      /\ Cardinality(timed) \in Nat /\ Cardinality(running) \in Nat
      /\ Cardinality(timed) <= Cardinality(running)
  BY TimedCounting
<1>5. Cardinality(used) <= Room
  BY <1>3, <1>4, CountsAssumption DEF Room
<1>6. Cardinality(timed) + Room <= MaxConcurrent
  BY <1>4, CountsAssumption DEF Room, TimerInv
<1>7. /\ Cardinality(timed \cup used) =
           Cardinality(timed) + Cardinality(used) - Cardinality(timed \cap used)
      /\ Cardinality(timed \cap used) \in Nat
  <2>1. IsFiniteSet(timed \cap used)
    BY <1>4, FS_Subset
  <2>2. QED
    BY <1>2, <1>4, <2>1, FS_Union, FS_CardinalityType
<1>8. Room \in Nat
  BY <1>4, CountsAssumption DEF Room
<1>9. ASSUME NEW u \in Nat, NEW t \in Nat, NEW i \in Nat, NEW room \in Nat,
             u <= room, t + room <= MaxConcurrent
      PROVE  t + u - i <= MaxConcurrent
  BY <1>9, CountsAssumption
<1>10. QED
  BY <1>3, <1>4, <1>5, <1>6, <1>7, <1>8, <1>9

\* Only TickLoop adds executions, and finally() removes job and execution together.
LEMMA TimerStep == TypeInv /\ TimerInv /\ [Next]_vars => TimerInv'
<1> SUFFICES ASSUME TypeInv, TimerInv, [Next]_vars PROVE TimerInv'
  OBVIOUS
<1> USE DEF TypeInv, TypeOK, TimerInv
<1>1. ASSUME TickRead PROVE TimerInv'
  BY <1>1 DEF TickRead
<1>2. ASSUME TickLoop PROVE TimerInv'
  <2>1. PICK started \in SUBSET Startable :
          /\ Cardinality(started) = IF Cardinality(Startable) < Room
                                      THEN Cardinality(Startable) ELSE Room
          /\ \E by \in [started -> Idle] : Begin(started, by)
    BY <1>2 DEF TickLoop
  <2>2. PICK used \in SUBSET Idle : Handed(used, started)
    BY <2>1, Handing
  <2>3. used \subseteq Execs /\ started \subseteq Jobs \ running
    BY DEF Idle, Startable
  <2>4. Cardinality(timed') <= MaxConcurrent
    BY <2>1, <2>2, RoomIsKept DEF Handed
  <2>5. \A x \in timed : x \notin used /\ job'[x] = job[x] /\ pc'[x] = pc[x]
    BY <2>2 DEF Handed, Idle
  <2>6. QED
    BY <2>2, <2>3, <2>4, <2>5 DEF Handed
<1>3. ASSUME TickFails PROVE TimerInv'
  BY <1>3 DEF TickFails
<1>4. ASSUME Crash PROVE TimerInv'
  BY <1>4, FS_EmptySet, CountsAssumption DEF Crash
<1>5. ASSUME NEW j \in Jobs, NextRunAtPasses(j) PROVE TimerInv'
  BY <1>5 DEF NextRunAtPasses
<1>6. ASSUME NEW j \in Jobs, Trigger(j) PROVE TimerInv'
  <2>1. PICK x \in Execs : /\ pc[x] = "idle"
                           /\ pc' = [pc EXCEPT ![x] = "start"]
                           /\ job' = [job EXCEPT ![x] = j]
    BY <1>6 DEF Trigger, Idle
  <2>2. QED
    BY <1>6, <2>1 DEF Trigger
<1>7. ASSUME NEW j \in Jobs, Delete(j) PROVE TimerInv'
  BY <1>7 DEF Delete
<1>8. ASSUME NEW x \in Execs, Check(x) PROVE TimerInv'
  BY <1>8 DEF Check, At
<1>9. ASSUME NEW x \in Execs, Skip(x) PROVE TimerInv'
  BY <1>9 DEF Skip, At
<1>10. ASSUME NEW x \in Execs, StartRun(x) PROVE TimerInv'
  BY <1>10 DEF StartRun, At
<1>11. ASSUME NEW x \in Execs, EndRun(x) PROVE TimerInv'
  BY <1>11 DEF EndRun, At, Catch
<1>12. ASSUME NEW x \in Execs, RecordRun(x) PROVE TimerInv'
  BY <1>12 DEF RecordRun, Stamp, At
<1>13. ASSUME NEW x \in Execs, CountFailures(x) PROVE TimerInv'
  BY <1>13 DEF CountFailures, At
<1>14. ASSUME NEW x \in Execs, Disable(x) PROVE TimerInv'
  BY <1>14 DEF Disable, At
<1>15. ASSUME NEW x \in Execs, Settle(x) PROVE TimerInv'
  <2>1. IsFiniteSet(timed)
    BY ExecsAssumption, FS_Subset
  <2>2. Cardinality(timed') \in Nat /\ Cardinality(timed') <= MaxConcurrent
    <3>1. timed' \in SUBSET timed
      BY <1>15 DEF Settle
    <3>2. IsFiniteSet(timed') /\ Cardinality(timed') <= Cardinality(timed)
      BY <2>1, <3>1, FS_Subset
    <3>3. QED
      BY <2>1, <3>2, FS_CardinalityType, CountsAssumption
  <2>3. \A y \in timed' : /\ y \in timed /\ y # x
                          /\ job'[y] = job[y] /\ pc'[y] = pc[y]
                          /\ (x \in timed => job[y] # job[x])
    BY <1>15 DEF Settle, At
  <2>4. running' = IF x \in timed THEN running \ {job[x]} ELSE running
    BY <1>15 DEF Settle
  <2>5. QED
    BY <2>2, <2>3, <2>4
<1>16. ASSUME NEW x \in Execs, RecordFails(x) PROVE TimerInv'
  BY <1>16 DEF RecordFails, At, Catch
<1>17. ASSUME NEW x \in Execs, StepFails(x) PROVE TimerInv'
  BY <1>17 DEF StepFails, Catch
<1>18. CASE UNCHANGED vars
  BY <1>18 DEF vars
<1>19. QED
  BY <1>1, <1>2, <1>3, <1>4, <1>5, <1>6, <1>7, <1>8, <1>9, <1>10, <1>11,
     <1>12, <1>13, <1>14, <1>15, <1>16, <1>17, <1>18
     DEF Next, ExecStep

\* The timer keeps one execution of a job in flight and respects the limit.
THEOREM TimerKeepsItsLimit == Spec => []TimerIsExclusive
<1>1. Init => TimerInv
  BY FS_EmptySet, CountsAssumption DEF Init, TimerInv
<1>2. Spec => [](TypeInv /\ TimerInv)
  BY <1>1, TypeInit, TypeInvStep, TimerStep, PTL DEF Spec
<1>3. TimerInv => TimerIsExclusive
  BY DEF TimerInv, TimerIsExclusive
<1>4. QED
  BY <1>2, <1>3, PTL
-----------------------------------------------------------------------------
(* Failures.                                                               *)

\* The rows of a job whose agent never fails hold no failure, so no execution of
\* it counts a streak of them.
Healthy(j) == Outcomes[j] = {"COMPLETED"} /\ MaxRunsOf[j] = 0

HealthyInv ==
  \A j \in Jobs : Healthy(j) =>
    /\ j \in enabled
    /\ \A i \in DOMAIN history[j] : history[j][i] # "FAILED"
    /\ \A x \in Execs : pc[x] = "disable" => job[x] # j

\* A streak needs at least one failure.
LEMMA StreakOfFailures ==
  ASSUME TypeOK, NEW j \in Jobs, Streak(j)
  PROVE  \E i \in DOMAIN history[j] : history[j][i] = "FAILED"
<1>1. Len(history[j]) \in Nat /\ DOMAIN history[j] = 1..Len(history[j])
  BY DEF TypeOK
<1>2. 1 \in DOMAIN history[j]
  BY <1>1, CountsAssumption DEF Streak
<1>3. QED
  BY <1>2 DEF Streak

\* The latest rows are among the rows.
LEMMA LatestAmong ==
  ASSUME NEW S, NEW runs \in Seq(S), NEW i \in DOMAIN Latest(runs)
  PROVE  \E k \in DOMAIN runs : Latest(runs)[i] = runs[k]
<1>1. Len(runs) \in Nat /\ DOMAIN runs = 1..Len(runs)
  OBVIOUS
<1>2. CASE Len(runs) > MaxFailures
  <2>1. Latest(runs) = SubSeq(runs, Len(runs) - MaxFailures + 1, Len(runs))
    BY <1>2 DEF Latest
  <2>2. i \in 1..MaxFailures /\ Latest(runs)[i] = runs[Len(runs) - MaxFailures + i]
    BY <1>1, <1>2, <2>1, CountsAssumption
  <2>3. QED
    BY <1>1, <1>2, <2>2, CountsAssumption
<1>3. CASE Len(runs) <= MaxFailures
  <2>1. ~(Len(runs) > MaxFailures)
    BY <1>1, <1>3, CountsAssumption
  <2>3. Latest(runs) = SubSeq(runs, 1, Len(runs))
    BY <2>1 DEF Latest
  <2>2. QED
    BY <1>1, <2>3
<1>4. QED
  BY <1>1, <1>2, <1>3, CountsAssumption

\* Rows become FAILED in EndRun only, and a job is disabled by Delete, at its
\* maxRuns or after a streak.
LEMMA HealthyStep ==
  "delete" \notin Events /\ TypeInv /\ HealthyInv /\ [Next]_vars => HealthyInv'
<1> SUFFICES ASSUME "delete" \notin Events, TypeInv, HealthyInv, [Next]_vars
             PROVE  HealthyInv'
  OBVIOUS
<1>0. /\ pc \in [Execs -> Labels] /\ job \in [Execs -> Jobs \cup {None}]
      /\ DOMAIN history = Jobs
      /\ \A x \in Execs : pc[x] # "idle" => job[x] \in Jobs
  BY DEF TypeInv, TypeOK, ExecInv
<1> USE DEF HealthyInv
<1>1. ASSUME TickRead PROVE HealthyInv'
  BY <1>1, <1>0 DEF TickRead
<1>2. ASSUME TickLoop PROVE HealthyInv'
  <2>1. PICK started \in SUBSET Startable : \E by \in [started -> Idle] : Begin(started, by)
    BY <1>2 DEF TickLoop
  <2>2. PICK used \in SUBSET Idle : Handed(used, started)
    BY <2>1, Handing
  <2>3. \A x \in Execs : pc'[x] = "disable" => pc[x] = "disable" /\ job'[x] = job[x]
    BY <2>2 DEF Handed
  <2>4. QED
    BY <1>2, <2>3 DEF TickLoop
<1>3. ASSUME TickFails PROVE HealthyInv'
  BY <1>3, <1>0 DEF TickFails
<1>4. ASSUME Crash PROVE HealthyInv'
  <2>1. \A j \in Jobs : \A i \in DOMAIN history'[j] :
          i \in DOMAIN history[j] /\ history'[j][i] \in {history[j][i], "CANCELLED"}
    BY <1>4 DEF Crash
  <2>2. \A x \in Execs : pc'[x] # "disable"
    BY <1>4 DEF Crash
  <2>3. enabled' = enabled
    BY <1>4 DEF Crash
  <2>4. QED
    BY <2>1, <2>2, <2>3
<1>5. ASSUME NEW j \in Jobs, NextRunAtPasses(j) PROVE HealthyInv'
  BY <1>5, <1>0 DEF NextRunAtPasses
<1>6. ASSUME NEW j \in Jobs, Trigger(j) PROVE HealthyInv'
  <2>1. PICK x \in Execs : /\ pc' = [pc EXCEPT ![x] = "start"]
                           /\ job' = [job EXCEPT ![x] = j]
    BY <1>6 DEF Trigger, Idle
  <2>2. \A y \in Execs : pc'[y] = "disable" => pc[y] = "disable" /\ job'[y] = job[y]
    BY <1>0, <2>1
  <2>3. QED
    BY <1>6, <2>2 DEF Trigger
<1>7. ASSUME NEW j \in Jobs, Delete(j) PROVE HealthyInv'
  BY <1>7, <1>0 DEF Delete
<1>8. ASSUME NEW x \in Execs, Check(x) PROVE HealthyInv'
  BY <1>8, <1>0 DEF Check, At
<1>9. ASSUME NEW x \in Execs, Skip(x) PROVE HealthyInv'
  BY <1>9, <1>0 DEF Skip, At
<1>10. ASSUME NEW x \in Execs, StartRun(x) PROVE HealthyInv'
  <2> DEFINE S == Execs \cup {"COMPLETED", "FAILED", "CANCELLED"}
             j == job[x]
             all == Append(history[j], x)
  <2>1. j \in Jobs /\ x # "FAILED" /\ history[j] \in Seq(S)
    BY <1>10, ExecsAssumption DEF StartRun, At, TypeInv, TypeOK, ExecInv
  <2>2. /\ all \in Seq(S)
        /\ \A i \in DOMAIN all : all[i] = x \/ \E k \in DOMAIN history[j] : all[i] = history[j][k]
    BY <2>1
  <2>3. \A i \in DOMAIN Latest(all) : \E k \in DOMAIN all : Latest(all)[i] = all[k]
    <3> HIDE DEF all, S
    <3>1. QED
      BY <2>2, LatestAmong
  <2>4. history' = [history EXCEPT ![j] = Latest(all)] \/ history' = history
    BY <1>10 DEF StartRun
  <2> HIDE DEF all, j
  <2>5. \A k \in Jobs : \A i \in DOMAIN history'[k] :
          \/ history'[k][i] = x
          \/ \E i0 \in DOMAIN history[k] : history'[k][i] = history[k][i0]
    BY <1>0, <2>1, <2>2, <2>3, <2>4
  <2>6. \A y \in Execs : pc'[y] = "disable" => pc[y] = "disable"
    BY <1>10, <1>0 DEF StartRun, At
  <2>7. QED
    BY <1>10, <2>1, <2>5, <2>6 DEF StartRun
<1>11. ASSUME NEW x \in Execs, EndRun(x) PROVE HealthyInv'
  <2>1. job[x] \in Jobs
    BY <1>11, <1>0 DEF EndRun
  <2>2. PICK outcome \in Outcomes[job[x]] :
          history' = [history EXCEPT ![job[x]] = Close(@, x, outcome)]
    BY <1>11 DEF EndRun
  <2>3. \A y \in Execs : pc'[y] = "disable" => pc[y] = "disable"
    BY <1>11, <1>0 DEF EndRun, At, Catch
  <2>4. \A k \in Jobs : \A i \in DOMAIN history'[k] :
          /\ i \in DOMAIN history[k]
          /\ history'[k][i] = history[k][i] \/ (k = job[x] /\ history'[k][i] = outcome)
    BY <1>0, <2>1, <2>2 DEF Close
  <2>5. Healthy(job[x]) => outcome # "FAILED"
    BY <2>2 DEF Healthy
  <2>6. QED
    BY <1>11, <2>3, <2>4, <2>5 DEF EndRun
<1>12. ASSUME NEW x \in Execs, RecordRun(x) PROVE HealthyInv'
  <2>1. job[x] \in Jobs
    BY <1>12, <1>0 DEF RecordRun, At
  <2>2. \A j \in Jobs : Healthy(j) /\ j \in enabled => j \in enabled'
    BY <1>12, <2>1 DEF RecordRun, ReachedMaxRuns, Healthy
  <2>3. \A y \in Execs : pc'[y] = "disable" => pc[y] = "disable"
    BY <1>12, <1>0 DEF RecordRun, At
  <2>4. QED
    BY <1>12, <2>2, <2>3 DEF RecordRun
<1>13. ASSUME NEW x \in Execs, CountFailures(x) PROVE HealthyInv'
  <2>1. job[x] \in Jobs
    BY <1>13, <1>0 DEF CountFailures, At
  <2>2. Streak(job[x]) => \E i \in DOMAIN history[job[x]] : history[job[x]][i] = "FAILED"
    BY <2>1, StreakOfFailures DEF TypeInv
  <2>3. QED
    BY <1>13, <1>0, <2>1, <2>2 DEF CountFailures, At
<1>14. ASSUME NEW x \in Execs, Disable(x) PROVE HealthyInv'
  BY <1>14, <1>0 DEF Disable, At
<1>15. ASSUME NEW x \in Execs, Settle(x) PROVE HealthyInv'
  BY <1>15, <1>0 DEF Settle, At
<1>16. ASSUME NEW x \in Execs, RecordFails(x) PROVE HealthyInv'
  BY <1>16, <1>0 DEF RecordFails, At, Catch
<1>17. ASSUME NEW x \in Execs, StepFails(x) PROVE HealthyInv'
  BY <1>17, <1>0 DEF StepFails, Catch
<1>18. CASE UNCHANGED vars
  BY <1>18, <1>0 DEF vars
<1>19. QED
  BY <1>1, <1>2, <1>3, <1>4, <1>5, <1>6, <1>7, <1>8, <1>9, <1>10, <1>11,
     <1>12, <1>13, <1>14, <1>15, <1>16, <1>17, <1>18
     DEF Next, ExecStep

\* A job whose agent never fails stays enabled unless somebody deletes it.
THEOREM HealthyJobsStay == Spec => []HealthyJobStaysEnabled
<1>1. Init => HealthyInv
  BY DEF Init, HealthyInv
<1> DEFINE Inv == TypeInv /\ ("delete" \notin Events => HealthyInv)
<1>2. Init => Inv
  BY <1>1, TypeInit
<1>3. Inv /\ [Next]_vars => Inv'
  BY TypeInvStep, HealthyStep
<1>4. Inv => HealthyJobStaysEnabled
  BY DEF HealthyInv, Healthy, HealthyJobStaysEnabled
<1> HIDE DEF Inv
<1>5. QED
  BY <1>2, <1>3, <1>4, PTL DEF Spec
-----------------------------------------------------------------------------
(* maxRuns.                                                                *)

\* From the first check to the update of the row, and the part of it in which the
\* agent run may have its row already.
Busy(x)  == pc[x] \in {"check", "skip", "start", "running", "record"}
InRun(x) == pc[x] \in {"running", "record"}

\* A copy lags at most one run behind its row.  While an execution is busy the
\* row does not move, so what the timer reads meanwhile is stale by one when the
\* execution has recorded its run, and only if its own copy was not.
LagsByOne(c, j) == /\ c.count <= runCount[j] /\ runCount[j] <= c.count + 1
                   /\ c.count < MaxRunsOf[j]

OvershootAt(j) ==
  /\ runCount[j] <= MaxRunsOf[j]
  /\ copy[j] # None =>
       /\ LagsByOne(copy[j], j)
       /\ \/ Len(history[j]) <= runCount[j] + copy[j].count
          \/ \E x \in Execs : job[x] = j /\ Busy(x)
  /\ \/ Len(history[j]) <= 2 * runCount[j]
     \/ \E x \in Execs : job[x] = j /\ InRun(x)
  /\ \A x \in Execs : job[x] = j /\ Busy(x) =>
       /\ LagsByOne(copy[x], j)
       /\ copy[j] # None => copy[j].count = runCount[j]
       /\ Len(history[j]) <= runCount[j] + copy[x].count + (IF InRun(x) THEN 1 ELSE 0)

Undisturbed == Events \cap {"trigger", "updateFails"} = {} /\ MaxRestarts = 0

\* What a step has to leave alone for a job to keep its bound.
LEMMA Unmoved ==
  ASSUME TypeInv, NEW j \in Jobs, OvershootAt(j),
         runCount'[j] = runCount[j],
         Len(history'[j]) = Len(history[j]),
         copy'[j] # None => copy[j] # None /\ copy'[j].count = copy[j].count,
         \A x \in Execs : job'[x] = j /\ Busy(x)' =>
           job[x] = j /\ Busy(x) /\ copy'[x].count = copy[x].count,
         \A x \in Execs : job[x] = j /\ Busy(x) => job'[x] = j /\ Busy(x)',
         \A x \in Execs : job[x] = j /\ InRun(x) => job'[x] = j /\ InRun(x)'
  PROVE  OvershootAt(j)'
<1> DEFINE r == runCount[j]
           h == Len(history[j])
<1>1. r \in Nat /\ h \in Nat
  BY CountsAssumption DEF TypeInv, TypeOK
<1>2. runCount'[j] <= MaxRunsOf[j]
  BY DEF OvershootAt
<1>3. copy'[j] # None =>
        /\ LagsByOne(copy[j], j)'
        /\ \/ Len(history'[j]) <= runCount'[j] + copy'[j].count
           \/ \E x \in Execs : job'[x] = j /\ Busy(x)'
  BY DEF OvershootAt, LagsByOne
<1>4. \/ Len(history'[j]) <= 2 * runCount'[j]
      \/ \E x \in Execs : job'[x] = j /\ InRun(x)'
  BY DEF OvershootAt
<1>5. ASSUME NEW x \in Execs, job'[x] = j, Busy(x)'
      PROVE  /\ LagsByOne(copy[x], j)'
             /\ copy'[j] # None => copy'[j].count = runCount'[j]
             /\ Len(history'[j]) <= runCount'[j] + copy'[x].count + (IF InRun(x)' THEN 1 ELSE 0)
  <2>1. /\ job[x] = j /\ Busy(x) /\ copy'[x].count = copy[x].count
        /\ LagsByOne(copy[x], j)
        /\ copy[j] # None => copy[j].count = r
        /\ h <= r + copy[x].count + (IF InRun(x) THEN 1 ELSE 0)
    BY <1>5 DEF OvershootAt
  <2>2. copy[x].count \in Nat
    BY <2>1, CountsAssumption DEF Busy, TypeInv, TypeOK, ExecInv, Copies
  <2>3. InRun(x) => InRun(x)'
    BY <2>1
  <2>4. h <= r + copy[x].count + (IF InRun(x)' THEN 1 ELSE 0)
    BY <1>1, <2>1, <2>2, <2>3
  <2>5. QED
    BY <2>1, <2>4 DEF LagsByOne
<1>6. QED
  BY <1>2, <1>3, <1>4, <1>5 DEF OvershootAt

\* Executions come from the loop of tick() alone.
TimedInv == \A x \in Execs : pc[x] # "idle" => x \in timed

LEMMA TimedStep == Undisturbed /\ TypeInv /\ TimedInv /\ [Next]_vars => TimedInv'
<1> SUFFICES ASSUME Undisturbed, TypeInv, TimedInv, [Next]_vars PROVE TimedInv'
  OBVIOUS
<1>0. pc \in [Execs -> Labels]
  BY DEF TypeInv, TypeOK
<1> USE DEF TimedInv
<1>1. ASSUME TickRead PROVE TimedInv'
  BY <1>1, <1>0 DEF TickRead
<1>2. ASSUME TickLoop PROVE TimedInv'
  <2>1. PICK started \in SUBSET Startable : \E by \in [started -> Idle] : Begin(started, by)
    BY <1>2 DEF TickLoop
  <2>2. PICK used \in SUBSET Idle : Handed(used, started)
    BY <2>1, Handing DEF TypeInv
  <2>3. QED
    BY <2>2 DEF Handed
<1>3. ASSUME TickFails PROVE TimedInv'
  BY <1>3, <1>0 DEF TickFails
<1>4. ASSUME Crash PROVE TimedInv'
  BY <1>4, <1>0 DEF Crash
<1>5. ASSUME NEW j \in Jobs, NextRunAtPasses(j) PROVE TimedInv'
  BY <1>5, <1>0 DEF NextRunAtPasses
<1>6. ASSUME NEW j \in Jobs, Trigger(j) PROVE TimedInv'
  BY <1>6 DEF Trigger, Undisturbed
<1>7. ASSUME NEW j \in Jobs, Delete(j) PROVE TimedInv'
  BY <1>7, <1>0 DEF Delete
<1>8. ASSUME NEW x \in Execs, Check(x) PROVE TimedInv'
  BY <1>8, <1>0 DEF Check, At
<1>9. ASSUME NEW x \in Execs, Skip(x) PROVE TimedInv'
  BY <1>9, <1>0 DEF Skip, At
<1>10. ASSUME NEW x \in Execs, StartRun(x) PROVE TimedInv'
  BY <1>10, <1>0 DEF StartRun, At
<1>11. ASSUME NEW x \in Execs, EndRun(x) PROVE TimedInv'
  BY <1>11, <1>0 DEF EndRun, At, Catch
<1>12. ASSUME NEW x \in Execs, RecordRun(x) PROVE TimedInv'
  BY <1>12, <1>0 DEF RecordRun, Stamp, At
<1>13. ASSUME NEW x \in Execs, CountFailures(x) PROVE TimedInv'
  BY <1>13, <1>0 DEF CountFailures, At
<1>14. ASSUME NEW x \in Execs, Disable(x) PROVE TimedInv'
  BY <1>14, <1>0 DEF Disable, At
<1>15. ASSUME NEW x \in Execs, Settle(x) PROVE TimedInv'
  BY <1>15, <1>0 DEF Settle, At
<1>16. ASSUME NEW x \in Execs, RecordFails(x) PROVE TimedInv'
  BY <1>16, <1>0 DEF RecordFails, At, Catch
<1>17. ASSUME NEW x \in Execs, StepFails(x) PROVE TimedInv'
  BY <1>17, <1>0 DEF StepFails, Catch
<1>18. CASE UNCHANGED vars
  BY <1>18, <1>0 DEF vars
<1>19. QED
  BY <1>1, <1>2, <1>3, <1>4, <1>5, <1>6, <1>7, <1>8, <1>9, <1>10, <1>11,
     <1>12, <1>13, <1>14, <1>15, <1>16, <1>17, <1>18
     DEF Next, ExecStep

\* No two executions of the timer share a job, so a job's bound is up to one.
LEMMA Alone ==
  ASSUME TimedInv, TimerInv, NEW x \in Execs, NEW y \in Execs,
         Busy(x), Busy(y), job[x] = job[y]
  PROVE  x = y
BY DEF TimedInv, TimerInv, Busy

\* The bound of one job under every step.
LEMMA OvershootStep ==
  ASSUME Undisturbed, TypeInv, TimerInv, TimedInv, [Next]_vars,
         NEW k \in Jobs, MaxRunsOf[k] # 0, OvershootAt(k)
  PROVE  OvershootAt(k)'
<1>0. /\ pc \in [Execs -> Labels] /\ job \in [Execs -> Jobs \cup {None}]
      /\ \A x \in Execs : pc[x] # "idle" => job[x] \in Jobs
      /\ \A x \in Execs : x \notin Jobs
      /\ enabled \subseteq Jobs
      /\ copy \in [Jobs \cup Execs -> Copies \cup {None}]
      /\ history \in [Jobs -> Seq(Execs \cup {"COMPLETED", "FAILED", "CANCELLED"})]
  BY ExecsAssumption DEF TypeInv, TypeOK, ExecInv
<1>a. /\ runCount[k] \in Nat /\ Len(history[k]) \in Nat /\ MaxRunsOf[k] \in Nat
      /\ \A x \in Execs : job[x] = k /\ Busy(x) => copy[x].count \in Nat
      /\ copy[k] # None => copy[k].count \in Nat
  BY CountsAssumption DEF TypeInv, TypeOK, ExecInv, Busy, Copies
<1>1. ASSUME TickRead PROVE OvershootAt(k)'
  <2>1. CASE k \in enabled /\ due[k] = "due"
    <3>1. copy'[k] # None /\ copy'[k].count = runCount[k]
      BY <1>1, <2>1, Reading DEF TickRead, TypeInv
    <3>2. \A x \in Execs : copy'[x] = copy[x]
      BY <1>1, <1>0 DEF TickRead
    <3>3. runCount[k] < MaxRunsOf[k]
      BY <2>1 DEF TypeInv, CountInv
    <3>4. UNCHANGED <<pc, job, history, runCount>>
      BY <1>1 DEF TickRead
    <3>5. /\ LagsByOne(copy[k], k)'
          /\ \/ Len(history'[k]) <= runCount'[k] + copy'[k].count
             \/ \E x \in Execs : job'[x] = k /\ Busy(x)'
      BY <1>a, <3>1, <3>3, <3>4 DEF OvershootAt, LagsByOne, Busy, InRun
    <3>6. QED
      BY <3>1, <3>2, <3>4, <3>5 DEF OvershootAt, LagsByOne, Busy, InRun
  <2>2. CASE ~(k \in enabled /\ due[k] = "due")
    BY <1>1, <1>0, <2>2, Unmoved DEF TickRead, Busy, InRun
  <2>3. QED
    BY <2>1, <2>2
<1>2. ASSUME TickLoop PROVE OvershootAt(k)'
  <2>1. PICK started \in SUBSET Startable : \E by \in [started -> Idle] : Begin(started, by)
    BY <1>2 DEF TickLoop
  <2>2. PICK used \in SUBSET Idle : Handed(used, started)
    BY <2>1, Handing DEF TypeInv
  <2>3. /\ used \subseteq Execs /\ \A x \in used : pc[x] = "idle"
        /\ \A j \in started : copy[j] # None /\ j \notin running
    BY DEF Idle, Startable
  <2>4. UNCHANGED <<history, runCount>> /\ copy'[k] = None
    BY <1>2, <2>2 DEF TickLoop, Handed
  <2>5. ASSUME NEW x \in Execs, job'[x] = k, Busy(x)', x \in used
        PROVE  /\ LagsByOne(copy[x], k)'
               /\ Len(history'[k]) <= runCount'[k] + copy'[x].count + (IF InRun(x)' THEN 1 ELSE 0)
    <3>1. k \in started /\ copy'[x] = copy[k] /\ pc'[x] = "check"
      BY <2>2, <2>5 DEF Handed
    <3>2. \A y \in Execs : ~(job[y] = k /\ Busy(y))
      BY <2>3, <3>1 DEF TimedInv, TimerInv, Busy
    <3>3. LagsByOne(copy[k], k) /\ Len(history[k]) <= runCount[k] + copy[k].count
      BY <2>3, <3>1, <3>2 DEF OvershootAt
    <3>4. QED
      BY <1>a, <2>3, <2>4, <3>1, <3>3 DEF LagsByOne, InRun
  <2>6. ASSUME NEW x \in Execs, x \notin used
        PROVE  pc'[x] = pc[x] /\ job'[x] = job[x] /\ copy'[x] = copy[x]
    BY <2>2, <2>6 DEF Handed
  <2>7. \/ Len(history'[k]) <= 2 * runCount'[k]
        \/ \E x \in Execs : job'[x] = k /\ InRun(x)'
    BY <2>3, <2>4, <2>6 DEF OvershootAt, InRun
  <2>8. ASSUME NEW x \in Execs, job'[x] = k, Busy(x)', x \notin used
        PROVE  /\ LagsByOne(copy[x], k)'
               /\ Len(history'[k]) <= runCount'[k] + copy'[x].count + (IF InRun(x)' THEN 1 ELSE 0)
    BY <2>4, <2>6, <2>8 DEF OvershootAt, LagsByOne, Busy, InRun
  <2>9. runCount'[k] <= MaxRunsOf[k]
    BY <2>4 DEF OvershootAt
  <2>10. QED
    BY <2>4, <2>5, <2>7, <2>8, <2>9 DEF OvershootAt
<1>3. ASSUME TickFails PROVE OvershootAt(k)'
  BY <1>3, <1>0, Unmoved DEF TickFails, Busy, InRun
<1>4. ASSUME Crash PROVE OvershootAt(k)'
  BY <1>4, CountsAssumption DEF Crash, Undisturbed, TypeInv, TypeOK
<1>5. ASSUME NEW j \in Jobs, NextRunAtPasses(j) PROVE OvershootAt(k)'
  BY <1>5, <1>0, Unmoved DEF NextRunAtPasses, Busy, InRun
<1>6. ASSUME NEW j \in Jobs, Trigger(j) PROVE OvershootAt(k)'
  BY <1>6 DEF Trigger, Undisturbed
<1>7. ASSUME NEW j \in Jobs, Delete(j) PROVE OvershootAt(k)'
  BY <1>7, <1>0, Unmoved DEF Delete, Busy, InRun
<1>8. ASSUME NEW x \in Execs, Check(x) PROVE OvershootAt(k)'
  BY <1>8, <1>0, Unmoved DEF Check, At, Busy, InRun
<1>9. ASSUME NEW x \in Execs, Skip(x) PROVE OvershootAt(k)'
  <2>1. CASE job[x] = k
    <3>1. Busy(x) /\ ~InRun(x)
      BY <1>9 DEF Skip, At, Busy, InRun
    <3>2. UNCHANGED <<job, history, runCount, copy>>
      BY <1>9 DEF Skip
    <3>3. ~Busy(x)' /\ \A y \in Execs \ {x} : pc'[y] = pc[y]
      BY <1>9, <1>0 DEF Skip, At, Busy
    <3>4. \A y \in Execs : ~(job'[y] = k /\ Busy(y)')
      BY <2>1, <3>1, <3>2, <3>3, Alone DEF Busy
    <3>5. /\ LagsByOne(copy[x], k)
          /\ copy[k] # None => copy[k].count = runCount[k] /\ LagsByOne(copy[k], k)
          /\ Len(history[k]) <= runCount[k] + copy[x].count
      BY <1>a, <2>1, <3>1 DEF OvershootAt
    <3>6. Len(history[k]) <= 2 * runCount[k]
      BY <1>a, <2>1, <3>1, <3>5 DEF LagsByOne
    <3>7. QED
      BY <1>a, <3>2, <3>4, <3>5, <3>6 DEF OvershootAt, LagsByOne
  <2>2. CASE job[x] # k
    BY <1>9, <1>0, <2>2, Unmoved DEF Skip, At, Busy, InRun
  <2>3. QED
    BY <2>1, <2>2
<1>10. ASSUME NEW x \in Execs, StartRun(x) PROVE OvershootAt(k)'
  <2>1. CASE job[x] = k
    <3>1. Busy(x) /\ ~InRun(x) /\ UNCHANGED <<job, runCount, copy>>
      BY <1>10 DEF StartRun, At, Busy, InRun
    <3>2. InRun(x)' /\ Busy(x)' /\ \A y \in Execs \ {x} : pc'[y] = pc[y]
      BY <1>10, <1>0 DEF StartRun, At, Busy, InRun
    <3>3. \A y \in Execs : job'[y] = k /\ Busy(y)' => y = x
      BY <2>1, <3>1, <3>2, Alone DEF Busy
    <3>4. Len(history'[k]) \in Nat /\ Len(history'[k]) <= Len(history[k]) + 1
      BY <1>10, <1>0, <1>a, <2>1, LatestLength DEF StartRun
    <3>5. LagsByOne(copy[x], k) /\ Len(history[k]) <= runCount[k] + copy[x].count
      BY <1>a, <2>1, <3>1 DEF OvershootAt
    <3>6. LagsByOne(copy[x], k)' /\ copy'[k] = copy[k] /\ runCount'[k] = runCount[k]
      BY <3>1, <3>5 DEF LagsByOne
    <3>7. Len(history'[k]) <= runCount'[k] + copy'[x].count + 1
      BY <1>a, <2>1, <3>1, <3>4, <3>5
    <3>8. /\ copy[k] # None => copy[k].count = runCount[k] /\ LagsByOne(copy[k], k)
          /\ runCount[k] <= MaxRunsOf[k]
      BY <2>1, <3>1 DEF OvershootAt
    <3>9. \E y \in Execs : job'[y] = k /\ Busy(y)' /\ InRun(y)'
      BY <2>1, <3>1, <3>2
    <3>10. copy'[k] # None => LagsByOne(copy[k], k)'
      BY <3>1, <3>8 DEF LagsByOne
    <3>11. ASSUME NEW y \in Execs, job'[y] = k, Busy(y)'
          PROVE  /\ LagsByOne(copy[y], k)'
                 /\ copy'[k] # None => copy'[k].count = runCount'[k]
                 /\ Len(history'[k]) <= runCount'[k] + copy'[y].count + (IF InRun(y)' THEN 1 ELSE 0)
      BY <3>2, <3>3, <3>6, <3>7, <3>8, <3>11
    <3>12. QED
      BY <3>6, <3>8, <3>9, <3>10, <3>11 DEF OvershootAt
  <2>2. CASE job[x] # k
    BY <1>10, <1>0, <2>2, Unmoved DEF StartRun, At, Busy, InRun
  <2>3. QED
    BY <2>1, <2>2
<1>11. ASSUME NEW x \in Execs, EndRun(x) PROVE OvershootAt(k)'
  <2>1. Len(history'[k]) = Len(history[k])
    <3>1. PICK outcome \in Outcomes[job[x]] :
            history' = [history EXCEPT ![job[x]] = Close(@, x, outcome)]
      BY <1>11 DEF EndRun
    <3>2. \A runs \in Seq(Execs \cup {"COMPLETED", "FAILED", "CANCELLED"}) :
            Len(Close(runs, x, outcome)) = Len(runs)
      BY DEF Close
    <3>3. QED
      BY <1>0, <3>1, <3>2
  <2>2. UNCHANGED <<job, runCount, copy>>
    BY <1>11 DEF EndRun
  <2>3. pc[x] = "running" /\ pc'[x] = "record" /\ \A y \in Execs \ {x} : pc'[y] = pc[y]
    BY <1>11, <1>0 DEF EndRun, At, Catch
  <2>4. QED
    BY <2>1, <2>2, <2>3, Unmoved DEF Busy, InRun
<1>12. ASSUME NEW x \in Execs, RecordRun(x) PROVE OvershootAt(k)'
  <2> DEFINE c == copy[x].count
  <2>0. /\ copy'[k] # None => copy[k] # None /\ copy'[k].count = copy[k].count
        /\ \A y \in Execs : copy[y] # None => copy'[y].count = copy[y].count
        /\ UNCHANGED <<job, history>>
    BY <1>12, <1>0 DEF RecordRun, Stamp, Copies, TypeInv
  <2>1. CASE job[x] = k
    <3>1. Busy(x) /\ InRun(x) /\ job[x] \in Jobs
      BY <1>12, <1>0 DEF RecordRun, At, Busy, InRun
    <3>2. ~Busy(x)' /\ \A y \in Execs \ {x} : pc'[y] = pc[y]
      BY <1>12, <1>0 DEF RecordRun, At, Busy
    <3>3. \A y \in Execs : ~(job'[y] = k /\ Busy(y)')
      BY <2>0, <2>1, <3>1, <3>2, Alone DEF Busy
    <3>4. runCount'[k] = c + 1
      BY <1>12, <2>1 DEF RecordRun, TypeInv, TypeOK
    <3>5. /\ LagsByOne(copy[x], k)
          /\ copy[k] # None => copy[k].count = runCount[k] /\ LagsByOne(copy[k], k)
          /\ Len(history[k]) <= runCount[k] + c + 1
      BY <1>a, <2>1, <3>1 DEF OvershootAt
    <3>6. c \in Nat /\ c <= runCount[k] /\ runCount[k] <= c + 1 /\ c < MaxRunsOf[k]
      BY <1>a, <2>1, <3>1, <3>5 DEF LagsByOne
    <3> HIDE DEF c
    <3>7. Len(history[k]) <= 2 * (c + 1) /\ c + 1 <= MaxRunsOf[k]
      <4>1. /\ Len(history[k]) \in Nat /\ runCount[k] \in Nat /\ MaxRunsOf[k] \in Nat
            /\ Len(history[k]) <= runCount[k] + c + 1
        BY <1>a, <3>5
      <4>2. QED
        BY <4>1, <3>6
    <3>8. copy'[k] # None => /\ LagsByOne(copy[k], k)'
                            /\ Len(history'[k]) <= runCount'[k] + copy'[k].count
      <4> SUFFICES ASSUME copy'[k] # None
                   PROVE  /\ LagsByOne(copy[k], k)'
                          /\ Len(history'[k]) <= runCount'[k] + copy'[k].count
        OBVIOUS
      <4>1. copy'[k].count = runCount[k] /\ runCount[k] < MaxRunsOf[k]
        BY <2>0, <3>5 DEF LagsByOne
      <4>2. runCount[k] \in Nat /\ Len(history[k]) <= runCount[k] + c + 1
        BY <1>a, <3>5
      <4>3. LagsByOne(copy[k], k)'
        BY <3>4, <3>6, <4>1, <4>2 DEF LagsByOne
      <4>4. Len(history'[k]) <= runCount'[k] + copy'[k].count
        BY <1>a, <2>0, <3>4, <3>6, <4>1, <4>2
      <4>5. QED
        BY <4>3, <4>4
    <3>9. QED
      BY <2>0, <3>3, <3>4, <3>7, <3>8 DEF OvershootAt
  <2>2. CASE job[x] # k
    <3>1. runCount'[k] = runCount[k]
      BY <1>12, <1>0, <2>2 DEF RecordRun, At, TypeInv, TypeOK
    <3>2. \A y \in Execs : job[y] = k /\ Busy(y) => copy[y] # None
      BY DEF TypeInv, ExecInv, Busy
    <3>3. \A y \in Execs \ {x} : pc'[y] = pc[y]
      BY <1>12, <1>0 DEF RecordRun, At
    <3>4. copy'[k] # None => copy[k] # None /\ copy'[k].count = copy[k].count
      BY <2>0
    <3>5. ASSUME NEW y \in Execs, job[y] = k
          PROVE  /\ job'[y] = k /\ pc'[y] = pc[y]
                 /\ Busy(y) => copy'[y].count = copy[y].count
      BY <2>0, <2>2, <3>2, <3>3, <3>5
    <3>6. /\ \A y \in Execs : job'[y] = k /\ Busy(y)' =>
               job[y] = k /\ Busy(y) /\ copy'[y].count = copy[y].count
          /\ \A y \in Execs : job[y] = k /\ Busy(y) => job'[y] = k /\ Busy(y)'
          /\ \A y \in Execs : job[y] = k /\ InRun(y) => job'[y] = k /\ InRun(y)'
      BY <2>0, <3>5 DEF Busy, InRun
    <3>7. QED
      BY <2>0, <3>1, <3>4, <3>6, Unmoved
  <2>3. QED
    BY <2>1, <2>2
<1>13. ASSUME NEW x \in Execs, CountFailures(x) PROVE OvershootAt(k)'
  BY <1>13, <1>0, Unmoved DEF CountFailures, At, Busy, InRun
<1>14. ASSUME NEW x \in Execs, Disable(x) PROVE OvershootAt(k)'
  BY <1>14, <1>0, Unmoved DEF Disable, At, Busy, InRun
<1>15. ASSUME NEW x \in Execs, Settle(x) PROVE OvershootAt(k)'
  <2>1. pc[x] = "settle" /\ pc'[x] = "idle" /\ \A y \in Execs \ {x} : pc'[y] = pc[y]
    BY <1>15, <1>0 DEF Settle, At
  <2>2. /\ UNCHANGED <<history, runCount>> /\ copy'[k] = copy[k]
        /\ \A y \in Execs \ {x} : job'[y] = job[y] /\ copy'[y] = copy[y]
    BY <1>15, <1>0 DEF Settle
  <2>3. QED
    BY <2>1, <2>2, Unmoved DEF Busy, InRun
<1>16. ASSUME NEW x \in Execs, RecordFails(x) PROVE OvershootAt(k)'
  BY <1>16 DEF RecordFails, Undisturbed
<1>17. ASSUME NEW x \in Execs, StepFails(x) PROVE OvershootAt(k)'
  BY <1>17, <1>0, Unmoved DEF StepFails, Catch, Busy, InRun
<1>18. CASE UNCHANGED vars
  BY <1>18, <1>0, Unmoved DEF vars, Busy, InRun
<1>19. QED
  BY <1>1, <1>2, <1>3, <1>4, <1>5, <1>6, <1>7, <1>8, <1>9, <1>10, <1>11,
     <1>12, <1>13, <1>14, <1>15, <1>16, <1>17, <1>18
     DEF Next, ExecStep

\* The timer alone starts an agent at most twice as often as maxRuns says.
THEOREM OvershootStaysBounded == Spec => []OvershootIsBounded
<1> DEFINE AllAt == \A j \in Jobs : MaxRunsOf[j] # 0 => OvershootAt(j)
           Inv   == TypeInv /\ TimerInv /\ (Undisturbed => TimedInv /\ AllAt)
<1>1. Init => Inv
  <2>1. Init => TypeInv /\ TimerInv
    BY TypeInit, FS_EmptySet, CountsAssumption DEF Init, TimerInv
  <2>2. Init => TimedInv /\ AllAt
    BY CountsAssumption DEF Init, TimedInv, OvershootAt, Busy
  <2>3. QED
    BY <2>1, <2>2
<1>2. Inv /\ [Next]_vars => Inv'
  <2>1. TypeInv /\ TimerInv /\ [Next]_vars => (TypeInv /\ TimerInv)'
    BY TypeInvStep, TimerStep
  <2>2. Undisturbed /\ TypeInv /\ TimedInv /\ [Next]_vars => TimedInv'
    BY TimedStep
  <2>3. Undisturbed /\ TypeInv /\ TimerInv /\ TimedInv /\ AllAt /\ [Next]_vars => AllAt'
    BY OvershootStep
  <2>4. QED
    BY <2>1, <2>2, <2>3 DEF Undisturbed
<1>3. Inv => OvershootIsBounded
  <2> SUFFICES ASSUME Inv, Undisturbed, NEW j \in Jobs, MaxRunsOf[j] # 0
               PROVE  Len(history[j]) <= 2 * MaxRunsOf[j]
    BY DEF OvershootIsBounded, Undisturbed
  <2>1. /\ runCount[j] \in Nat /\ Len(history[j]) \in Nat /\ MaxRunsOf[j] \in Nat
        /\ \A x \in Execs : job[x] = j /\ Busy(x) => copy[x].count \in Nat
    BY CountsAssumption DEF TypeInv, TypeOK, ExecInv, Busy, Copies
  <2>2. OvershootAt(j)
    OBVIOUS
  <2>3. CASE Len(history[j]) <= 2 * runCount[j]
    BY <2>1, <2>2, <2>3 DEF OvershootAt
  <2>4. CASE \E x \in Execs : job[x] = j /\ InRun(x)
    <3>1. PICK x \in Execs : job[x] = j /\ InRun(x)
      BY <2>4
    <3>2. /\ LagsByOne(copy[x], j)
          /\ Len(history[j]) <= runCount[j] + copy[x].count + 1
          /\ copy[x].count \in Nat
      BY <2>1, <2>2, <3>1 DEF OvershootAt, InRun, Busy
    <3>3. QED
      BY <2>1, <2>2, <3>2 DEF OvershootAt, LagsByOne
  <2>5. QED
    BY <2>2, <2>3, <2>4 DEF OvershootAt
<1> HIDE DEF Inv
<1>4. QED
  BY <1>1, <1>2, <1>3, PTL DEF Spec

=============================================================================
