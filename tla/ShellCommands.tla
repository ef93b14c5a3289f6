---------------------------- MODULE ShellCommands ----------------------------
(***************************************************************************)
(* One shell command and what is said of it: the bash tool of the bot      *)
(* (packages/tools/src/tools/bash.ts) and of the Modal endpoint            *)
(* (infra/modal/app.py), the two timers that may end it, and its readers:  *)
(* the model, a script job (CronScheduler.runScript) and the condition of  *)
(* a job (cron/condition.ts).                                              *)
(*                                                                         *)
(* Output is counted in units of which MaxOutput are kept.                 *)
(***************************************************************************)
EXTENDS Integers

CONSTANTS
  ShellHosts,   \* of "local" and "modal"
  Readers,      \* of "model", "script" and "condition"
  Chunks,       \* sizes of what one read of the pipe may bring
  MaxOutput,    \* MAX_OUTPUT_BYTES
  PrintBound    \* bound on the output explored

ASSUME ShellAssumption ==
  /\ ShellHosts \subseteq {"local", "modal"}
  /\ Readers \subseteq {"model", "script", "condition"}
  /\ Chunks \subseteq Nat \ {0} /\ MaxOutput \in Nat \ {0} /\ PrintBound \in Nat

VARIABLES
  shellHost, reader,
  shell,    \* "none", "running", or how it ended: "code", "SIGTERM" or "SIGKILL"
  code,     \* its exit code, when it ended by itself
  helper,   \* a process it started that holds its pipes: "none", "running", "gone"
  conclusion,  \* what a condition printed last: "none", "yes", "no" or "threw"
  printed,  \* output of the command
  kept,     \* what of it the executor has kept
  marked,   \* the executor has noted that it kept less
  brimful,  \* a chunk ended exactly where keeping ends
  timer,    \* of the command: "set", "over" or "cleared"
  verdict   \* what the reader is given

shellVars == <<shellHost, reader, shell, code, helper, conclusion, printed, kept, marked,
               brimful, timer, verdict>>
output  == <<conclusion, printed, kept, marked, brimful>>
request == <<shellHost, reader>>
-----------------------------------------------------------------------------
NoVerdict == [kind |-> "none"]
Erred(why) == [kind |-> "error", why |-> why]
Printed(exitCode, size, note) ==
  [kind |-> "output", code |-> exitCode, size |-> size, marked |-> note]

ShellInit ==
  /\ shellHost \in ShellHosts /\ reader \in Readers
  /\ shell = "none" /\ code = 0 /\ helper = "none"
  /\ conclusion = "none" /\ printed = 0 /\ kept = 0 /\ marked = FALSE /\ brimful = FALSE
  /\ timer = "cleared"
  /\ verdict = NoVerdict

Waiting == verdict = NoVerdict

Spawn ==
  /\ shell = "none" /\ Waiting
  /\ shell' = "running" /\ timer' = "set"
  /\ UNCHANGED <<request, code, helper, output, verdict>>

\* The process cannot be started, or the endpoint not be reached.
SpawnFails ==
  /\ shell = "none" /\ Waiting
  /\ verdict' = Erred("start")
  /\ UNCHANGED <<request, shell, code, helper, output, timer>>
-----------------------------------------------------------------------------
(* The command.                                                            *)

HelperStarts ==
  /\ shell = "running" /\ helper = "none"
  /\ helper' = "running"
  /\ UNCHANGED <<request, shell, code, output, timer, verdict>>

HelperEnds ==
  /\ helper = "running"
  /\ helper' = "gone"
  /\ UNCHANGED <<request, shell, code, output, timer, verdict>>

\* The listener of the pipe keeps a chunk unless it has enough, and notes a cut
\* only of the chunk in which it cuts.  Modal cuts at the end and notes nothing.
PipeBrings(n) ==
  /\ Waiting /\ "running" \in {shell, helper}
  /\ printed + n <= PrintBound
  /\ printed' = printed + n
  /\ IF kept < MaxOutput
       THEN /\ kept' = IF kept + n > MaxOutput THEN MaxOutput ELSE kept + n
            /\ marked' = (marked \/ (shellHost = "local" /\ kept + n > MaxOutput))
            /\ brimful' = (kept + n = MaxOutput)
       ELSE UNCHANGED <<kept, marked, brimful>>
  /\ UNCHANGED <<request, shell, code, helper, conclusion, timer, verdict>>

\* What a condition returns is printed by the code around it, once.
PrintAnswer ==
  /\ reader = "condition" /\ shell = "running" /\ conclusion = "none" /\ Waiting
  /\ \E a \in {"yes", "no", "threw"} : conclusion' = a
  /\ UNCHANGED <<request, shell, code, helper, printed, kept, marked, brimful, timer,
                 verdict>>

\* The exit of the shell clears the command's timer.
ShellExits ==
  /\ shell = "running"
  /\ shell' = "code" /\ code' \in {0, 1}
  /\ timer' = IF timer = "set" /\ shellHost = "local" THEN "cleared" ELSE timer
  /\ UNCHANGED <<request, helper, output, verdict>>

\* Somebody else's signal, of the kernel or of the command itself.
ShellIsKilled ==
  /\ shell = "running"
  /\ shell' \in {"SIGTERM", "SIGKILL"}
  /\ timer' = IF timer = "set" /\ shellHost = "local" THEN "cleared" ELSE timer
  /\ UNCHANGED <<request, code, helper, output, verdict>>
-----------------------------------------------------------------------------
(* Timers.                                                                 *)

\* spawn's timeout sends a signal to the shell alone, which may ignore it.
LocalTimeIsUp ==
  /\ shellHost = "local" /\ timer = "set" /\ shell = "running"
  /\ timer' = "over"
  /\ shell' \in {"SIGTERM", "running"}
  /\ UNCHANGED <<request, code, helper, output, verdict>>

\* subprocess.run waits for the pipes too; it kills the shell and raises.
ModalTimeIsUp ==
  /\ shellHost = "modal" /\ timer = "set"
  /\ "running" \in {shell, helper} /\ Waiting
  /\ timer' = "over"
  /\ shell' = IF shell = "running" THEN "SIGKILL" ELSE shell
  /\ verdict' = Erred("timeout")
  /\ UNCHANGED <<request, code, helper, output>>

\* The registry's timer, which is not the shorter one, or the fetch of the Modal
\* backend is over or fails: the command goes on.
CallerGivesUp ==
  /\ shell # "none" /\ Waiting
  /\ shellHost = "local" => timer # "set"
  /\ verdict' = Erred("timeout")
  /\ UNCHANGED <<request, shell, code, helper, output, timer>>
-----------------------------------------------------------------------------
(* The answer.                                                             *)

\* Mutant: the code of a shell that was killed is taken for zero.
ExitCodeOrZero == IF shell = "code" THEN code ELSE 0

\* exit_code; Python has the number of the signal.
ExitCode == IF shell = "code" THEN code ELSE -1

\* "close", when the shell has ended and its pipes are closed; subprocess.run returns.
Closes ==
  /\ shell \notin {"none", "running"} /\ helper # "running" /\ Waiting
  /\ verdict' = IF shell = "SIGTERM" /\ shellHost = "local"
                  THEN Erred("timeout")
                  ELSE Printed(ExitCode, kept, marked)
  /\ UNCHANGED <<request, shell, code, helper, output, timer>>

\* runScript: the status of a job's execution.
ScriptStatus ==
  LET exitCode == IF verdict.kind = "error" THEN 1 ELSE verdict.code IN
  IF exitCode = 0 THEN "COMPLETED" ELSE "FAILED"

\* evaluateCondition: all of what was printed is the JSON of the result.
ConditionAllows ==
  verdict.kind = "output" /\ verdict.size = 0 /\ ~verdict.marked /\ conclusion = "yes"

\* The next command.
NextCommand ==
  /\ ~Waiting
  /\ shell' = "none" /\ code' = 0 /\ helper' = "none"
  /\ conclusion' = "none" /\ printed' = 0 /\ kept' = 0 /\ marked' = FALSE /\ brimful' = FALSE
  /\ timer' = "cleared" /\ verdict' = NoVerdict
  /\ UNCHANGED request

ShellNext ==
  \/ Spawn \/ SpawnFails
  \/ HelperStarts \/ HelperEnds \/ (\E n \in Chunks : PipeBrings(n)) \/ PrintAnswer
  \/ ShellExits \/ ShellIsKilled
  \/ LocalTimeIsUp \/ ModalTimeIsUp \/ CallerGivesUp
  \/ Closes \/ NextCommand

ShellSpec == ShellInit /\ [][ShellNext]_shellVars
-----------------------------------------------------------------------------
(* Properties.                                                             *)

ShellTypeOK ==
  /\ shellHost \in {"local", "modal"} /\ reader \in Readers
  /\ shell \in {"none", "running", "code", "SIGTERM", "SIGKILL"}
  /\ helper \in {"none", "running", "gone"}
  /\ 0 <= kept /\ kept <= printed /\ kept <= MaxOutput
  /\ timer \in {"set", "over", "cleared"}
  /\ verdict.kind \in {"none", "error", "output"}

\* A command is given as ended only when nothing of it can print any more, and as
\* successful only when its shell ended by itself with zero.  (bash.ts:72-88)
OutputMeansEnded ==
  verdict.kind = "output" =>
    /\ "running" \notin {shell, helper}
    /\ verdict.code = 0 => shell = "code" /\ code = 0

\* Output is missing without a note only where Modal cut it, or when what was kept
\* ended exactly with a chunk (bash.ts:52).
CutIsNoted ==
  verdict.kind = "output" /\ verdict.size < printed
    => verdict.marked \/ brimful \/ shellHost = "modal"

\* A script job is COMPLETED, and a condition lets its job run, only by what the
\* command did: it ended by itself with zero, or printed a whole yes and nothing else.
ReadersAreRight ==
  ~Waiting =>
    /\ reader = "script" /\ ScriptStatus = "COMPLETED" => shell = "code" /\ code = 0
    /\ reader = "condition" /\ ConditionAllows =>
         conclusion = "yes" /\ printed = 0 /\ "running" \notin {shell, helper}

CommandsAreReported ==
  OutputMeansEnded /\ CutIsNoted /\ ReadersAreRight
=============================================================================
