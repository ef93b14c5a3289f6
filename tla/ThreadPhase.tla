----------------------------- MODULE ThreadPhase -----------------------------
(***************************************************************************)
(* The phase state machine of a thread: ThreadPhase of packages/shared and *)
(* VALID_TRANSITIONS of apps/bot/src/thread/lifecycle.ts.  The code stores *)
(* the phases as the numbers 0..8; only their identity matters.            *)
(***************************************************************************)

ThreadPhases ==
  {"IDLE", "TRIGGER", "PROMPT_INJECTION", "THREAD_LOCK", "REASONING",
   "TOOL_LOOP", "DRAFT_GATE", "PROGRESS", "COMPLETION"}

\* Mutant: the row of TOOL_LOOP forgets DRAFT_GATE.
NoGateFromToolLoop ==
  [p \in ThreadPhases |->
     CASE p = "IDLE"             -> {"TRIGGER"}
       [] p = "TRIGGER"          -> {"PROMPT_INJECTION"}
       [] p = "PROMPT_INJECTION" -> {"THREAD_LOCK"}
       [] p = "THREAD_LOCK"      -> {"REASONING"}
       [] p = "REASONING"        -> {"TOOL_LOOP", "DRAFT_GATE", "COMPLETION"}
       [] p = "TOOL_LOOP"        -> {"REASONING", "COMPLETION"}
       [] p = "DRAFT_GATE"       -> {"TOOL_LOOP", "PROGRESS", "COMPLETION"}
       [] p = "PROGRESS"         -> {"COMPLETION"}
       [] p = "COMPLETION"       -> {"IDLE"}]

VALID_TRANSITIONS ==
  [p \in ThreadPhases |->
     CASE p = "IDLE"             -> {"TRIGGER"}
       [] p = "TRIGGER"          -> {"PROMPT_INJECTION"}
       [] p = "PROMPT_INJECTION" -> {"THREAD_LOCK"}
       [] p = "THREAD_LOCK"      -> {"REASONING"}
       [] p = "REASONING"        -> {"TOOL_LOOP", "DRAFT_GATE", "COMPLETION"}
       [] p = "TOOL_LOOP"        -> {"REASONING", "DRAFT_GATE", "COMPLETION"}
       [] p = "DRAFT_GATE"       -> {"TOOL_LOOP", "PROGRESS", "COMPLETION"}
       [] p = "PROGRESS"         -> {"COMPLETION"}
       [] p = "COMPLETION"       -> {"IDLE"}]

\* isValidTransition of lifecycle.ts.
IsValidTransition(from, to) == to \in VALID_TRANSITIONS[from]
=============================================================================
