---------------------------- MODULE Conversation ----------------------------
(***************************************************************************)
(* What an agent run says to the model: the window on the thread's         *)
(* messages and the summary of those before it (apps/bot/src/agent/        *)
(* context.ts, buildMessages of agent/runner.ts), the turns that the tool  *)
(* loop of the runner appends, their compression, and the form in which    *)
(* agent/providers/openai.ts and google.ts send them.                      *)
(*                                                                         *)
(* A stored message is its role and whether it has text.  A turn of the    *)
(* request has its role, the ids of its tool calls, its tool results, and  *)
(* whether text that users sent meanwhile was added after the results.     *)
(***************************************************************************)
EXTENDS Naturals, Sequences

CONSTANTS
  WindowSize,     \* CONTEXT_WINDOW_SIZE
  Resummarize,    \* RESUMMARIZE_THRESHOLD
  MaxToolRounds,  \* MAX_TOOL_ROUNDS
  MaxCalls,       \* bound on the tool calls of a response
  HistoryBound    \* bound on the messages of the thread

ASSUME ConversationAssumption ==
  {WindowSize, Resummarize, MaxToolRounds, MaxCalls, HistoryBound} \subseteq Nat \ {0}

VARIABLES
  past,        \* the thread's user and assistant messages
  summarized,  \* summarizedCount of the stored summary, 0 for none
  covered,     \* messages the summary of the present request stands for
  unsummed,    \* the summary of the present request failed
  talk,        \* the turns of the present request after the system prompt
  talkAt,      \* "idle", "chat", "retry": before the call, and after an overflow
  toolRound    \* rounds of the tool loop so far

conversationVars == <<past, summarized, covered, unsummed, talk, talkAt, toolRound>>
-----------------------------------------------------------------------------
Said(role, hasText) == [role |-> role, text |-> hasText]
Turn(role, hasText, calls, results, injected) ==
  [role |-> role, text |-> hasText, calls |-> calls, results |-> results, injected |-> injected]

ConversationInit ==
  /\ past = <<>> /\ talk = <<>>
  /\ summarized = 0 /\ covered = 0 /\ unsummed = FALSE
  /\ talkAt = "idle" /\ toolRound = 0

Older(messages) == IF Len(messages) > WindowSize THEN Len(messages) - WindowSize ELSE 0

\* allMessages.slice(-CONTEXT_WINDOW_SIZE), as turns.
Window(messages) ==
  [n \in 1..(Len(messages) - Older(messages)) |->
     Turn(messages[Older(messages) + n].role, messages[Older(messages) + n].text,
          <<>>, <<>>, FALSE)]

\* Mutant: the summary is renewed one message late.
NeedsNewSummaryLate(messages) ==
  Older(messages) > 0 /\ (summarized = 0 \/ Older(messages) - summarized > Resummarize)

NeedsNewSummary(messages) ==
  Older(messages) > 0 /\ (summarized = 0 \/ Older(messages) - summarized >= Resummarize)

\* The prompt is stored, and the request built from all messages.
BeginTalk(messages) ==
  /\ talkAt = "idle" /\ Len(past) + 2 <= HistoryBound
  /\ messages = Append(past, Said("user", TRUE))
  /\ past' = messages
  /\ talk' = Window(messages)
  /\ talkAt' = "chat" /\ toolRound' = 0

UseStoredSummary ==
  LET messages == Append(past, Said("user", TRUE)) IN
  /\ ~NeedsNewSummary(messages)
  /\ BeginTalk(messages)
  /\ covered' = IF Older(messages) = 0 THEN 0 ELSE summarized
  /\ unsummed' = FALSE
  /\ UNCHANGED summarized

\* generateThreadSummary of everything before the window; when it fails the
\* stored summary is not used either.
Summarize ==
  LET messages == Append(past, Said("user", TRUE)) IN
  /\ NeedsNewSummary(messages)
  /\ BeginTalk(messages)
  /\ \/ /\ summarized' = Older(messages)
        /\ covered' = Older(messages) /\ unsummed' = FALSE
     \/ covered' = 0 /\ unsummed' = TRUE /\ UNCHANGED summarized
-----------------------------------------------------------------------------
(* The tool loop: execute and processToolRound.                            *)

\* The response, or one of the runner's own, ends the run.
Conclude(hasText) ==
  /\ past' = Append(past, Said("assistant", hasText))
  /\ talk' = <<>> /\ talkAt' = "idle" /\ covered' = 0 /\ unsummed' = FALSE
  /\ UNCHANGED <<summarized, toolRound>>

Answer ==
  /\ talkAt \in {"chat", "retry"}
  /\ \E hasText \in BOOLEAN : Conclude(hasText)

\* One result per call and in its order, then what was injected meanwhile.
UseTools(calls, results, injected) ==
  /\ talkAt \in {"chat", "retry"} /\ toolRound < MaxToolRounds
  /\ \E hasText \in BOOLEAN :
       talk' = talk \o <<Turn("assistant", hasText, calls, <<>>, FALSE),
                         Turn("user", FALSE, <<>>, results, injected)>>
  /\ talkAt' = "chat"
  /\ toolRound' = toolRound + 1
  /\ UNCHANGED <<past, summarized, covered, unsummed>>

CallsOf(n) == [k \in 1..n |-> <<toolRound, k>>]
ResultsOf(n, sizes) == [k \in 1..n |-> [id |-> <<toolRound, k>>, long |-> sizes[k]]]

ToolRound ==
  \E n \in 1..MaxCalls, injected \in BOOLEAN :
    \E sizes \in [1..n -> BOOLEAN] : UseTools(CallsOf(n), ResultsOf(n, sizes), injected)

TooManyRounds ==
  /\ talkAt = "chat" /\ toolRound = MaxToolRounds
  /\ Conclude(TRUE)

\* Mutant: no turn is spared.
CompressedAll(turns) ==
  [n \in 1..Len(turns) |->
     [turns[n] EXCEPT !.results = [k \in 1..Len(@) |-> [@[k] EXCEPT !.long = FALSE]]]]

\* compressToolResults: long results before the last two turns are cut short.
Compressed(turns) ==
  [n \in 1..Len(turns) |->
     IF n + 2 > Len(turns) THEN turns[n]
     ELSE [turns[n] EXCEPT !.results = [k \in 1..Len(@) |-> [@[k] EXCEPT !.long = FALSE]]]]

Overflow ==
  /\ talkAt = "chat"
  /\ talk' = Compressed(talk)
  /\ talkAt' = "retry"
  /\ UNCHANGED <<past, summarized, covered, unsummed, toolRound>>

OverflowAgain == talkAt = "retry" /\ Conclude(TRUE)

\* The run throws: the prompt stays, unanswered.
TalkFails ==
  /\ talkAt \in {"chat", "retry"}
  /\ talk' = <<>> /\ talkAt' = "idle" /\ covered' = 0 /\ unsummed' = FALSE
  /\ UNCHANGED <<past, summarized, toolRound>>

ConversationNext ==
  \/ UseStoredSummary \/ Summarize
  \/ Answer \/ ToolRound \/ TooManyRounds
  \/ Overflow \/ OverflowAgain \/ TalkFails

ConversationSpec == ConversationInit /\ [][ConversationNext]_conversationVars
-----------------------------------------------------------------------------
(* What goes over the wire, one turn's messages after the other's.         *)

\* convertContentBlocks: the texts of a turn, then its results as messages of
\* their own; convertAssistantMessage: the calls of a turn in its message.
OpenAIMessages(turn) ==
  IF turn.results = <<>>
    THEN <<[role |-> turn.role, calls |-> turn.calls, answers |-> <<>>]>>
    ELSE (IF turn.injected THEN <<[role |-> "user", calls |-> <<>>, answers |-> <<>>]>> ELSE <<>>)
         \o [k \in 1..Len(turn.results) |->
               [role |-> "tool", calls |-> <<>>, answers |-> <<turn.results[k].id>>]]

\* Gemini knows a result by the name of its call: buildToolUseIdMap over all
\* assistant turns, later ones overriding.
KnownCalls(turns) == UNION {{turns[n].calls[k] : k \in 1..Len(turns[n].calls)} : n \in 1..Len(turns)}
GeminiNames(turns, n) ==
  [k \in 1..Len(turns[n].results) |->
     IF turns[n].results[k].id \in KnownCalls(turns) THEN turns[n].results[k].id ELSE <<"unknown">>]
-----------------------------------------------------------------------------
(* Properties.                                                             *)

ConversationTypeOK ==
  /\ past \in Seq([role : {"user", "assistant"}, text : BOOLEAN])
  /\ Len(past) <= HistoryBound
  /\ summarized \in 0..HistoryBound /\ covered \in 0..HistoryBound
  /\ talkAt \in {"idle", "chat", "retry"} /\ toolRound \in 0..MaxToolRounds
  /\ \A n \in 1..Len(talk) : talk[n].role \in {"user", "assistant"}

\* In every provider's form each turn with tool calls is followed at once by
\* the answers to exactly these calls, in their order; for an OpenAI form, where the
\* turn is one message, only while no user text was injected, which openai.ts:98-104
\* sends before them.
AnswersFollowCalls ==
  \A n \in 1..Len(talk) : talk[n].calls # <<>> =>
    /\ n < Len(talk) /\ GeminiNames(talk, n + 1) = talk[n].calls
    /\ Len(OpenAIMessages(talk[n])) = 1
    /\ ~talk[n + 1].injected =>
         LET wire == OpenAIMessages(talk[n + 1]) IN
         /\ Len(wire) >= Len(talk[n].calls)
         /\ \A k \in 1..Len(talk[n].calls) : wire[k].answers = <<talk[n].calls[k]>>

\* Messages that are neither in the window nor behind the summary are fewer than
\* RESUMMARIZE_THRESHOLD, unless making the summary failed (context.ts:49).
ForgottenIsBounded ==
  talkAt # "idle" =>
    /\ Older(past) - covered < Resummarize \/ unsummed
    /\ Len(Window(past)) <= WindowSize

\* The results of the latest calls reach the model in full: compression spares
\* the last round (runner.ts:519).
LatestResultsAreWhole ==
  [][talkAt = "chat" /\ talkAt' = "retry" =>
       \A n \in 1..Len(talk) : n = Len(talk) => talk'[n] = talk[n]]_conversationVars

\* What the model is sent is complete: calls with their answers, and all of the
\* thread but for a bounded number of messages.
RequestsAreComplete == AnswersFollowCalls /\ ForgottenIsBounded
=============================================================================
