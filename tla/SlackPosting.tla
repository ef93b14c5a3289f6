----------------------------- MODULE SlackPosting -----------------------------
(***************************************************************************)
(* What the bot says in Slack and what its log says it said: the message   *)
(* tools of packages/tools/src/tools/slack-comms.ts and appendSlackLog of  *)
(* packages/tools/src/slack-log.ts.                                        *)
(*                                                                         *)
(* A call is known by the text it would leave in Slack.  Its three appends *)
(* to the log follow the answer of the tool and are not awaited, so they   *)
(* mix with those of other calls.                                          *)
(***************************************************************************)
EXTENDS Naturals, Sequences, FiniteSets

CONSTANTS
  PostCalls,   \* calls of the message tools, by this run or a parallel one
  PostEvents,  \* "refused", "answerLost", "appendFails", "restart"
  NoCall       \* the text of a message that was deleted

ASSUME PostAssumption ==
  /\ IsFiniteSet(PostCalls) /\ NoCall \notin PostCalls
  /\ PostEvents \subseteq {"refused", "answerLost", "appendFails", "restart"}

VARIABLES
  posts,     \* messages of the bot, at their ts: text and thread
  request,   \* the tool, the message it is about and the thread of each call
  callStage, \* "idle", "sent" to Slack, "acted", "ended"
  appends,   \* the files each call has still to append to
  logOf,     \* the lines of each file: <<ts, text>>
  sentLog,   \* those of the log of sent messages, in its order
  said,      \* every <<ts, text>> there has been in Slack
  blurred    \* messages whose log may differ from Slack: see LogFollowsSlack

postVars == <<posts, request, callStage, appends, logOf, sentLog, said, blurred>>
logs == <<logOf, sentLog>>

LogFiles == {"month", "thread", "sent"}
NoRequest == [tool |-> "none", ts |-> 0, thread |-> FALSE]

PostInit ==
  /\ posts     = <<>>
  /\ request   = [c \in PostCalls |-> NoRequest]
  /\ callStage = [c \in PostCalls |-> "idle"]
  /\ appends   = [c \in PostCalls |-> <<>>]
  /\ logOf     = [f \in LogFiles |-> {}]
  /\ sentLog   = <<>>
  /\ said      = {}
  /\ blurred   = {}
-----------------------------------------------------------------------------
(* The tools.                                                              *)

\* do_send = false: the message is reflected upon and not sent.
Suppress(c) ==
  /\ callStage[c] = "idle"
  /\ callStage' = [callStage EXCEPT ![c] = "ended"]
  /\ UNCHANGED <<posts, request, appends, logs, said, blurred>>

\* Calls about the same message that overlap, or whose appends still do.
Overlapping(ts) ==
  Cardinality({c \in PostCalls : /\ request[c].ts = ts
                                 /\ callStage[c] \in {"sent", "acted"} \/ appends[c] # <<>>}) > 1

NoteOverlaps == blurred' = blurred \cup {ts \in 1..Len(posts) : Overlapping(ts)'}

\* coworker_send_slack_message, with replace_message_ts or without, and the tools
\* that update and delete a message.
CallSlack(c, tool, ts, thread) ==
  /\ callStage[c] = "idle"
  /\ IF tool = "send" THEN ts = 0 ELSE ts \in 1..Len(posts) /\ thread = FALSE
  /\ request' = [request EXCEPT ![c] = [tool |-> tool, ts |-> ts, thread |-> thread]]
  /\ callStage' = [callStage EXCEPT ![c] = "sent"]
  /\ UNCHANGED <<posts, appends, logs, said>>
  /\ NoteOverlaps

TextAfter(c) == IF request[c].tool = "delete" THEN NoCall ELSE c

\* Slack carries the call out; a message that was deleted cannot be changed.
SlackActs(c) ==
  LET ts == IF request[c].tool = "send" THEN Len(posts) + 1 ELSE request[c].ts
  IN  /\ callStage[c] = "sent"
      /\ ts <= Len(posts) => posts[ts] # NoCall
      /\ callStage' = [callStage EXCEPT ![c] = "acted"]
      /\ request' = [request EXCEPT ![c].ts = ts]
      /\ posts' = IF ts > Len(posts) THEN Append(posts, c) ELSE [posts EXCEPT ![ts] = TextAfter(c)]
      /\ said' = said \cup {<<ts, TextAfter(c)>>}
      /\ blurred' = IF request[c].tool \in {"update", "delete"} THEN blurred \cup {ts} ELSE blurred
      /\ UNCHANGED <<appends, logs>>

\* ok = false, an HTTP error, or a message that is gone.
SlackRefuses(c) ==
  /\ callStage[c] = "sent"
  /\ \/ "refused" \in PostEvents
     \/ request[c].ts # 0 /\ posts[request[c].ts] = NoCall
  /\ callStage' = [callStage EXCEPT ![c] = "ended"]
  /\ UNCHANGED <<posts, request, appends, logs, said, blurred>>

\* Mutant: the log of the sent messages is written first.
SentFirst(c) == IF request[c].thread THEN <<"sent", "month", "thread">> ELSE <<"sent", "month">>

\* The thread log only for a message sent with thread_ts.
FilesOf(c) == IF request[c].thread THEN <<"month", "thread", "sent">> ELSE <<"month", "sent">>

\* logSentMessage: of a call of the send tool that succeeded.
LogAfter(c, ok) ==
  IF ok /\ request[c].tool \in {"send", "replace"} THEN FilesOf(c) ELSE <<>>

\* The answer arrives, or is lost on its way: the agent is told of an error.
SlackAnswers(c, ok) ==
  /\ callStage[c] = "acted"
  /\ ok \/ "answerLost" \in PostEvents
  /\ callStage' = [callStage EXCEPT ![c] = "ended"]
  /\ appends' = [appends EXCEPT ![c] = LogAfter(c, ok)]
  /\ blurred' = IF ok THEN blurred ELSE blurred \cup {request[c].ts}
  /\ UNCHANGED <<posts, request, logs, said>>
-----------------------------------------------------------------------------
(* appendSlackLog.                                                         *)

AppendLine(c) ==
  /\ appends[c] # <<>>
  /\ logOf' = [logOf EXCEPT ![Head(appends[c])] = @ \cup {<<request[c].ts, c>>}]
  /\ sentLog' = IF Head(appends[c]) = "sent" THEN Append(sentLog, <<request[c].ts, c>>) ELSE sentLog
  /\ appends' = [appends EXCEPT ![c] = Tail(@)]
  /\ UNCHANGED <<posts, request, callStage, said, blurred>>

\* Nothing is told of an append that fails; the ones after it are not made.
AppendFails(c) ==
  /\ "appendFails" \in PostEvents
  /\ appends[c] # <<>>
  /\ appends' = [appends EXCEPT ![c] = <<>>]
  /\ blurred' = blurred \cup {request[c].ts}
  /\ UNCHANGED <<posts, request, callStage, logs, said>>

RestartTools ==
  /\ "restart" \in PostEvents
  /\ \E c \in PostCalls : callStage[c] \in {"sent", "acted"} \/ appends[c] # <<>>
  /\ blurred' = blurred \cup {request[c].ts : c \in {k \in PostCalls : callStage[k] = "acted" \/ appends[k] # <<>>}}
  /\ callStage' = [c \in PostCalls |-> IF callStage[c] = "idle" THEN "idle" ELSE "ended"]
  /\ appends' = [c \in PostCalls |-> <<>>]
  /\ UNCHANGED <<posts, request, logs, said>>
-----------------------------------------------------------------------------
PostNext ==
  \/ \E c \in PostCalls :
       \/ Suppress(c) \/ SlackActs(c) \/ SlackRefuses(c)
       \/ \E ok \in BOOLEAN : SlackAnswers(c, ok)
       \/ \E tool \in {"send", "replace", "update", "delete"}, ts \in 0..Len(posts), thread \in BOOLEAN :
            CallSlack(c, tool, ts, thread)
       \/ AppendLine(c) \/ AppendFails(c)
  \/ RestartTools

PostSpec == PostInit /\ [][PostNext]_postVars
-----------------------------------------------------------------------------
(* Properties.                                                             *)

PostTypeOK ==
  /\ posts \in Seq(PostCalls \cup {NoCall})
  /\ callStage \in [PostCalls -> {"idle", "sent", "acted", "ended"}]
  /\ \A c \in PostCalls : request[c].ts \in 0..Cardinality(PostCalls)
  /\ \A c \in PostCalls : appends[c] \in Seq(LogFiles)

\* Every line of the log was said in Slack at that ts, whatever failed or was
\* cut off.  (slack-comms.ts, logSentMessage)
LoggedWasSaid == \A f \in LogFiles : logOf[f] \subseteq said

\* The log of all sent messages is the last written: what it holds, the log of the
\* channel holds, and the log of the thread, if the message was sent to one.
\* (slack-log.ts, appendSlackLog)
SentLogIsBacked ==
  \A line \in logOf["sent"] :
    line \in logOf["month"] /\ (request[line[2]].thread => line \in logOf["thread"])

\* Once its appends are made, the last line about a message is what Slack shows,
\* unless the message was changed by a tool that does not log, an answer or an
\* append was lost, or two calls about it overlapped.
LogFollowsSlack ==
  \A ts \in 1..Len(posts) \ blurred :
    (\A c \in PostCalls : request[c].ts = ts => callStage[c] = "ended" /\ appends[c] = <<>>)
      => \E n \in 1..Len(sentLog) :
           /\ sentLog[n] = <<ts, posts[ts]>>
           /\ \A later \in n + 1..Len(sentLog) : sentLog[later][1] # ts

\* The log of what the bot said is true, backed and up to date, but for what the
\* parts above except.
LogMatchesSlack == LoggedWasSaid /\ SentLogIsBacked /\ LogFollowsSlack
=============================================================================
