---------------------------- MODULE SlackIngress ----------------------------
(***************************************************************************)
(* How a Slack message becomes an agent run and an answer: the Bolt        *)
(* handlers of apps/bot/src/slack/events.ts behind the deduplicator of     *)
(* slack/middleware.ts (self-hosted), onEvent of apps/bot/src/index.ts     *)
(* behind slack/events-api.ts (managed), first-contact onboarding          *)
(* (cron/onboarding.ts) and the proactive onboarding of an installation.   *)
(*                                                                         *)
(* Slack sends a mention twice, as an app_mention and as a message event,  *)
(* and may deliver each copy again.  Every delivery is handled by one      *)
(* element of Handlers; at[h] is the await its handler is suspended at.    *)
(* The run itself (module AgentRuns) is one await here, with the outcomes  *)
(* run() has for its caller.                                               *)
(***************************************************************************)
EXTENDS Naturals, FiniteSets

CONSTANTS
  Posts,         \* messages users write
  Handlers,      \* deliveries of their event copies, each handled once
  Deployments,   \* the deployment modes explored: "selfHosted", "managed"
  Conversations, \* the kinds of message explored, one function per scenario
  IngressEvents  \* what the environment may do, see IngressEnvironment

IngressEnvironment ==
  {"keyExpires",   \* ttlMs passes before an event is delivered again
   "callFails",    \* an awaited call to the database or to Slack rejects
   "sayFails",     \* a post of the handler to the conversation rejects
   "install",      \* an installation onboards the workspace proactively
   "overBudget"}   \* the usage limiter refuses

PostKinds == {"dm", "mention", "threadMention", "threadReply", "chatter"}

ASSUME IngressAssumption ==
  /\ Deployments \subseteq {"selfHosted", "managed"}
  /\ Conversations \subseteq [Posts -> PostKinds]
  /\ IngressEvents \subseteq IngressEnvironment
  /\ "installer" \notin Handlers

VARIABLES
  mode,       \* DEPLOYMENT_MODE
  kind,       \* the kind of each message
  subject,    \* the message and event type each handler was started with
  at,         \* the await each handler is suspended at
  knows,      \* settings.onboardingCompletedAt as the handler read it
  onboarding, \* handlers whose local onboarding is TRUE
  result,     \* how run() ended for the handler
  seenKeys,   \* keys in the deduplicator's map
  expired,    \* keys that were delivered again when their entry had passed its ttl
  rows,       \* rows that exist: "workspace", "member", "run", "intro"
  threadRows, \* conversations that have a Thread row
  onboarded,  \* settings.onboardingCompletedAt of the workspace row
  hourglass,  \* messages that carry the hourglass reaction
  told,       \* what the user was told about a message, by which handler
  muted,      \* handlers whose own apology was not delivered
  firstCopy,  \* the event type of the first copy of a message received
  installer   \* the await the proactive onboarding is suspended at

ingressVars == <<mode, kind, subject, at, knows, onboarding, result, seenKeys,
                 expired, rows, threadRows, onboarded, hourglass, told,
                 muted, firstCopy, installer>>

deployment == <<mode, kind>>
memory     == <<seenKeys, expired, firstCopy>>
handlerVars == <<subject, knows, onboarding, result>>
database   == <<rows, threadRows, onboarded>>
slack      == <<hourglass, told, muted>>
-----------------------------------------------------------------------------
(* Messages, conversations and keys.                                       *)

\* The event types Slack sends for a message.
Copies(p) == IF kind[p] \in {"mention", "threadMention"}
             THEN {"app_mention", "message"} ELSE {"message"}

InThread(p) == kind[p] \in {"threadMention", "threadReply"}

\* Replies share one thread; any other message starts its own.
ConversationOf(p) == IF InThread(p) THEN "shared" ELSE p

\* body.event_id tells the copies of a message apart, channel:ts does not.
KeyOf(p, type) == IF mode = "managed" THEN <<p>> ELSE <<p, type>>

\* The message filter: direct messages and replies in threads only.
Actionable(p, type) == type = "app_mention" \/ kind[p] = "dm" \/ InThread(p)

Post(h) == subject[h][1]
Type(h) == subject[h][2]

BeforeRun == {"participate", "findWorkspace", "createWorkspace", "findMember",
              "createMember", "prepare", "countRuns", "budget"}
InRun     == {"run", "starting", "running"}
AfterRun  == {"mark", "findIntro", "createIntro", "reply", "unreact", "catch", "reject"}
Active    == BeforeRun \cup InRun \cup AfterRun
Accepted(h) == at[h] \notin {"idle", "duplicate", "ignored"}

Proceed(h, from, to) == at[h] = from /\ at' = [at EXCEPT ![h] = to]

Tell(h, what) == told' = told \cup {<<Post(h), what, h>>}

\* safeReply and addReaction log their own failure and go on.
SafeReply(h, what) ==
  \/ Tell(h, what) /\ muted' = muted
  \/ "sayFails" \in IngressEvents /\ told' = told /\ muted' = muted \cup {h}
-----------------------------------------------------------------------------
\* A managed workspace was installed, so its row exists.
IngressInit ==
  /\ mode \in Deployments
  /\ kind \in Conversations
  /\ subject    = [h \in Handlers |-> <<"none", "none">>]
  /\ at         = [h \in Handlers |-> "idle"]
  /\ knows      = [h \in Handlers |-> FALSE]
  /\ onboarding = {}
  /\ result     = [h \in Handlers |-> "none"]
  /\ seenKeys   = {}
  /\ expired    = {}
  /\ rows \in {{}, {"workspace"}, {"workspace", "member", "run", "intro"}}
  /\ mode = "managed" => "workspace" \in rows
  /\ threadRows \in {{}, {"shared"}}
  /\ "run" \notin rows => threadRows = {}
  /\ onboarded  = ("intro" \in rows)
  /\ hourglass  = {}
  /\ told       = {}
  /\ muted      = {}
  /\ firstCopy  = [p \in Posts |-> "none"]
  /\ installer  = IF mode = "managed" /\ "install" \in IngressEvents
                  THEN "read" ELSE "ended"
-----------------------------------------------------------------------------
(* Delivery, deduplication and the synchronous filters.                    *)

\* Mutant: no delivery is recognised.
NeverSeen(key, late) == FALSE

\* The deduplicator compares the time of the key's entry with ttlMs.
Seen(key, late) == key \in seenKeys /\ ~late

\* ackd at once in both modes; what happens later is not reported to Slack.
Receive(h, p, type, late) ==
  LET key == KeyOf(p, type)
  IN  /\ at[h] = "idle"
      /\ type \in Copies(p)
      /\ late => "keyExpires" \in IngressEvents /\ key \in seenKeys
      /\ subject' = [subject EXCEPT ![h] = <<p, type>>]
      /\ firstCopy' = [firstCopy EXCEPT ![p] = IF @ = "none" THEN type ELSE @]
      /\ seenKeys' = seenKeys \cup {key}
      /\ expired' = IF late THEN expired \cup {key} ELSE expired
      /\ at' = [at EXCEPT ![h] =
                  IF Seen(key, late) THEN "duplicate"
                  ELSE IF ~Actionable(p, type) THEN "ignored"
                  ELSE IF type = "message" /\ InThread(p) THEN "participate"
                  ELSE "findWorkspace"]
      /\ UNCHANGED <<deployment, knows, onboarding, result, database, slack, installer>>

\* A Thread row of the conversation makes the bot a participant.
Participate(h) ==
  /\ Proceed(h, "participate",
             IF ConversationOf(Post(h)) \in threadRows THEN "findWorkspace" ELSE "ignored")
  /\ UNCHANGED <<deployment, handlerVars, memory, database, slack, installer>>

-----------------------------------------------------------------------------
(* resolveWorkspace and resolveMember: find the row, or create it.         *)

FindWorkspace(h) ==
  /\ Proceed(h, "findWorkspace",
             IF "workspace" \in rows THEN "findMember" ELSE "createWorkspace")
  /\ knows' = [knows EXCEPT ![h] = onboarded]
  /\ UNCHANGED <<deployment, subject, onboarding, result, memory, database, slack, installer>>

\* The unique key of the row refuses the second of two creations.
Create(h, row, from, to) ==
  /\ Proceed(h, from, IF row \in rows THEN "reject" ELSE to)
  /\ rows' = rows \cup {row}
  /\ UNCHANGED <<deployment, handlerVars, memory, threadRows, onboarded, slack, installer>>

CreateWorkspace(h) == Create(h, "workspace", "createWorkspace", "findMember")

FindMember(h) ==
  /\ Proceed(h, "findMember", IF "member" \in rows THEN "prepare" ELSE "createMember")
  /\ UNCHANGED <<deployment, handlerVars, memory, database, slack, installer>>

CreateMember(h) == Create(h, "member", "createMember", "prepare")
-----------------------------------------------------------------------------
(* From the hourglass to the run.                                          *)

\* addReaction; then mentions are resolved.
Prepare(h) ==
  /\ Proceed(h, "prepare", "countRuns")
  /\ hourglass' = hourglass \cup {Post(h)}
  /\ UNCHANGED <<deployment, handlerVars, memory, database, told, muted, installer>>

\* isOnboardingNeeded: the settings read with the workspace, and a count.
OnboardingNeeded(h) == ~knows[h] /\ "run" \notin rows

CountRuns(h) ==
  /\ Proceed(h, "countRuns", IF mode = "managed" THEN "budget" ELSE "run")
  /\ onboarding' = IF OnboardingNeeded(h) THEN onboarding \cup {h} ELSE onboarding
  /\ UNCHANGED <<deployment, subject, knows, result, memory, database, slack, installer>>

\* usageLimiter.canRun, of a managed deployment.
WithinBudget(h) ==
  /\ Proceed(h, "budget", "run")
  /\ UNCHANGED <<deployment, handlerVars, memory, database, slack, installer>>

OverBudget(h) ==
  /\ "overBudget" \in IngressEvents
  /\ Proceed(h, "budget", "ended")
  /\ hourglass' = hourglass \ {Post(h)}
  /\ SafeReply(h, "budget")
  /\ UNCHANGED <<deployment, handlerVars, memory, database, installer>>

\* An awaited call rejects: before the run nothing catches it but the caller.
CallFails(h) ==
  /\ "callFails" \in IngressEvents
  /\ \/ at[h] \in BeforeRun /\ at' = [at EXCEPT ![h] = "reject"] /\ result' = result
     \/ /\ at[h] \in {"mark", "findIntro", "createIntro"}
        /\ at' = [at EXCEPT ![h] = "catch"]
        /\ result' = [result EXCEPT ![h] = "error"]
  /\ UNCHANGED <<deployment, subject, knows, onboarding, memory, database, slack, installer>>

\* Outside the try block: the Bolt handlers answer, onEvent's caller only logs.
Reject(h) ==
  /\ Proceed(h, "reject", IF mode = "managed" THEN "lost" ELSE "ended")
  /\ IF mode = "managed" THEN UNCHANGED <<told, muted>> ELSE SafeReply(h, "error")
  /\ UNCHANGED <<deployment, handlerVars, memory, database, hourglass, installer>>
-----------------------------------------------------------------------------
(* runner.run, by what its caller sees of it.                              *)

Rivals(h) == {g \in Handlers \ {h} :
                /\ at[g] = "running"
                /\ ConversationOf(Post(g)) = ConversationOf(Post(h))}

\* The thread row is upserted before the lock is looked at.
UpsertThread(h) ==
  /\ Proceed(h, "run", "starting")
  /\ threadRows' = threadRows \cup {ConversationOf(Post(h))}
  /\ UNCHANGED <<deployment, handlerVars, memory, rows, onboarded, slack, installer>>

StartRun(h) ==
  /\ Proceed(h, "starting", "running")
  /\ rows' = rows \cup {"run"}
  /\ UNCHANGED <<deployment, handlerVars, memory, threadRows, onboarded, slack, installer>>

\* "answer": text the handler has to send; "sent": the agent posted it with a
\* send tool; "quiet": the tool refused or posted elsewhere, or the text is empty.
FinishRun(h, how) ==
  /\ how \in {"answer", "sent", "quiet"}
  /\ Proceed(h, "running", IF h \in onboarding THEN "mark" ELSE "reply")
  /\ result' = [result EXCEPT ![h] = how]
  /\ IF how = "sent" THEN Tell(h, "agent") ELSE told' = told
  /\ UNCHANGED <<deployment, subject, knows, onboarding, memory, database, hourglass, muted, installer>>

\* ThreadLockedError, ConcurrencyExceededError or any other.
RunThrows(h, how) ==
  /\ \/ how = "locked" /\ at[h] \in {"starting", "running"} /\ Rivals(h) # {}
     \/ how = "busy"   /\ at[h] = "running"
     \/ how = "error"  /\ at[h] \in InRun
  /\ at' = [at EXCEPT ![h] = "catch"]
  /\ result' = [result EXCEPT ![h] = how]
  /\ UNCHANGED <<deployment, subject, knows, onboarding, memory, database, slack, installer>>
-----------------------------------------------------------------------------
(* After the run.                                                          *)

MarkOnboarded(h) ==
  /\ Proceed(h, "mark", "findIntro")
  /\ onboarded' = TRUE
  /\ UNCHANGED <<deployment, handlerVars, memory, rows, threadRows, slack, installer>>

\* seedChannelIntros: find the cron job, or create it.
FindIntro(h) ==
  /\ Proceed(h, "findIntro", IF "intro" \in rows THEN "reply" ELSE "createIntro")
  /\ UNCHANGED <<deployment, handlerVars, memory, database, slack, installer>>

\* Refused by the unique name: the handler's catch block takes over.
CreateIntro(h) ==
  /\ Proceed(h, "createIntro", IF "intro" \in rows THEN "catch" ELSE "reply")
  /\ rows' = rows \cup {"intro"}
  /\ result' = [result EXCEPT ![h] = IF "intro" \in rows THEN "clash" ELSE @]
  /\ UNCHANGED <<deployment, subject, knows, onboarding, memory, threadRows, onboarded, slack, installer>>

\* sendResponse, unless the agent has called a send tool.
Reply(h) ==
  /\ Proceed(h, "reply", "unreact")
  /\ IF result[h] = "answer" THEN Tell(h, "answer") ELSE told' = told
  /\ UNCHANGED <<deployment, handlerVars, memory, database, hourglass, muted, installer>>

SayFails(h) ==
  /\ "sayFails" \in IngressEvents
  /\ result[h] = "answer"
  /\ Proceed(h, "reply", "catch")
  /\ result' = [result EXCEPT ![h] = "error"]
  /\ UNCHANGED <<deployment, subject, knows, onboarding, memory, database, slack, installer>>

Unreact(h) ==
  /\ Proceed(h, "unreact", "ended")
  /\ hourglass' = hourglass \ {Post(h)}
  /\ UNCHANGED <<deployment, handlerVars, memory, database, told, muted, installer>>

\* The catch block: a locked thread gets the eyes and the message is injected.
Catch(h) ==
  /\ Proceed(h, "catch", "ended")
  /\ hourglass' = hourglass \ {Post(h)}
  /\ SafeReply(h, CASE result[h] = "locked" -> "eyes"
                    [] result[h] = "busy"   -> "busy"
                    [] OTHER                -> "error")
  /\ UNCHANGED <<deployment, handlerVars, memory, database, installer>>
-----------------------------------------------------------------------------
(* runProactiveOnboarding, called when an installation has ended.          *)

InstallStep(from, to) == installer = from /\ installer' = to

InstallRead ==
  /\ InstallStep("read", IF onboarded THEN "ended" ELSE "openDm")
  /\ UNCHANGED <<deployment, handlerVars, at, memory, database, slack>>

\* The direct message is opened; then onboarding is marked complete.
InstallMark ==
  /\ InstallStep("openDm", "run")
  /\ onboarded' = TRUE
  /\ UNCHANGED <<deployment, handlerVars, at, memory, rows, threadRows, slack>>

InstallRun ==
  /\ InstallStep("run", "running")
  /\ rows' = rows \cup {"run"}
  /\ UNCHANGED <<deployment, handlerVars, at, memory, threadRows, onboarded, slack>>

InstallFinish ==
  /\ InstallStep("running", IF "intro" \in rows THEN "ended" ELSE "createIntro")
  /\ UNCHANGED <<deployment, handlerVars, at, memory, database, slack>>

InstallIntro ==
  /\ InstallStep("createIntro", "ended")
  /\ rows' = rows \cup {"intro"}
  /\ UNCHANGED <<deployment, handlerVars, at, memory, threadRows, onboarded, slack>>

\* No connection, no channel, or a rejection, logged by the callback's catch.
InstallFails ==
  /\ "callFails" \in IngressEvents
  /\ installer # "ended"
  /\ installer' = "ended"
  /\ UNCHANGED <<deployment, handlerVars, at, memory, database, slack>>
-----------------------------------------------------------------------------
HandlerStep(h) ==
  \/ Participate(h) \/ FindWorkspace(h) \/ CreateWorkspace(h)
  \/ FindMember(h) \/ CreateMember(h) \/ Prepare(h) \/ CountRuns(h)
  \/ WithinBudget(h) \/ OverBudget(h) \/ Reject(h)
  \/ UpsertThread(h) \/ StartRun(h)
  \/ \E how \in {"answer", "sent", "quiet"} : FinishRun(h, how)
  \/ \E how \in {"locked", "busy", "error"} : RunThrows(h, how)
  \/ MarkOnboarded(h) \/ FindIntro(h) \/ CreateIntro(h)
  \/ Reply(h) \/ SayFails(h) \/ Unreact(h) \/ Catch(h)

InstallerStep ==
  \/ InstallRead \/ InstallMark \/ InstallRun \/ InstallFinish \/ InstallIntro

IngressNext ==
  \/ \E h \in Handlers :
       \/ \E p \in Posts, type \in {"app_mention", "message"}, late \in BOOLEAN :
            Receive(h, p, type, late)
       \/ HandlerStep(h)
       \/ CallFails(h)
  \/ InstallerStep \/ InstallFails

IngressSpec == IngressInit /\ [][IngressNext]_ingressVars
-----------------------------------------------------------------------------
(* Properties.                                                             *)

IngressTypeOK ==
  /\ mode \in Deployments
  /\ kind \in Conversations
  /\ subject \in [Handlers -> (Posts \cup {"none"}) \X {"none", "app_mention", "message"}]
  /\ at \in [Handlers -> Active \cup {"idle", "duplicate", "ignored", "ended", "lost"}]
  /\ knows \in [Handlers -> BOOLEAN]
  /\ onboarding \subseteq Handlers
  /\ result \in [Handlers -> {"none", "answer", "sent", "quiet", "locked", "busy", "error", "clash"}]
  /\ rows \subseteq {"workspace", "member", "run", "intro"}
  /\ threadRows \subseteq Posts \cup {"shared"}
  /\ onboarded \in BOOLEAN
  /\ hourglass \subseteq Posts
  /\ installer \in {"read", "openDm", "run", "running", "createIntro", "ended"}

\* A message that was answered twice is a mention inside a thread, whose two
\* copies are two events to a self-hosted bot, or one whose key had expired
\* before Slack delivered it again (slack/middleware.ts, createEventDeduplicator).
AnsweredTwiceExplained ==
  \A g, h \in Handlers :
    (g # h /\ Accepted(g) /\ Accepted(h) /\ Post(g) = Post(h)) =>
      \/ mode = "selfHosted" /\ kind[Post(h)] = "threadMention" /\ Type(g) # Type(h)
      \/ KeyOf(Post(h), Type(h)) \in expired

\* A mention that Slack delivered and that no handler took up was preceded by
\* its message copy, which took the key and was dropped (index.ts, onEvent);
\* a self-hosted bot takes every mention up.
LostMentionExplained ==
  \A h \in Handlers :
    (Type(h) = "app_mention" /\ ~\E g \in Handlers : Post(g) = Post(h) /\ Accepted(g)) =>
      mode = "managed" /\ firstCopy[Post(h)] = "message"

\* The hourglass is on a message only while a handler works on it, unless one
\* has rejected between addReaction and the try block, which removes it.
HourglassMeansWork ==
  \A p \in hourglass :
    \E h \in Handlers : Post(h) = p /\ (at[h] \in Active \/ (at[h] \in {"lost", "ended"} /\ result[h] = "none"))

\* A handler that ends has told the user something, by itself or through the
\* agent, unless its post was refused; a run that called a send tool counts as
\* told whatever the tool did (runner.ts:676), and a managed handler that
\* rejected before the run says nothing.
NobodyLeftInSilence ==
  \A h \in Handlers :
    /\ at[h] = "ended" => result[h] = "quiet" \/ h \in muted \/ \E t \in told : t[3] = h
    /\ at[h] = "lost"  => mode = "managed" /\ result[h] = "none"

\* The answer of a run is told, not an error in its place, unless posting or
\* storing failed or a second onboarding seeded the same cron job.
AnswerIsTold ==
  \A h \in Handlers :
    /\ at[h] = "ended" /\ result[h] = "answer" => <<Post(h), "answer", h>> \in told
    /\ result[h] = "clash" =>
         h \in onboarding /\ (onboarding # {h} \/ installer = "ended")

\* A message is worked on once, and its user learns how it ended: every exception
\* is one of those above, whatever order deliveries and handlers take.
MessagesAreAnsweredOnce ==
  /\ AnsweredTwiceExplained /\ LostMentionExplained
  /\ HourglassMeansWork /\ NobodyLeftInSilence /\ AnswerIsTold
=============================================================================
