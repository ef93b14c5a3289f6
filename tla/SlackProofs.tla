---------------------------- MODULE SlackProofs -----------------------------
(***************************************************************************)
(* Theorems about what lies between Slack and the agent: the messages that *)
(* come in, the connections they come over, the messages that are sent and *)
(* the threads that are spawned, for every set of posts, installations,    *)
(* calls and paths, and for every event that may fail.                     *)
(***************************************************************************)
EXTENDS SlackIngress, SlackConnections, SlackPosting, ThreadSpawning,
        FiniteSetTheorems, TLAPS

-----------------------------------------------------------------------------
(* Messages and their handlers.                                            *)

\* A handler that was given a delivery was given a copy of a message.
SubjectInv(h) ==
  IF at[h] = "idle" THEN Type(h) = "none" ELSE
    /\ Post(h) \in Posts /\ Type(h) \in Copies(Post(h))
    /\ KeyOf(Post(h), Type(h)) \in seenKeys /\ firstCopy[Post(h)] # "none"
    /\ Accepted(h) => Actionable(Post(h), Type(h))
    /\ at[h] = "participate" => Type(h) = "message"

TakenUp(p) == \E g \in Handlers : Post(g) = p /\ Type(g) = "app_mention" /\ Accepted(g)

\* The first copy of a message to arrive takes its key; when it is the mention, a
\* handler takes the mention up.
FirstInv(p) ==
  /\ firstCopy[p] = "none" => \A type \in {"app_mention", "message"} : KeyOf(p, type) \notin seenKeys
  /\ firstCopy[p] = "app_mention" => TakenUp(p)
  /\ mode # "managed" /\ KeyOf(p, "app_mention") \in seenKeys => TakenUp(p)

\* Of two handlers of one key, one was given it after the entry had expired.
OnceInv ==
  \A g, h \in Handlers :
    g # h /\ Accepted(g) /\ Accepted(h) /\ Post(g) = Post(h) /\ KeyOf(Post(g), Type(g)) = KeyOf(Post(h), Type(h)) =>
      KeyOf(Post(h), Type(h)) \in expired

KeysInv ==
  /\ firstCopy \in [Posts -> {"none", "app_mention", "message"}]
  /\ \A h \in Handlers : SubjectInv(h)
  /\ \A p \in Posts : FirstInv(p)
  /\ OnceInv

WithAnswer == {"mark", "findIntro", "createIntro", "reply", "unreact"}

\* What a handler's run came to, and what its user was told, by the await it is at.
HandlerInv(h) ==
  /\ at[h] \in BeforeRun \cup InRun \cup {"idle", "duplicate", "ignored", "reject", "lost"} =>
       result[h] = "none"
  /\ at[h] = "lost" => mode = "managed"
  /\ at[h] \in {"mark", "findIntro", "createIntro"} => h \in onboarding
  /\ at[h] \in WithAnswer => result[h] \in {"answer", "sent", "quiet"}
  /\ at[h] = "catch" => result[h] \in {"locked", "busy", "error", "clash"}
  /\ result[h] = "sent" => <<Post(h), "agent", h>> \in told
  /\ at[h] \in {"unreact", "ended"} /\ result[h] = "answer" => <<Post(h), "answer", h>> \in told
  /\ at[h] = "ended" => result[h] = "quiet" \/ h \in muted \/ \E t \in told : t[3] = h
  /\ at[h] = "createIntro" /\ "intro" \in rows => onboarding # {h} \/ installer = "ended"
  /\ result[h] = "clash" => h \in onboarding /\ (onboarding # {h} \/ installer = "ended")

\* From addReaction on, until it has taken the hourglass away or rejects.
AtWorkOn(h) ==
  \/ at[h] \in {"countRuns", "budget"} \cup InRun \cup AfterRun
  \/ at[h] \in {"lost", "ended"} /\ result[h] = "none"

HourglassInv == \A p \in hourglass : \E h \in Handlers : Post(h) = p /\ AtWorkOn(h)

IngressInv ==
  /\ IngressTypeOK /\ KeysInv /\ HourglassInv
  /\ \A h \in Handlers : HandlerInv(h)

\* What every step of a handler that was given its delivery leaves alone, and how it
\* goes on.
Moves(h) ==
  /\ UNCHANGED <<mode, kind, subject, seenKeys, expired, firstCopy, installer>>
  /\ at[h] \in Active
  /\ at'[h] \in (Active \ {"participate"}) \cup {"ended", "lost", "ignored"}
  /\ at'[h] = "ignored" => at[h] = "participate"
  /\ \A g \in Handlers \ {h} : at'[g] = at[g] /\ result'[g] = result[g]
  /\ told \subseteq told' /\ muted \subseteq muted' /\ onboarding \subseteq onboarding'
  /\ "intro" \in rows' \ rows => at[h] = "createIntro"

\* The hourglass is put on and taken off by a handler of the message.
Turns(h) ==
  /\ hourglass' \subseteq hourglass \cup {Post(h)}
  /\ Post(h) \in hourglass' /\ (AtWorkOn(h) \/ Post(h) \notin hourglass) => AtWorkOn(h)'

LEMMA IngressInvInit == IngressInit => IngressInv
<1> SUFFICES ASSUME IngressInit PROVE IngressInv
  OBVIOUS
<1> USE IngressAssumption DEF IngressInit
<1>1. IngressTypeOK
  BY DEF IngressTypeOK, Active, BeforeRun, InRun, AfterRun
<1>2. KeysInv
  BY DEF KeysInv, SubjectInv, Type, FirstInv, OnceInv, Accepted
<1>3. HourglassInv /\ \A h \in Handlers : HandlerInv(h)
  BY DEF HourglassInv, HandlerInv, WithAnswer
<1>4. QED
  BY <1>1, <1>2, <1>3 DEF IngressInv

LEMMA IngressInvSuffices == IngressInv => IngressTypeOK /\ MessagesAreAnsweredOnce
<1> SUFFICES ASSUME IngressInv PROVE IngressTypeOK /\ MessagesAreAnsweredOnce
  OBVIOUS
<1> USE DEF IngressInv
<1>1. AnsweredTwiceExplained
  <2> SUFFICES ASSUME NEW g \in Handlers, NEW h \in Handlers, g # h, Accepted(g), Accepted(h),
                      Post(g) = Post(h), KeyOf(Post(h), Type(h)) \notin expired
               PROVE  mode = "selfHosted" /\ kind[Post(h)] = "threadMention" /\ Type(g) # Type(h)
    BY DEF AnsweredTwiceExplained
  <2>1. KeyOf(Post(g), Type(g)) # KeyOf(Post(h), Type(h))
    BY DEF KeysInv, OnceInv
  <2>2. mode = "selfHosted" /\ Type(g) # Type(h)
    BY <2>1, IngressAssumption DEF KeyOf, IngressTypeOK
  <2>3. \A k \in {g, h} : Type(k) \in Copies(Post(h)) /\ Actionable(Post(h), Type(k))
    BY DEF KeysInv, SubjectInv, Accepted
  <2>4. QED
    BY <2>2, <2>3 DEF Copies, Actionable, InThread
<1>2. LostMentionExplained
  <2> SUFFICES ASSUME NEW h \in Handlers, Type(h) = "app_mention", ~TakenUp(Post(h))
               PROVE  mode = "managed" /\ firstCopy[Post(h)] = "message"
    BY DEF LostMentionExplained, TakenUp
  <2>1. SubjectInv(h) /\ at[h] # "idle"
    BY DEF KeysInv, SubjectInv
  <2>2. QED
    BY <2>1 DEF KeysInv, SubjectInv, FirstInv, IngressTypeOK
<1>3. HourglassMeansWork
  BY DEF HourglassMeansWork, HourglassInv, AtWorkOn, Active, BeforeRun
<1>4. NobodyLeftInSilence /\ AnswerIsTold
  BY DEF NobodyLeftInSilence, AnswerIsTold, HandlerInv
<1>5. QED
  BY <1>1, <1>2, <1>3, <1>4 DEF MessagesAreAnsweredOnce

\* Any step of a handler that moves it on keeps the invariant of the keys,
LEMMA MovesKeepKeys ==
  ASSUME IngressInv, NEW h \in Handlers, Moves(h) PROVE KeysInv'
<1> USE DEF IngressInv
<1>1. /\ at'[h] \in (Active \ {"participate"}) \cup {"ended", "lost", "ignored"}
      /\ at'[h] = "ignored" => at[h] = "participate"
      /\ at[h] \in Active /\ \A g \in Handlers \ {h} : at'[g] = at[g]
  BY DEF Moves
<1>3. ASSUME NEW g \in Handlers
      PROVE  /\ at'[g] = "idle" <=> at[g] = "idle"
             /\ at'[g] = "participate" => at[g] = "participate"
             /\ Accepted(g)' => Accepted(g)
             /\ Accepted(g) /\ at[g] # "participate" => Accepted(g)'
  BY <1>1 DEF Accepted, Active, BeforeRun, InRun, AfterRun
<1>4. UNCHANGED <<mode, kind, subject, seenKeys, expired, firstCopy>>
  BY DEF Moves
<1>5. ASSUME NEW g \in Handlers PROVE SubjectInv(g)'
  <2>1. SubjectInv(g)
    BY DEF KeysInv
  <2>2. QED
    BY <1>3, <1>4, <2>1 DEF SubjectInv, Post, Type, Copies, KeyOf, Actionable, InThread
<1>6. ASSUME NEW p \in Posts PROVE FirstInv(p)'
  <2>1. TakenUp(p) => TakenUp(p)'
    <3> SUFFICES ASSUME NEW g \in Handlers, Post(g) = p, Type(g) = "app_mention", Accepted(g)
                 PROVE  Post(g)' = p /\ Type(g)' = "app_mention" /\ Accepted(g)'
      BY DEF TakenUp
    <3>1. at[g] # "participate"
      BY DEF KeysInv, SubjectInv
    <3>2. QED
      BY <1>3, <1>4, <3>1 DEF Post, Type
  <2>2. FirstInv(p)
    BY DEF KeysInv
  <2>3. QED
    BY <1>4, <2>1, <2>2 DEF FirstInv, KeyOf
<1>7. OnceInv'
  BY <1>3, <1>4 DEF KeysInv, OnceInv, Post, Type, KeyOf
<1>8. QED
  BY <1>4, <1>5, <1>6, <1>7 DEF KeysInv

\* that of the hourglass,
LEMMA MovesKeepHourglass ==
  ASSUME IngressInv, NEW h \in Handlers, Moves(h), Turns(h) PROVE HourglassInv'
<1> SUFFICES ASSUME NEW p \in hourglass' PROVE \E g \in Handlers : Post(g)' = p /\ AtWorkOn(g)'
  BY DEF HourglassInv
<1>1. \A g \in Handlers : Post(g)' = Post(g)
  BY DEF Moves, Post
<1>2. \A g \in Handlers \ {h} : AtWorkOn(g)' <=> AtWorkOn(g)
  BY DEF Moves, AtWorkOn
<1>3. CASE p \notin hourglass
  <2>1. p = Post(h) /\ AtWorkOn(h)'
    BY <1>3 DEF Turns
  <2>2. QED
    BY <1>1, <2>1
<1>4. CASE p \in hourglass
  <2>1. PICK g \in Handlers : Post(g) = p /\ AtWorkOn(g)
    BY <1>4 DEF IngressInv, HourglassInv
  <2>2. g = h => AtWorkOn(h)'
    BY <2>1 DEF Turns
  <2>3. QED
    BY <1>1, <1>2, <2>1, <2>2
<1>5. QED
  BY <1>3, <1>4

\* and that of every other handler.
LEMMA MovesKeepOthers ==
  ASSUME IngressInv, NEW h \in Handlers, Moves(h), NEW g \in Handlers \ {h} PROVE HandlerInv(g)'
<1>1. at'[g] = at[g] /\ result'[g] = result[g] /\ Post(g)' = Post(g) /\ mode' = mode /\ installer' = installer
  BY DEF Moves, Post
<1>2. told \subseteq told' /\ muted \subseteq muted' /\ onboarding \subseteq onboarding'
  BY DEF Moves
<1>3. HandlerInv(g) /\ HandlerInv(h) /\ onboarding \subseteq Handlers
  BY DEF IngressInv, IngressTypeOK
<1>4. "intro" \in rows' \ rows => h \in onboarding'
  BY <1>2, <1>3 DEF Moves, HandlerInv
<1>5. g \in onboarding /\ onboarding # {g} => onboarding' # {g}
  BY <1>2
<1>6. at[g] = "createIntro" => g \in onboarding
  BY <1>3 DEF HandlerInv
<1>7. /\ result'[g] = "clash" => g \in onboarding' /\ (onboarding' # {g} \/ installer' = "ended")
      /\ at'[g] = "createIntro" /\ "intro" \in rows' => onboarding' # {g} \/ installer' = "ended"
  BY <1>1, <1>2, <1>3, <1>4, <1>5, <1>6 DEF HandlerInv
<1>8. QED
  BY <1>1, <1>2, <1>3, <1>7 DEF HandlerInv

LEMMA MovesKeep ==
  ASSUME IngressInv, NEW h \in Handlers, Moves(h), Turns(h), IngressTypeOK', HandlerInv(h)'
  PROVE  IngressInv'
<1>1. KeysInv' /\ HourglassInv'
  BY MovesKeepKeys, MovesKeepHourglass
<1>2. \A g \in Handlers : HandlerInv(g)'
  BY MovesKeepOthers
<1>3. QED
  BY <1>1, <1>2 DEF IngressInv

\* A handler that has replied has told the user, or was refused.
LEMMA RepliesTell ==
  ASSUME NEW h \in Handlers, NEW what, SafeReply(h, what)
  PROVE  /\ told \subseteq told' /\ muted \subseteq muted'
         /\ h \in muted' \/ \E t \in told' : t[3] = h
<1>1. told' = told \/ told' = told \cup {<<Post(h), what, h>>}
  BY DEF SafeReply, Tell
<1>2. h \in muted' \/ <<Post(h), what, h>> \in told'
  BY DEF SafeReply, Tell
<1>3. muted \subseteq muted'
  BY DEF SafeReply
<1>4. <<Post(h), what, h>>[3] = h
  OBVIOUS
<1>5. QED
  BY <1>1, <1>2, <1>3, <1>4

\* Every step of a handler moves it on, and leaves it as the invariant has it.
LEMMA HandlerStepKeeps ==
  ASSUME IngressInv, NEW h \in Handlers, HandlerStep(h) \/ CallFails(h) PROVE IngressInv'
<1> USE DEF deployment, handlerVars, memory, database, slack, Proceed, Active, BeforeRun, InRun, AfterRun
<1>0. IngressTypeOK /\ KeysInv /\ SubjectInv(h) /\ HandlerInv(h)
  BY DEF IngressInv, KeysInv
<1>1. ASSUME Participate(h) PROVE IngressInv'
  <2>1. IngressTypeOK'
    BY <1>0, <1>1 DEF Participate, IngressTypeOK, SubjectInv, ConversationOf
  <2>2. Moves(h)
    BY <1>0, <1>1 DEF Participate, IngressTypeOK, Moves
  <2>5. Turns(h)
    BY <1>0, <1>1 DEF Participate, IngressTypeOK, Turns, AtWorkOn, HandlerInv
  <2>3. HandlerInv(h)'
    BY <1>0, <1>1 DEF Participate, IngressTypeOK, HandlerInv, WithAnswer, Post
  <2>4. QED
    BY <2>1, <2>2, <2>3, <2>5, MovesKeep
<1>2. ASSUME FindWorkspace(h) PROVE IngressInv'
  <2>1. IngressTypeOK'
    BY <1>0, <1>2 DEF FindWorkspace, IngressTypeOK, SubjectInv, ConversationOf
  <2>2. Moves(h)
    BY <1>0, <1>2 DEF FindWorkspace, IngressTypeOK, Moves
  <2>5. Turns(h)
    BY <1>0, <1>2 DEF FindWorkspace, IngressTypeOK, Turns, AtWorkOn, HandlerInv
  <2>3. HandlerInv(h)'
    BY <1>0, <1>2 DEF FindWorkspace, IngressTypeOK, HandlerInv, WithAnswer, Post
  <2>4. QED
    BY <2>1, <2>2, <2>3, <2>5, MovesKeep
<1>3. ASSUME FindMember(h) \/ WithinBudget(h) PROVE IngressInv'
  <2>1. IngressTypeOK'
    BY <1>0, <1>3 DEF FindMember, WithinBudget, IngressTypeOK, SubjectInv, ConversationOf
  <2>2. Moves(h)
    BY <1>0, <1>3 DEF FindMember, WithinBudget, IngressTypeOK, Moves
  <2>5. Turns(h)
    BY <1>0, <1>3 DEF FindMember, WithinBudget, IngressTypeOK, Turns, AtWorkOn, HandlerInv
  <2>3. HandlerInv(h)'
    BY <1>0, <1>3 DEF FindMember, WithinBudget, IngressTypeOK, HandlerInv, WithAnswer, Post
  <2>4. QED
    BY <2>1, <2>2, <2>3, <2>5, MovesKeep
<1>4. ASSUME FindIntro(h) PROVE IngressInv'
  <2>1. IngressTypeOK'
    BY <1>0, <1>4 DEF FindIntro, IngressTypeOK, SubjectInv, ConversationOf
  <2>2. Moves(h)
    BY <1>0, <1>4 DEF FindIntro, IngressTypeOK, Moves
  <2>5. Turns(h)
    BY <1>0, <1>4 DEF FindIntro, IngressTypeOK, Turns, AtWorkOn, HandlerInv
  <2>3. HandlerInv(h)'
    BY <1>0, <1>4 DEF FindIntro, IngressTypeOK, HandlerInv, WithAnswer, Post
  <2>4. QED
    BY <2>1, <2>2, <2>3, <2>5, MovesKeep
<1>5. ASSUME CreateWorkspace(h) \/ CreateMember(h) PROVE IngressInv'
  <2>1. IngressTypeOK'
    BY <1>0, <1>5 DEF CreateWorkspace, CreateMember, Create, IngressTypeOK, SubjectInv,
           ConversationOf
  <2>2. Moves(h)
    BY <1>0, <1>5 DEF CreateWorkspace, CreateMember, Create, IngressTypeOK, Moves
  <2>5. Turns(h)
    BY <1>0, <1>5 DEF CreateWorkspace, CreateMember, Create, IngressTypeOK, Turns, AtWorkOn,
           HandlerInv
  <2>3. HandlerInv(h)'
    BY <1>0, <1>5 DEF CreateWorkspace, CreateMember, Create, IngressTypeOK, HandlerInv,
           WithAnswer, Post
  <2>4. QED
    BY <2>1, <2>2, <2>3, <2>5, MovesKeep
<1>6. ASSUME Prepare(h) PROVE IngressInv'
  <2>1. IngressTypeOK'
    BY <1>0, <1>6 DEF Prepare, IngressTypeOK, SubjectInv, ConversationOf
  <2>2. Moves(h)
    BY <1>0, <1>6 DEF Prepare, IngressTypeOK, Moves
  <2>5. Turns(h)
    BY <1>0, <1>6 DEF Prepare, IngressTypeOK, Turns, AtWorkOn, HandlerInv
  <2>3. HandlerInv(h)'
    BY <1>0, <1>6 DEF Prepare, IngressTypeOK, HandlerInv, WithAnswer, Post
  <2>4. QED
    BY <2>1, <2>2, <2>3, <2>5, MovesKeep
<1>7. ASSUME CountRuns(h) PROVE IngressInv'
  <2>1. IngressTypeOK'
    BY <1>0, <1>7 DEF CountRuns, IngressTypeOK, SubjectInv, ConversationOf
  <2>2. Moves(h)
    BY <1>0, <1>7 DEF CountRuns, IngressTypeOK, Moves
  <2>5. Turns(h)
    BY <1>0, <1>7 DEF CountRuns, IngressTypeOK, Turns, AtWorkOn, HandlerInv
  <2>3. HandlerInv(h)'
    BY <1>0, <1>7 DEF CountRuns, IngressTypeOK, HandlerInv, WithAnswer, Post
  <2>4. QED
    BY <2>1, <2>2, <2>3, <2>5, MovesKeep
<1>8. ASSUME OverBudget(h) PROVE IngressInv'
  <2>1. IngressTypeOK'
    BY <1>0, <1>8 DEF OverBudget, SafeReply, Tell, IngressTypeOK, SubjectInv, ConversationOf
  <2>2. Moves(h)
    BY <1>0, <1>8 DEF OverBudget, SafeReply, Tell, IngressTypeOK, Moves
  <2>5. Turns(h)
    BY <1>0, <1>8 DEF OverBudget, SafeReply, Tell, IngressTypeOK, Turns, AtWorkOn, HandlerInv
  <2>3. HandlerInv(h)'
    <3>1. /\ told \subseteq told' /\ muted \subseteq muted'
          /\ at'[h] = "lost" \/ h \in muted' \/ \E t \in told' : t[3] = h
      BY <1>0, <1>8, RepliesTell DEF OverBudget, IngressTypeOK
    <3>2. QED
      BY <1>0, <1>8, <3>1 DEF OverBudget, IngressTypeOK, HandlerInv, WithAnswer, Post
  <2>4. QED
    BY <2>1, <2>2, <2>3, <2>5, MovesKeep
<1>9. ASSUME Reject(h) PROVE IngressInv'
  <2>1. IngressTypeOK'
    BY <1>0, <1>9 DEF Reject, SafeReply, Tell, IngressTypeOK, SubjectInv, ConversationOf
  <2>2. Moves(h)
    BY <1>0, <1>9 DEF Reject, SafeReply, Tell, IngressTypeOK, Moves
  <2>5. Turns(h)
    BY <1>0, <1>9 DEF Reject, SafeReply, Tell, IngressTypeOK, Turns, AtWorkOn, HandlerInv
  <2>3. HandlerInv(h)'
    <3>1. /\ told \subseteq told' /\ muted \subseteq muted'
          /\ at'[h] = "lost" \/ h \in muted' \/ \E t \in told' : t[3] = h
      BY <1>0, <1>9, RepliesTell DEF Reject, IngressTypeOK
    <3>2. QED
      BY <1>0, <1>9, <3>1 DEF Reject, IngressTypeOK, HandlerInv, WithAnswer, Post
  <2>4. QED
    BY <2>1, <2>2, <2>3, <2>5, MovesKeep
<1>10. ASSUME UpsertThread(h) PROVE IngressInv'
  <2>1. IngressTypeOK'
    BY <1>0, <1>10 DEF UpsertThread, IngressTypeOK, SubjectInv, ConversationOf
  <2>2. Moves(h)
    BY <1>0, <1>10 DEF UpsertThread, IngressTypeOK, Moves
  <2>5. Turns(h)
    BY <1>0, <1>10 DEF UpsertThread, IngressTypeOK, Turns, AtWorkOn, HandlerInv
  <2>3. HandlerInv(h)'
    BY <1>0, <1>10 DEF UpsertThread, IngressTypeOK, HandlerInv, WithAnswer, Post
  <2>4. QED
    BY <2>1, <2>2, <2>3, <2>5, MovesKeep
<1>11. ASSUME StartRun(h) PROVE IngressInv'
  <2>1. IngressTypeOK'
    BY <1>0, <1>11 DEF StartRun, IngressTypeOK, SubjectInv, ConversationOf
  <2>2. Moves(h)
    BY <1>0, <1>11 DEF StartRun, IngressTypeOK, Moves
  <2>5. Turns(h)
    BY <1>0, <1>11 DEF StartRun, IngressTypeOK, Turns, AtWorkOn, HandlerInv
  <2>3. HandlerInv(h)'
    BY <1>0, <1>11 DEF StartRun, IngressTypeOK, HandlerInv, WithAnswer, Post
  <2>4. QED
    BY <2>1, <2>2, <2>3, <2>5, MovesKeep
<1>12. ASSUME NEW how \in {"answer", "sent", "quiet"}, FinishRun(h, how) PROVE IngressInv'
  <2>1. IngressTypeOK'
    BY <1>0, <1>12 DEF FinishRun, Tell, IngressTypeOK, SubjectInv, ConversationOf
  <2>2. Moves(h)
    BY <1>0, <1>12 DEF FinishRun, Tell, IngressTypeOK, Moves
  <2>5. Turns(h)
    BY <1>0, <1>12 DEF FinishRun, Tell, IngressTypeOK, Turns, AtWorkOn, HandlerInv
  <2>3. HandlerInv(h)'
    BY <1>0, <1>12 DEF FinishRun, Tell, IngressTypeOK, HandlerInv, WithAnswer, Post
  <2>4. QED
    BY <2>1, <2>2, <2>3, <2>5, MovesKeep
<1>13. ASSUME NEW how \in {"locked", "busy", "error"}, RunThrows(h, how) PROVE IngressInv'
  <2>1. IngressTypeOK'
    BY <1>0, <1>13 DEF RunThrows, IngressTypeOK, SubjectInv, ConversationOf
  <2>2. Moves(h)
    BY <1>0, <1>13 DEF RunThrows, IngressTypeOK, Moves
  <2>5. Turns(h)
    BY <1>0, <1>13 DEF RunThrows, IngressTypeOK, Turns, AtWorkOn, HandlerInv
  <2>3. HandlerInv(h)'
    BY <1>0, <1>13 DEF RunThrows, IngressTypeOK, HandlerInv, WithAnswer, Post
  <2>4. QED
    BY <2>1, <2>2, <2>3, <2>5, MovesKeep
<1>14. ASSUME MarkOnboarded(h) PROVE IngressInv'
  <2>1. IngressTypeOK'
    BY <1>0, <1>14 DEF MarkOnboarded, IngressTypeOK, SubjectInv, ConversationOf
  <2>2. Moves(h)
    BY <1>0, <1>14 DEF MarkOnboarded, IngressTypeOK, Moves
  <2>5. Turns(h)
    BY <1>0, <1>14 DEF MarkOnboarded, IngressTypeOK, Turns, AtWorkOn, HandlerInv
  <2>3. HandlerInv(h)'
    BY <1>0, <1>14 DEF MarkOnboarded, IngressTypeOK, HandlerInv, WithAnswer, Post
  <2>4. QED
    BY <2>1, <2>2, <2>3, <2>5, MovesKeep
<1>15. ASSUME CreateIntro(h) PROVE IngressInv'
  <2>1. IngressTypeOK'
    BY <1>0, <1>15 DEF CreateIntro, IngressTypeOK, SubjectInv, ConversationOf
  <2>2. Moves(h)
    BY <1>0, <1>15 DEF CreateIntro, IngressTypeOK, Moves
  <2>5. Turns(h)
    BY <1>0, <1>15 DEF CreateIntro, IngressTypeOK, Turns, AtWorkOn, HandlerInv
  <2>3. HandlerInv(h)'
    BY <1>0, <1>15 DEF CreateIntro, IngressTypeOK, HandlerInv, WithAnswer, Post
  <2>4. QED
    BY <2>1, <2>2, <2>3, <2>5, MovesKeep
<1>16. ASSUME Reply(h) PROVE IngressInv'
  <2>1. IngressTypeOK'
    BY <1>0, <1>16 DEF Reply, Tell, IngressTypeOK, SubjectInv, ConversationOf
  <2>2. Moves(h)
    BY <1>0, <1>16 DEF Reply, Tell, IngressTypeOK, Moves
  <2>5. Turns(h)
    BY <1>0, <1>16 DEF Reply, Tell, IngressTypeOK, Turns, AtWorkOn, HandlerInv
  <2>3. HandlerInv(h)'
    BY <1>0, <1>16 DEF Reply, Tell, IngressTypeOK, HandlerInv, WithAnswer, Post
  <2>4. QED
    BY <2>1, <2>2, <2>3, <2>5, MovesKeep
<1>17. ASSUME SayFails(h) PROVE IngressInv'
  <2>1. IngressTypeOK'
    BY <1>0, <1>17 DEF SayFails, IngressTypeOK, SubjectInv, ConversationOf
  <2>2. Moves(h)
    BY <1>0, <1>17 DEF SayFails, IngressTypeOK, Moves
  <2>5. Turns(h)
    BY <1>0, <1>17 DEF SayFails, IngressTypeOK, Turns, AtWorkOn, HandlerInv
  <2>3. HandlerInv(h)'
    BY <1>0, <1>17 DEF SayFails, IngressTypeOK, HandlerInv, WithAnswer, Post
  <2>4. QED
    BY <2>1, <2>2, <2>3, <2>5, MovesKeep
<1>18. ASSUME Unreact(h) PROVE IngressInv'
  <2>1. IngressTypeOK'
    BY <1>0, <1>18 DEF Unreact, IngressTypeOK, SubjectInv, ConversationOf
  <2>2. Moves(h)
    BY <1>0, <1>18 DEF Unreact, IngressTypeOK, Moves
  <2>5. Turns(h)
    BY <1>0, <1>18 DEF Unreact, IngressTypeOK, Turns, AtWorkOn, HandlerInv
  <2>3. HandlerInv(h)'
    BY <1>0, <1>18 DEF Unreact, IngressTypeOK, HandlerInv, WithAnswer, Post
  <2>4. QED
    BY <2>1, <2>2, <2>3, <2>5, MovesKeep
<1>19. ASSUME Catch(h) PROVE IngressInv'
  <2>1. IngressTypeOK'
    BY <1>0, <1>19 DEF Catch, SafeReply, Tell, IngressTypeOK, SubjectInv, ConversationOf
  <2>2. Moves(h)
    BY <1>0, <1>19 DEF Catch, SafeReply, Tell, IngressTypeOK, Moves
  <2>5. Turns(h)
    BY <1>0, <1>19 DEF Catch, SafeReply, Tell, IngressTypeOK, Turns, AtWorkOn, HandlerInv
  <2>3. HandlerInv(h)'
    <3>1. /\ told \subseteq told' /\ muted \subseteq muted'
          /\ at'[h] = "lost" \/ h \in muted' \/ \E t \in told' : t[3] = h
      BY <1>0, <1>19, RepliesTell DEF Catch, IngressTypeOK
    <3>2. QED
      BY <1>0, <1>19, <3>1 DEF Catch, IngressTypeOK, HandlerInv, WithAnswer, Post
  <2>4. QED
    BY <2>1, <2>2, <2>3, <2>5, MovesKeep
<1>20. ASSUME CallFails(h) PROVE IngressInv'
  <2>1. IngressTypeOK'
    BY <1>0, <1>20 DEF CallFails, IngressTypeOK, SubjectInv, ConversationOf
  <2>2. Moves(h)
    BY <1>0, <1>20 DEF CallFails, IngressTypeOK, Moves
  <2>5. Turns(h)
    BY <1>0, <1>20 DEF CallFails, IngressTypeOK, Turns, AtWorkOn, HandlerInv
  <2>3. HandlerInv(h)'
    BY <1>0, <1>20 DEF CallFails, IngressTypeOK, HandlerInv, WithAnswer, Post
  <2>4. QED
    BY <2>1, <2>2, <2>3, <2>5, MovesKeep
<1> HIDE DEF deployment, handlerVars, memory, database, slack, Proceed, Active, BeforeRun, InRun, AfterRun
<1>21. QED
  BY <1>1, <1>2, <1>3, <1>4, <1>5, <1>6, <1>7, <1>8, <1>9, <1>10, <1>11, <1>12, <1>13, <1>14,
     <1>15, <1>16, <1>17, <1>18, <1>19, <1>20 DEF HandlerStep

\* So does the arrival of a copy,
LEMMA ReceiveKeeps ==
  ASSUME IngressInv, NEW h \in Handlers, NEW p \in Posts, NEW type \in {"app_mention", "message"},
         NEW late \in BOOLEAN, Receive(h, p, type, late)
  PROVE  IngressInv'
<1> DEFINE key == KeyOf(p, type)
<1>0. IngressTypeOK /\ KeysInv /\ HourglassInv /\ \A g \in Handlers : SubjectInv(g) /\ HandlerInv(g)
  BY DEF IngressInv, KeysInv
<1>1. /\ at[h] = "idle" /\ type \in Copies(p)
      /\ late => key \in seenKeys
      /\ subject' = [subject EXCEPT ![h] = <<p, type>>]
      /\ firstCopy' = [firstCopy EXCEPT ![p] = IF @ = "none" THEN type ELSE @]
      /\ seenKeys' = seenKeys \cup {key}
      /\ expired \subseteq expired' /\ (late => key \in expired')
      /\ UNCHANGED <<mode, kind, knows, onboarding, result, rows, threadRows, onboarded, hourglass,
                     told, muted, installer>>
  BY DEF Receive, deployment, database, slack
<1>2. PICK to : /\ at' = [at EXCEPT ![h] = to]
                /\ to \in {"duplicate", "ignored", "participate", "findWorkspace"}
                /\ to = "duplicate" <=> key \in seenKeys /\ ~late
                /\ to = "participate" => type = "message"
                /\ to \in {"participate", "findWorkspace"} => Actionable(p, type)
                /\ type = "app_mention" => to \in {"duplicate", "findWorkspace"}
  <2>1. PICK to : /\ at' = [at EXCEPT ![h] = to]
                  /\ to = IF Seen(key, late) THEN "duplicate"
                          ELSE IF ~Actionable(p, type) THEN "ignored"
                          ELSE IF type = "message" /\ InThread(p) THEN "participate"
                          ELSE "findWorkspace"
    BY DEF Receive
  <2>2. type = "app_mention" => Actionable(p, type)
    BY DEF Actionable
  <2>3. Seen(key, late) <=> key \in seenKeys /\ ~late
    BY DEF Seen
  <2>4. QED
    BY <2>1, <2>2, <2>3
<1> HIDE DEF key
<1>3. /\ at \in [Handlers -> Active \cup {"idle", "duplicate", "ignored", "ended", "lost"}]
      /\ DOMAIN subject = Handlers
  BY <1>0 DEF IngressTypeOK
<1>4. /\ Post(h)' = p /\ Type(h)' = type /\ at'[h] = to
      /\ \A g \in Handlers \ {h} : Post(g)' = Post(g) /\ Type(g)' = Type(g) /\ at'[g] = at[g]
      /\ \A g \in Handlers \ {h} : Accepted(g)' <=> Accepted(g)
  BY <1>1, <1>2, <1>3 DEF Post, Type, Accepted
<1>5. IngressTypeOK'
  <2>1. to \in Active \cup {"idle", "duplicate", "ignored", "ended", "lost"}
    BY <1>2 DEF Active, BeforeRun
  <2>2. at' \in [Handlers -> Active \cup {"idle", "duplicate", "ignored", "ended", "lost"}]
    BY <1>2, <1>3, <2>1
  <2>3. subject' \in [Handlers -> (Posts \cup {"none"}) \X {"none", "app_mention", "message"}]
    BY <1>0, <1>1 DEF IngressTypeOK
  <2>4. QED
    BY <1>0, <1>1, <2>2, <2>3 DEF IngressTypeOK
<1>6. key = KeyOf(Post(h)', Type(h)') /\ \A q, t : KeyOf(q, t)' = KeyOf(q, t)
  BY <1>1, <1>4 DEF KeyOf, key
<1>7. ASSUME NEW q \in Posts PROVE firstCopy'[q] = firstCopy[q] \/ (q = p /\ firstCopy[p] = "none" /\ firstCopy'[p] = type)
  <2>1. firstCopy \in [Posts -> {"none", "app_mention", "message"}]
    BY <1>0 DEF KeysInv
  <2>2. firstCopy' = [firstCopy EXCEPT ![p] = IF firstCopy[p] = "none" THEN type ELSE firstCopy[p]]
    BY <1>1
  <2>3. QED
    BY <2>1, <2>2
<1>8. \A q, t : KeyOf(q, t)' = KeyOf(q, t) /\ Actionable(q, t)' = Actionable(q, t) /\ Copies(q)' = Copies(q)
  BY <1>1 DEF KeyOf, Actionable, Copies, InThread
<1>9. ASSUME NEW g \in Handlers PROVE SubjectInv(g)'
  <2>1. CASE g = h
    <3>1. firstCopy'[p] # "none"
      BY <1>0, <1>1 DEF KeysInv
    <3>2. key \in seenKeys' /\ key = KeyOf(p, type)
      BY <1>1 DEF key
    <3>3. Accepted(h)' => Actionable(p, type)
      BY <1>2, <1>4 DEF Accepted
    <3>4. QED
      BY <2>1, <1>1, <1>2, <1>4, <1>8, <3>1, <3>2, <3>3 DEF SubjectInv
  <2>2. CASE g # h
    <3>1. SubjectInv(g) /\ seenKeys \subseteq seenKeys'
      BY <1>0, <1>1
    <3>2. Post(g) \in Posts /\ firstCopy[Post(g)] # "none" => firstCopy'[Post(g)] # "none"
      BY <1>7
    <3>3. QED
      BY <2>2, <1>4, <1>8, <3>1, <3>2 DEF SubjectInv
  <2>3. QED
    BY <2>1, <2>2
<1>10. ASSUME NEW q \in Posts, TakenUp(q) PROVE TakenUp(q)'
  <2>1. PICK g \in Handlers : Post(g) = q /\ Type(g) = "app_mention" /\ Accepted(g)
    BY <1>10 DEF TakenUp
  <2>2. g # h
    BY <2>1, <1>1 DEF Accepted
  <2>3. QED
    BY <1>4, <2>1, <2>2 DEF TakenUp
<1>11. type = "app_mention" /\ key \notin seenKeys => TakenUp(p)'
  BY <1>2, <1>4 DEF TakenUp, Accepted
<1>12. ASSUME NEW q \in Posts PROVE FirstInv(q)'
  <2>1. FirstInv(q) /\ FirstInv(p) /\ mode' = mode /\ seenKeys' = seenKeys \cup {key} /\ key = KeyOf(p, type)
    BY <1>0, <1>1 DEF KeysInv, key
  <2>2. q # p => \A t \in {"app_mention", "message"} : KeyOf(q, t) # key
    BY <2>1 DEF KeyOf
  <2>3. firstCopy'[p] # "none"
    BY <1>0, <1>1 DEF KeysInv
  <2>4. firstCopy'[q] = "none" => firstCopy[q] = "none" /\ q # p
    BY <1>7, <2>3
  <2>5. firstCopy'[q] = "app_mention" => TakenUp(q)'
    <3>1. CASE firstCopy[q] = firstCopy'[q]
      BY <1>10, <2>1, <3>1 DEF FirstInv
    <3>2. CASE firstCopy[q] # firstCopy'[q]
      <4>1. q = p /\ firstCopy[p] = "none" /\ firstCopy'[p] = type
        BY <1>7, <3>2
      <4>2. key \notin seenKeys
        BY <2>1, <4>1 DEF FirstInv
      <4>3. QED
        BY <1>11, <4>1, <4>2
    <3>3. QED
      BY <3>1, <3>2
  <2>6. mode # "managed" /\ KeyOf(q, "app_mention") \in seenKeys' => TakenUp(q)'
    <3> SUFFICES ASSUME mode # "managed", KeyOf(q, "app_mention") \in seenKeys' PROVE TakenUp(q)'
      OBVIOUS
    <3>1. CASE KeyOf(q, "app_mention") \in seenKeys
      BY <1>10, <2>1, <3>1 DEF FirstInv
    <3>2. CASE KeyOf(q, "app_mention") \notin seenKeys
      <4>1. KeyOf(q, "app_mention") = key
        BY <2>1, <3>2
      <4>2. q = p /\ type = "app_mention"
        BY <2>1, <4>1 DEF KeyOf
      <4>3. QED
        BY <1>11, <3>2, <4>1, <4>2
    <3>3. QED
      BY <3>1, <3>2
  <2>7. firstCopy'[q] = "none" => \A t \in {"app_mention", "message"} : KeyOf(q, t) \notin seenKeys'
    BY <2>1, <2>2, <2>4 DEF FirstInv
  <2>8. QED
    BY <1>8, <2>1, <2>5, <2>6, <2>7 DEF FirstInv
<1>13. OnceInv'
  <2>1. ASSUME NEW g \in Handlers \ {h}, Accepted(g), KeyOf(Post(g), Type(g)) = key, Accepted(h)'
        PROVE  key \in expired'
    <3>1. KeyOf(Post(g), Type(g)) \in seenKeys
      BY <1>0, <2>1 DEF SubjectInv, Accepted
    <3>2. late
      BY <1>2, <1>4, <2>1, <3>1 DEF Accepted
    <3>3. QED
      BY <1>1, <3>2
  <2>2. key = KeyOf(p, type) /\ expired \subseteq expired'
    BY <1>1 DEF key
  <2>3. SUFFICES ASSUME NEW g \in Handlers, NEW k \in Handlers, g # k, Accepted(g)', Accepted(k)',
                        Post(g)' = Post(k)', KeyOf(Post(g)', Type(g)') = KeyOf(Post(k)', Type(k)')
                 PROVE  KeyOf(Post(k)', Type(k)') \in expired'
    BY <1>8 DEF OnceInv
  <2>4. CASE g = h
    BY <1>4, <2>1, <2>2, <2>3, <2>4
  <2>5. CASE k = h
    BY <1>4, <2>1, <2>2, <2>3, <2>5
  <2>6. CASE g # h /\ k # h
    BY <1>0, <1>4, <2>2, <2>3, <2>6 DEF KeysInv, OnceInv
  <2>7. QED
    BY <2>4, <2>5, <2>6
<1>14. HourglassInv'
  <2>1. \A g \in Handlers : AtWorkOn(g) => g # h /\ AtWorkOn(g)'
    BY <1>1, <1>4 DEF AtWorkOn, InRun, AfterRun
  <2>2. QED
    BY <1>0, <1>1, <1>4, <2>1 DEF HourglassInv
<1>15. ASSUME NEW g \in Handlers PROVE HandlerInv(g)'
  <2>1. result'[h] = "none"
    BY <1>0, <1>1 DEF HandlerInv
  <2>2. CASE g = h
    BY <1>2, <1>4, <2>1, <2>2 DEF HandlerInv, WithAnswer
  <2>3. CASE g # h
    BY <1>0, <1>1, <1>4, <2>3 DEF HandlerInv
  <2>4. QED
    BY <2>2, <2>3
<1>16. firstCopy' \in [Posts -> {"none", "app_mention", "message"}]
  BY <1>0, <1>1 DEF KeysInv
<1>17. QED
  BY <1>5, <1>9, <1>12, <1>13, <1>14, <1>15, <1>16 DEF IngressInv, KeysInv

\* and the proactive onboarding of an installation.
LEMMA InstallerKeeps ==
  ASSUME IngressInv, InstallerStep \/ InstallFails \/ UNCHANGED ingressVars PROVE IngressInv'
<1>1. /\ UNCHANGED <<mode, kind, subject, knows, onboarding, result, at, seenKeys, expired, firstCopy,
                     hourglass, told, muted>>
      /\ installer = "ended" => installer' = "ended"
      /\ "intro" \in rows' \ rows => installer' = "ended"
  BY DEF InstallerStep, InstallStep, InstallRead, InstallMark, InstallRun, InstallFinish,
         InstallIntro,
         InstallFails, deployment, handlerVars, memory, database, slack, ingressVars
<1>2. IngressTypeOK'
  BY DEF IngressInv, IngressTypeOK, InstallerStep, InstallStep, InstallRead, InstallMark,
         InstallRun,
         InstallFinish, InstallIntro, InstallFails, deployment, handlerVars, memory, database, slack,
         ingressVars
<1>3. KeysInv'
  BY <1>1 DEF IngressInv, KeysInv, SubjectInv, FirstInv, OnceInv, TakenUp, Accepted, Post, Type,
              KeyOf, Copies, Actionable, InThread
<1>4. HourglassInv'
  BY <1>1 DEF IngressInv, HourglassInv, AtWorkOn, Post
<1>5. ASSUME NEW h \in Handlers PROVE HandlerInv(h)'
  BY <1>1 DEF IngressInv, HandlerInv, Post
<1>6. QED
  BY <1>2, <1>3, <1>4, <1>5 DEF IngressInv

LEMMA IngressInvStep == IngressInv /\ [IngressNext]_ingressVars => IngressInv'
BY HandlerStepKeeps, ReceiveKeeps, InstallerKeeps DEF IngressNext

\* Every variable keeps its type, and a message is worked on once and its user learns
\* how it ended, but for what the property names, for every set of messages, deliveries
\* and failures, whatever order they take.  (slack/events.ts, slack/middleware.ts,
\* index.ts onEvent)
THEOREM MessagesAnswered == IngressSpec => [](IngressTypeOK /\ MessagesAreAnsweredOnce)
BY IngressInvInit, IngressInvStep, IngressInvSuffices, PTL DEF IngressSpec

-----------------------------------------------------------------------------
(* The connections.                                                        *)

USE DEF world

ManagedPhases    == {"down", "serving", "listing", "connecting", "up"}
SelfHostedPhases == {"down", "serving", "resolving", "creating", "registering", "up", "fatal"}

LinkTyped ==
  /\ hosting \in Hostings
  /\ phase \in IF hosting = "managed" THEN ManagedPhases ELSE SelfHostedPhases
  /\ teamRows \in [Teams -> Tokens \cup {NoToken}]
  /\ connections \in [Teams -> Tokens \cup {NoToken}]
  /\ snapshot \in [Teams -> Tokens \cup {NoToken}]
  /\ callback \in [Installs -> {"idle", "upsert", "connect", "member", "done", "failed"}]
  /\ guests \in IF hosting = "managed" THEN {"idle"} ELSE {"idle", "create", "done", "refused"}
  /\ interlaced \subseteq Teams /\ unheard \subseteq Teams \X {"event", "press"}
  /\ restarts \in 0..RestartBound

\* Nothing is installed in a self-hosted bot, whose one row is its own team's.
SelfHostedInv ==
  hosting # "managed" =>
    /\ \A i \in Installs : callback[i] \in {"idle"}
    /\ \A t \in Teams \ {HomeTeam} : teamRows[t] = NoToken /\ connections[t] = NoToken
    /\ teamRows[HomeTeam] \in {NoToken, EnvToken}
    /\ phase \in {"registering", "up", "fatal"} => teamRows[HomeTeam] = EnvToken
    /\ phase = "up" => connections[HomeTeam] = EnvToken
    /\ phase = "creating" /\ teamRows[HomeTeam] # NoToken => guests = "done"
    /\ phase = "fatal" => guests = "done"

\* Two that are at work for a team are in different stages of it, or were noted.
MeetingInv ==
  \A t \in Teams \ interlaced :
    /\ \A i, j \in AtWork(t) : i = j
    /\ phase \in {"listing", "connecting"} => AtWork(t) = {}

Connecting(t) == \E i \in Installs : TeamOf[i] = t /\ callback[i] = "connect"

\* A managed bot is nobody's team's until it listens, and has no token then.
ManagedInv(t) ==
  \* A stored team is connected once the bot is up, or is about to be;
  /\ phase = "up" /\ teamRows[t] # NoToken => connections[t] # NoToken \/ Connecting(t)
  /\ phase = "connecting" /\ teamRows[t] # NoToken =>
       snapshot[t] # NoToken \/ connections[t] # NoToken \/ Connecting(t)
  \* and unless two writers met, with the token of its row.
  /\ t \notin interlaced =>
       /\ \A i \in Installs : TeamOf[i] = t /\ callback[i] = "connect" => teamRows[t] = i
       /\ phase = "connecting" => snapshot[t] = teamRows[t]
       /\ ~Connecting(t) =>
            /\ connections[t] = NoToken \/ connections[t] = teamRows[t]
            /\ phase = "up" => connections[t] = teamRows[t]

LinkInv ==
  /\ LinkTyped /\ SelfHostedInv /\ MeetingInv
  /\ hosting = "managed" => \A t \in Teams : ManagedInv(t)

LEMMA HomeIsATeam == HomeTeam \in Teams
BY LinkAssumption DEF HomeTeam

LEMMA LinkInvInit == LinkInit => LinkInv
<1> SUFFICES ASSUME LinkInit PROVE LinkInv
  OBVIOUS
<1> USE LinkAssumption, HomeIsATeam DEF LinkInit, EmptyMap
<1>1. LinkTyped
  BY DEF LinkTyped, ManagedPhases, SelfHostedPhases, Tokens
<1>2. SelfHostedInv /\ MeetingInv
  BY DEF SelfHostedInv, MeetingInv, AtWork
<1>3. \A t \in Teams : ManagedInv(t)
  BY DEF ManagedInv, Connecting
<1>4. QED
  BY <1>1, <1>2, <1>3 DEF LinkInv

\* A team that is stored is connected once the bot is up and nobody is at work for it.
LEMMA KnownFollows == LinkInv => KnownTeamsAreConnected
<1> SUFFICES ASSUME LinkInv, NEW t \in Teams, phase = "up", AtWork(t) = {},
                    teamRows[t] # NoToken
             PROVE  connections[t] # NoToken
  BY DEF KnownTeamsAreConnected
<1>1. CASE hosting = "managed"
  <2>1. ~Connecting(t)
    BY DEF Connecting, AtWork
  <2>2. QED
    BY <1>1, <2>1 DEF LinkInv, ManagedInv
<1>2. CASE hosting # "managed"
  BY <1>2 DEF LinkInv, SelfHostedInv, EnvToken, NoToken
<1>3. QED
  BY <1>1, <1>2

LEMMA LinkInvSuffices == LinkInv => LinkTypeOK /\ ConnectionsFollowRows
<1> SUFFICES ASSUME LinkInv PROVE LinkTypeOK /\ ConnectionsFollowRows
  OBVIOUS
<1>1. LinkTypeOK
  BY DEF LinkInv, LinkTyped, LinkTypeOK, ManagedPhases, SelfHostedPhases
<1>2. StaleTokenExplained
  <2> SUFFICES ASSUME NEW t \in Teams, phase = "up", AtWork(t) = {}, t \notin interlaced
               PROVE  connections[t] = teamRows[t]
    BY DEF StaleTokenExplained
  <2>1. CASE hosting = "managed"
    <3>1. ~Connecting(t)
      BY DEF Connecting, AtWork
    <3>2. QED
      BY <2>1, <3>1 DEF LinkInv, ManagedInv
  <2>2. CASE hosting # "managed"
    BY <2>2 DEF LinkInv, SelfHostedInv
  <2>3. QED
    BY <2>1, <2>2
<1>3. FatalStartExplained
  <2>1. phase = "fatal" => hosting # "managed"
    BY DEF LinkInv, LinkTyped, ManagedPhases
  <2>2. QED
    BY <2>1 DEF FatalStartExplained, LinkInv, SelfHostedInv, EnvToken, NoToken
<1>4. QED
  BY <1>1, <1>2, <1>3, KnownFollows DEF ConnectionsFollowRows

\* Meetings are noted: what NoteMeetings leaves unnoted is not one.
LEMMA MeetingsAreNoted ==
  ASSUME NoteMeetings PROVE MeetingInv'
<1> SUFFICES ASSUME NEW t \in Teams, t \notin interlaced'
             PROVE  /\ \A i, j \in AtWork(t)' : i = j
                    /\ phase' \in {"listing", "connecting"} => AtWork(t)' = {}
  BY DEF MeetingInv
<1>1. ~Meeting(t)'
  BY DEF NoteMeetings
<1>2. /\ ~(Cardinality(AtWork(t)') > 1)
      /\ phase' \in {"listing", "connecting"} => AtWork(t)' = {}
  BY <1>1 DEF Meeting
<1>3. PICK W : W = AtWork(t)'
  OBVIOUS
<1>4. W \subseteq Installs
  BY <1>3 DEF AtWork
<1>5. ASSUME NEW i \in W, NEW j \in W, i # j PROVE FALSE
  <2>1. IsFiniteSet(W)
    BY <1>4, LinkAssumption, FS_Subset
  <2>2. IsFiniteSet({j}) /\ Cardinality({j}) = 1
    BY FS_Singleton
  <2>3. {i, j} = {j} \cup {i} /\ i \notin {j}
    BY <1>5
  <2>4. IsFiniteSet({i, j}) /\ Cardinality({i, j}) = 2
    BY <2>2, <2>3, FS_AddElement
  <2>5. Cardinality({i, j}) <= Cardinality(W) /\ Cardinality(W) \in Nat
    BY <1>5, <2>1, FS_Subset, FS_CardinalityType
  <2>6. QED
    BY <1>2, <1>3, <2>4, <2>5
<1>6. QED
  BY <1>2, <1>3, <1>5

\* Every step keeps the invariant.
LEMMA LinkInvStep == LinkInv /\ [LinkNext]_linkVars => LinkInv'
<1> SUFFICES ASSUME LinkInv, [LinkNext]_linkVars PROVE LinkInv'
  OBVIOUS
<1> USE LinkAssumption, HomeIsATeam
<1>0. /\ LinkTyped /\ SelfHostedInv /\ MeetingInv
      /\ hosting = "managed" => \A t \in Teams : ManagedInv(t)
  BY DEF LinkInv
<1>1. CASE Serve
  BY <1>0, <1>1 DEF Serve, Phase, LinkInv, LinkTyped, SelfHostedInv, MeetingInv, ManagedInv,
                    Connecting, AtWork, ManagedPhases, SelfHostedPhases
<1>2. CASE ListWorkspaces \/ ReadWorkspaces
  <2>1. /\ hosting = "managed" /\ NoteMeetings
        /\ \/ phase' = "listing" /\ snapshot' = snapshot
           \/ phase' = "connecting" /\ snapshot' = teamRows
        /\ UNCHANGED <<hosting, unheard, restarts, teamRows, connections, callback, guests>>
    BY <1>0, <1>2 DEF ListWorkspaces, ReadWorkspaces, Phase, LinkTyped, SelfHostedPhases
  <2>2. LinkTyped'
    BY <1>0, <2>1 DEF LinkTyped, ManagedPhases, NoteMeetings
  <2>3. MeetingInv' /\ SelfHostedInv' /\ interlaced \subseteq interlaced'
    BY <2>1, MeetingsAreNoted DEF SelfHostedInv, NoteMeetings
  <2>4. ASSUME NEW t \in Teams PROVE ManagedInv(t)'
    BY <1>0, <2>1, <2>3 DEF ManagedInv, Connecting
  <2>5. QED
    BY <2>1, <2>2, <2>3, <2>4 DEF LinkInv
<1>3. CASE ConnectAll
  <2>1. /\ hosting = "managed" /\ phase = "connecting" /\ phase' = "up"
        /\ connections' = [t \in Teams |-> IF snapshot[t] = NoToken THEN connections[t] ELSE snapshot[t]]
        /\ snapshot' = EmptyMap
        /\ UNCHANGED <<hosting, unheard, restarts, teamRows, callback, guests, interlaced>>
    BY <1>0, <1>3 DEF ConnectAll, Phase, LinkTyped, SelfHostedPhases
  <2>2. LinkTyped'
    BY <1>0, <2>1 DEF LinkTyped, ManagedPhases, EmptyMap
  <2>3. MeetingInv' /\ SelfHostedInv'
    BY <1>0, <2>1 DEF SelfHostedInv, MeetingInv, AtWork
  <2>4. ASSUME NEW t \in Teams PROVE ManagedInv(t)'
    <3>1. Connecting(t)' <=> Connecting(t)
      BY <2>1 DEF Connecting
    <3>2. t \notin interlaced => ~Connecting(t)
      BY <1>0, <2>1 DEF MeetingInv, Connecting, AtWork
    <3>3. QED
      BY <1>0, <2>1, <3>1, <3>2 DEF ManagedInv, Connecting
  <2>5. QED
    BY <2>1, <2>2, <2>3, <2>4 DEF LinkInv
<1>4. CASE StartApp \/ FindOwnWorkspace
  BY <1>0, <1>4 DEF StartApp, FindOwnWorkspace, Phase, LinkInv, LinkTyped, SelfHostedInv,
                    MeetingInv, AtWork, ManagedPhases, SelfHostedPhases
<1>5. CASE CreateOwnWorkspace
  BY <1>0, <1>5 DEF CreateOwnWorkspace, Phase, LinkInv, LinkTyped, SelfHostedInv, Tokens,
                    MeetingInv, AtWork, ManagedPhases, SelfHostedPhases
<1>6. CASE RegisterExisting
  BY <1>0, <1>6 DEF RegisterExisting, Phase, LinkInv, LinkTyped, SelfHostedInv, Tokens,
                    MeetingInv, AtWork, ManagedPhases, SelfHostedPhases
<1>7. CASE FirstEvent
  BY <1>0, <1>7 DEF FirstEvent, LinkInv, LinkTyped, SelfHostedInv, MeetingInv, AtWork
<1>8. CASE CreateForEvent
  <2>1. hosting # "managed"
    BY <1>0, <1>8 DEF CreateForEvent, LinkTyped
  <2>2. QED
    BY <1>0, <1>8, <2>1 DEF CreateForEvent, LinkInv, LinkTyped, SelfHostedInv, MeetingInv, AtWork,
                    Tokens
<1>9. CASE RestartBot
  <2>1. /\ phase' = "down" /\ connections' = EmptyMap /\ snapshot' = EmptyMap
        /\ callback' = [i \in Installs |-> IF callback[i] = "idle" THEN "idle" ELSE
                                           IF callback[i] = "done" THEN "done" ELSE "failed"]
        /\ UNCHANGED <<hosting, teamRows, interlaced, unheard>>
    BY <1>9 DEF RestartBot
  <2>2. LinkTyped'
    BY <1>0, <1>9 DEF RestartBot, LinkTyped, ManagedPhases, SelfHostedPhases, EmptyMap
  <2>3. \A i \in Installs : callback'[i] \in {"idle", "done", "failed"}
    BY <2>1
  <2>4. SelfHostedInv'
    BY <1>0, <2>1 DEF SelfHostedInv, EmptyMap
  <2>5. MeetingInv' /\ \A t \in Teams : ManagedInv(t)'
    BY <2>1, <2>3 DEF MeetingInv, ManagedInv, Connecting, AtWork, EmptyMap
  <2>6. QED
    BY <2>2, <2>4, <2>5 DEF LinkInv
<1>10. ASSUME NEW i \in Installs, ExchangeCode(i) PROVE LinkInv'
  <2>1. /\ hosting = "managed" /\ callback[i] = "idle"
        /\ callback' = [callback EXCEPT ![i] = "upsert"] /\ NoteMeetings
        /\ UNCHANGED <<hosting, unheard, restarts, phase, teamRows, connections, snapshot, guests>>
    BY <1>10 DEF ExchangeCode, Callback
  <2>2. LinkTyped'
    BY <1>0, <2>1 DEF LinkTyped, NoteMeetings
  <2>3. MeetingInv' /\ SelfHostedInv' /\ interlaced \subseteq interlaced'
    BY <2>1, MeetingsAreNoted DEF SelfHostedInv, NoteMeetings
  <2>4. \A j \in Installs : callback'[j] = "connect" <=> callback[j] = "connect"
    BY <1>0, <2>1 DEF LinkTyped
  <2>5. ASSUME NEW t \in Teams PROVE ManagedInv(t)'
    BY <1>0, <2>1, <2>3, <2>4 DEF ManagedInv, Connecting
  <2>6. QED
    BY <2>1, <2>2, <2>3, <2>5 DEF LinkInv
<1>11. ASSUME NEW i \in Installs, UpsertWorkspace(i) PROVE LinkInv'
  <2>1. /\ callback[i] = "upsert" /\ callback' = [callback EXCEPT ![i] = "connect"]
        /\ teamRows' = [teamRows EXCEPT ![TeamOf[i]] = i]
        /\ UNCHANGED <<hosting, unheard, restarts, phase, connections, snapshot, guests, interlaced>>
    BY <1>11 DEF UpsertWorkspace, Callback
  <2>2. hosting = "managed" /\ TeamOf[i] \in Teams
    BY <1>0, <2>1 DEF SelfHostedInv
  <2>3. LinkTyped' /\ SelfHostedInv'
    BY <1>0, <2>1, <2>2 DEF LinkTyped, Tokens, SelfHostedInv
  <2>4. \A t \in Teams : AtWork(t)' = AtWork(t)
    BY <1>0, <2>1 DEF AtWork, LinkTyped
  <2>5. MeetingInv'
    BY <1>0, <2>1, <2>4 DEF MeetingInv
  <2>6. ASSUME NEW t \in Teams PROVE ManagedInv(t)'
    <3>1. CASE t = TeamOf[i]
      <4>1. Connecting(t)' /\ i \in AtWork(t) /\ teamRows'[t] = i
        BY <1>0, <2>1, <3>1 DEF Connecting, AtWork, LinkTyped
      <4>2. t \notin interlaced =>
              /\ phase # "connecting"
              /\ \A j \in Installs : TeamOf[j] = t /\ callback'[j] = "connect" => j = i
        BY <1>0, <2>1, <4>1 DEF MeetingInv, AtWork, LinkTyped
      <4>3. QED
        BY <2>1, <4>1, <4>2 DEF ManagedInv
    <3>2. CASE t # TeamOf[i]
      <4>1. /\ teamRows'[t] = teamRows[t]
            /\ \A j \in Installs : TeamOf[j] = t => callback'[j] = callback[j]
        BY <1>0, <2>1, <3>2 DEF LinkTyped
      <4>2. QED
        BY <1>0, <2>1, <2>2, <4>1 DEF ManagedInv, Connecting
    <3>3. QED
      BY <3>1, <3>2
  <2>7. QED
    BY <2>1, <2>3, <2>5, <2>6 DEF LinkInv
<1>12. ASSUME NEW i \in Installs, ConnectInstalled(i) PROVE LinkInv'
  <2>1. /\ callback[i] = "connect" /\ callback' = [callback EXCEPT ![i] = "member"]
        /\ connections' = [connections EXCEPT ![TeamOf[i]] = i]
        /\ UNCHANGED <<hosting, unheard, restarts, phase, teamRows, snapshot, guests, interlaced>>
    BY <1>12 DEF ConnectInstalled, Callback
  <2>2. hosting = "managed" /\ TeamOf[i] \in Teams /\ i # NoToken
    BY <1>0, <2>1 DEF SelfHostedInv, NoToken
  <2>3. LinkTyped' /\ SelfHostedInv'
    BY <1>0, <2>1, <2>2 DEF LinkTyped, Tokens, SelfHostedInv
  <2>4. \A t \in Teams : AtWork(t)' \subseteq AtWork(t)
    BY <1>0, <2>1 DEF AtWork, LinkTyped
  <2>5. MeetingInv'
    BY <1>0, <2>1, <2>4 DEF MeetingInv
  <2>6. ASSUME NEW t \in Teams PROVE ManagedInv(t)'
    <3>1. CASE t = TeamOf[i]
      <4>1. connections'[t] = i /\ i \in AtWork(t)
        BY <1>0, <2>1, <3>1 DEF AtWork, LinkTyped
      <4>2. t \notin interlaced => teamRows[t] = i /\ phase # "connecting"
        BY <1>0, <2>1, <2>2, <3>1, <4>1 DEF ManagedInv, MeetingInv
      <4>3. \A j \in Installs : callback'[j] = "connect" => callback[j] = "connect"
        BY <1>0, <2>1 DEF LinkTyped
      <4>4. QED
        BY <1>0, <2>1, <2>2, <4>1, <4>2, <4>3 DEF ManagedInv
    <3>2. CASE t # TeamOf[i]
      <4>1. /\ connections'[t] = connections[t]
            /\ \A j \in Installs : TeamOf[j] = t => callback'[j] = callback[j]
        BY <1>0, <2>1, <3>2 DEF LinkTyped
      <4>2. QED
        BY <1>0, <2>1, <2>2, <4>1 DEF ManagedInv, Connecting
    <3>3. QED
      BY <3>1, <3>2
  <2>7. QED
    BY <2>1, <2>3, <2>5, <2>6 DEF LinkInv
<1>13. ASSUME NEW i \in Installs, FinishInstall(i) \/ InstallationFails(i) PROVE LinkInv'
  <2>1. PICK to \in {"done", "failed"} :
          /\ callback[i] \in {"upsert", "member"} /\ callback' = [callback EXCEPT ![i] = to]
          /\ UNCHANGED <<hosting, unheard, restarts, phase, teamRows, connections, snapshot, guests,
                         interlaced>>
    BY <1>13 DEF FinishInstall, InstallationFails, Callback
  <2>2. hosting = "managed"
    BY <1>0, <2>1 DEF SelfHostedInv
  <2>3. LinkTyped' /\ SelfHostedInv'
    BY <1>0, <2>1, <2>2 DEF LinkTyped, SelfHostedInv
  <2>4. /\ \A t \in Teams : AtWork(t)' \subseteq AtWork(t)
        /\ \A j \in Installs : callback'[j] = "connect" <=> callback[j] = "connect"
    BY <1>0, <2>1 DEF AtWork, LinkTyped
  <2>5. MeetingInv'
    BY <1>0, <2>1, <2>4 DEF MeetingInv
  <2>6. ASSUME NEW t \in Teams PROVE ManagedInv(t)'
    BY <1>0, <2>1, <2>2, <2>4 DEF ManagedInv, Connecting
  <2>7. QED
    BY <2>1, <2>3, <2>5, <2>6 DEF LinkInv
<1>14. ASSUME NEW t \in Teams, DropEvent(t) \/ DropPress(t) PROVE LinkInv'
  BY <1>0, <1>14 DEF DropEvent, DropPress, Unanswered, LinkInv, LinkTyped, SelfHostedInv,
                     MeetingInv, ManagedInv, Connecting, AtWork
<1>15. CASE UNCHANGED linkVars
  BY <1>0, <1>15 DEF linkVars, LinkInv, LinkTyped, SelfHostedInv, MeetingInv, ManagedInv,
                     Connecting, AtWork
<1>16. QED
  BY <1>1, <1>2, <1>3, <1>4, <1>5, <1>6, <1>7, <1>8, <1>9, <1>10, <1>11, <1>12, <1>13, <1>14,
     <1>15 DEF LinkNext, StartupStep, InstallStepOf

\* Every variable keeps its type, and the connections are those of the stored
\* workspaces, through installations that fail, meet and are cut off, but for what the
\* property names.  (oauth.ts 150-175, connection-manager.ts, index.ts)
THEOREM ConnectionsFollow == LinkSpec => [](LinkTypeOK /\ ConnectionsFollowRows)
BY LinkInvInit, LinkInvStep, LinkInvSuffices, PTL DEF LinkSpec

\* What a stored workspace sends is dropped only while the bot starts or while the
\* installation is on its way.  (events-api.ts:71, 119)
THEOREM DropsAreExplained == LinkSpec => DroppedEventExplained
<1>1. LinkInv /\ [LinkNext]_linkVars =>
        [\A t \in Teams, what \in {"event", "press"} :
           <<t, what>> \in unheard' \ unheard /\ teamRows[t] # NoToken =>
             phase # "up" \/ AtWork(t) # {}]_linkVars
  <2> SUFFICES ASSUME LinkInv, [LinkNext]_linkVars, NEW t \in Teams,
                      NEW what \in {"event", "press"}, <<t, what>> \in unheard' \ unheard,
                      teamRows[t] # NoToken, phase = "up", AtWork(t) = {}
               PROVE  FALSE
    OBVIOUS
  <2>1. connections[t] # NoToken
    BY KnownFollows DEF KnownTeamsAreConnected
  <2>2. \E s \in Teams : connections[s] = NoToken /\ unheard' \in {unheard \cup {<<s, "event">>}, unheard \cup {<<s, "press">>}}
    BY DEF LinkNext, StartupStep, InstallStepOf, linkVars, Serve, ListWorkspaces,
           ReadWorkspaces, ConnectAll, StartApp, FindOwnWorkspace, CreateOwnWorkspace,
           RegisterExisting, FirstEvent, CreateForEvent, ExchangeCode, UpsertWorkspace,
           ConnectInstalled, FinishInstall, InstallationFails, DropEvent, DropPress, Unanswered,
           RestartBot
  <2>3. QED
    BY <2>1, <2>2
<1>2. QED
  BY <1>1, LinkInvInit, LinkInvStep, PTL DEF LinkSpec, DroppedEventExplained

HIDE DEF world

-----------------------------------------------------------------------------
(* Posts and their log.                                                    *)

Line(c) == <<request[c].ts, c>>

\* Calls that have sent a message of their own to Slack.
Senders == {c \in PostCalls : request[c].tool = "send" /\ request[c].ts # 0}

PostTyped ==
  /\ posts \in Seq(PostCalls \cup {NoCall})
  /\ request \in [PostCalls -> [tool : {"none", "send", "replace", "update", "delete"},
                                ts : 0..Len(posts), thread : BOOLEAN]]
  /\ callStage \in [PostCalls -> {"idle", "sent", "acted", "ended"}]
  /\ DOMAIN appends = PostCalls /\ DOMAIN logOf = LogFiles
  /\ sentLog \in Seq(Nat \X PostCalls)
  /\ Len(posts) = Cardinality(Senders)

\* What a call has still to append is an end of its files, and what it has appended is there.
AppendsInv(c) ==
  /\ appends[c] \in {<<>>, <<"sent">>, <<"month", "sent">>}
       \cup (IF request[c].thread THEN {<<"thread", "sent">>, <<"month", "thread", "sent">>} ELSE {})
  /\ request[c].thread => appends[c] # <<"month", "sent">>
  /\ appends[c] # <<>> => callStage[c] = "ended" /\ request[c].tool \in {"send", "replace"}
  /\ appends[c] \in {<<"sent">>, <<"thread", "sent">>} => Line(c) \in logOf["month"]
  /\ appends[c] = <<"sent">> /\ request[c].thread => Line(c) \in logOf["thread"]

\* Slack has carried the call out, and its log is not complete.
Carried(c) == callStage[c] = "acted" \/ appends[c] # <<>>
Busy(c)    == callStage[c] = "sent" \/ Carried(c)

StageInv(c) ==
  /\ callStage[c] = "idle" => request[c].ts = 0
  /\ callStage[c] \in {"sent", "acted"} => request[c].tool # "none"
  /\ callStage[c] = "sent" => (request[c].ts = 0 <=> request[c].tool = "send")
  /\ Carried(c) => request[c].ts # 0 /\ (request[c].tool # "delete" => Line(c) \in said)
  /\ callStage[c] = "acted" /\ request[c].tool \in {"update", "delete"} => request[c].ts \in blurred

LinesInv ==
  \A f \in LogFiles : \A line \in logOf[f] :
    \E c \in PostCalls : callStage[c] = "ended" /\ line = Line(c) /\ line \in said

BackedInv ==
  \A c \in PostCalls : Line(c) \in logOf["sent"] =>
    Line(c) \in logOf["month"] /\ (request[c].thread => Line(c) \in logOf["thread"])

\* The last line about a message says what.
LastSays(ts, what) ==
  \E n \in 1..Len(sentLog) :
    /\ sentLog[n] = <<ts, what>>
    /\ \A later \in n + 1..Len(sentLog) : sentLog[later][1] # ts

\* A message whose calls neither overlapped nor were lost is the one of the call that is
\* being logged, or has its log up to date.
FollowInv(ts) ==
  /\ \A c, d \in PostCalls : Busy(c) /\ Busy(d) /\ request[c].ts = ts /\ request[d].ts = ts => c = d
  /\ \A c \in PostCalls : Carried(c) /\ request[c].ts = ts => posts[ts] = c
  /\ (\A c \in PostCalls : request[c].ts = ts => ~Carried(c)) => LastSays(ts, posts[ts])

PostInv ==
  /\ PostTyped
  /\ \A c \in PostCalls : AppendsInv(c) /\ StageInv(c)
  /\ LinesInv /\ BackedInv
  /\ \A ts \in 1..Len(posts) \ blurred : FollowInv(ts)

LEMMA AtMostOne ==
  ASSUME NEW W, IsFiniteSet(W), ~(Cardinality(W) > 1)
  PROVE  \A i, j \in W : i = j
<1> SUFFICES ASSUME NEW i \in W, NEW j \in W, i # j PROVE FALSE
  OBVIOUS
<1>1. IsFiniteSet({j}) /\ Cardinality({j}) = 1
  BY FS_Singleton
<1>2. {i, j} = {j} \cup {i} /\ i \notin {j}
  OBVIOUS
<1>3. IsFiniteSet({i, j}) /\ Cardinality({i, j}) = 2
  BY <1>1, <1>2, FS_AddElement
<1>4. Cardinality({i, j}) <= Cardinality(W) /\ Cardinality(W) \in Nat
  BY FS_Subset, FS_CardinalityType
<1>5. QED
  BY <1>3, <1>4

LEMMA PostInvInit == PostInit => PostInv
<1> SUFFICES ASSUME PostInit PROVE PostInv
  OBVIOUS
<1> USE PostAssumption DEF PostInit, NoRequest
<1>1. PostTyped
  <2>1. Cardinality(Senders) = 0
    <3>1. Senders = {}
      BY DEF Senders
    <3>2. QED
      BY <3>1, FS_EmptySet
  <2>2. QED
    BY <2>1 DEF PostTyped
<1>2. \A c \in PostCalls : AppendsInv(c) /\ StageInv(c)
  BY DEF AppendsInv, StageInv, Carried
<1>3. LinesInv /\ BackedInv /\ \A ts \in 1..Len(posts) \ blurred : FollowInv(ts)
  BY DEF LinesInv, BackedInv, LogFiles
<1>4. QED
  BY <1>1, <1>2, <1>3 DEF PostInv

LEMMA PostInvSuffices == PostInv => PostTypeOK /\ LogMatchesSlack
<1> SUFFICES ASSUME PostInv PROVE PostTypeOK /\ LogMatchesSlack
  OBVIOUS
<1> USE DEF PostInv
<1>1. PostTypeOK
  <2>1. Cardinality(Senders) <= Cardinality(PostCalls) /\ Cardinality(PostCalls) \in Nat
    BY PostAssumption, FS_Subset, FS_CardinalityType DEF Senders
  <2>2. \A c \in PostCalls : request[c].ts \in 0..Cardinality(PostCalls)
    BY <2>1 DEF PostTyped
  <2>3. QED
    <3>1. \A c \in PostCalls : appends[c] \in Seq(LogFiles)
      <4>1. /\ <<>> \in Seq(LogFiles) /\ <<"sent">> \in Seq(LogFiles) /\ <<"month", "sent">> \in Seq(LogFiles)
            /\ <<"thread", "sent">> \in Seq(LogFiles) /\ <<"month", "thread", "sent">> \in Seq(LogFiles)
        BY DEF LogFiles
      <4>2. QED
        BY <4>1 DEF AppendsInv
    <3>2. QED
      BY <2>2, <3>1 DEF PostTypeOK, PostTyped
<1>2. LoggedWasSaid
  BY DEF LoggedWasSaid, LinesInv
<1>3. SentLogIsBacked
  BY DEF SentLogIsBacked, LinesInv, BackedInv, Line, LogFiles
<1>4. LogFollowsSlack
  BY DEF LogFollowsSlack, FollowInv, LastSays, Carried
<1>5. QED
  BY <1>1, <1>2, <1>3, <1>4 DEF LogMatchesSlack

\* Every step keeps the invariant.
LEMMA PostInvStep == PostInv /\ [PostNext]_postVars => PostInv'
<1> SUFFICES ASSUME PostInv, [PostNext]_postVars PROVE PostInv'
  OBVIOUS
<1> USE PostAssumption
<1>0. /\ PostTyped /\ LinesInv /\ BackedInv
      /\ \A c \in PostCalls : AppendsInv(c) /\ StageInv(c)
      /\ \A ts \in 1..Len(posts) \ blurred : FollowInv(ts)
  BY DEF PostInv
<1>1. ASSUME NEW c \in PostCalls, Suppress(c) PROVE PostInv'
  <2>1. /\ callStage[c] = "idle" /\ callStage' = [callStage EXCEPT ![c] = "ended"]
        /\ UNCHANGED <<posts, request, appends, logOf, sentLog, said, blurred>>
    BY <1>1 DEF Suppress, logs
  <2>2. PostTyped'
    BY <1>0, <2>1 DEF PostTyped, Senders
  <2>3. ASSUME NEW d \in PostCalls PROVE AppendsInv(d)' /\ StageInv(d)'
    BY <1>0, <2>1 DEF PostTyped, AppendsInv, StageInv, Carried, Line
  <2>4. LinesInv' /\ BackedInv'
    BY <1>0, <2>1 DEF PostTyped, LinesInv, BackedInv, Line
  <2>5. ASSUME NEW ts \in 1..Len(posts)' \ blurred' PROVE FollowInv(ts)'
    <3>1. \A d \in PostCalls : (Carried(d)' <=> Carried(d)) /\ (Busy(d)' <=> Busy(d))
      BY <1>0, <2>1 DEF PostTyped, Busy, Carried
    <3>2. QED
      BY <1>0, <2>1, <3>1 DEF FollowInv, LastSays
  <2>6. QED
    BY <2>2, <2>3, <2>4, <2>5 DEF PostInv
<1>2. ASSUME NEW c \in PostCalls, NEW tool \in {"send", "replace", "update", "delete"},
             NEW slot \in 0..Len(posts), NEW thread \in BOOLEAN, CallSlack(c, tool, slot, thread)
      PROVE  PostInv'
  <2>1. /\ callStage[c] = "idle" /\ callStage' = [callStage EXCEPT ![c] = "sent"]
        /\ tool = "send" <=> slot = 0
        /\ request' = [request EXCEPT ![c] = [tool |-> tool, ts |-> slot, thread |-> thread]]
        /\ blurred \subseteq blurred'
        /\ \A ts \in 1..Len(posts) : Overlapping(ts)' => ts \in blurred'
        /\ UNCHANGED <<posts, appends, logOf, sentLog, said>>
    BY <1>2 DEF CallSlack, NoteOverlaps, logs
  <2>2. request[c].ts = 0 /\ appends[c] = <<>>
    BY <1>0, <2>1 DEF AppendsInv, StageInv
  <2>3. Senders' = Senders
    BY <1>0, <2>1, <2>2 DEF Senders, PostTyped
  <2>4. PostTyped'
    BY <1>0, <2>1, <2>3 DEF PostTyped
  <2>5. ASSUME NEW d \in PostCalls PROVE AppendsInv(d)' /\ StageInv(d)'
    <3>1. CASE d = c
      <4>1. /\ request'[c] = [tool |-> tool, ts |-> slot, thread |-> thread]
            /\ callStage'[c] = "sent" /\ appends'[c] = <<>>
        BY <1>0, <2>1, <2>2 DEF PostTyped
      <4>2. AppendsInv(c)'
        BY <4>1 DEF AppendsInv
      <4>3. StageInv(c)'
        BY <2>1, <4>1 DEF StageInv, Carried
      <4>4. QED
        BY <3>1, <4>2, <4>3
    <3>2. CASE d # c
      <4>1. request'[d] = request[d] /\ callStage'[d] = callStage[d]
        BY <1>0, <2>1, <3>2 DEF PostTyped
      <4>2. QED
        BY <1>0, <2>1, <4>1 DEF AppendsInv, StageInv, Carried, Line
    <3>3. QED
      BY <3>1, <3>2
  <2>6. LinesInv'
    BY <1>0, <2>1 DEF PostTyped, LinesInv, Line
  <2>7. BackedInv'
    <3>1. ASSUME NEW d \in PostCalls, Line(d)' \in logOf["sent"] PROVE d # c
      <4>1. PICK e \in PostCalls : callStage[e] = "ended" /\ Line(d)' = Line(e)
        BY <1>0, <3>1 DEF LinesInv, LogFiles
      <4>2. QED
        BY <2>1, <4>1 DEF Line
    <3>2. QED
      BY <1>0, <2>1, <3>1 DEF PostTyped, BackedInv, Line
  <2>8. ASSUME NEW ts \in 1..Len(posts)' \ blurred' PROVE FollowInv(ts)'
    <3>1. ts \in 1..Len(posts) \ blurred /\ FollowInv(ts)
      BY <1>0, <2>1
    <3>2. PICK W : W = {d \in PostCalls : request'[d].ts = ts /\ Busy(d)'}
      OBVIOUS
    <3>3. IsFiniteSet(W) /\ ~(Cardinality(W) > 1)
      <4>1. W \subseteq PostCalls
        BY <3>2
      <4>2. ~Overlapping(ts)'
        BY <2>1, <3>1
      <4>3. QED
        BY <3>2, <4>1, <4>2, FS_Subset DEF Overlapping, Busy, Carried
    <3>4. \A d, e \in W : d = e
      BY <3>3, AtMostOne
    <3>5. \A d \in PostCalls : /\ Carried(d)' <=> Carried(d)
                               /\ Carried(d) => request'[d].ts = request[d].ts
      BY <1>0, <2>1, <2>2 DEF PostTyped, Carried
    <3>6. \A d \in PostCalls : request[d].ts = ts => request'[d].ts = ts
      BY <1>0, <2>1, <2>2 DEF PostTyped
    <3>7. LastSays(ts, posts[ts])' <=> LastSays(ts, posts[ts])
      BY <2>1 DEF LastSays
    <3>8. QED
      BY <2>1, <3>1, <3>2, <3>4, <3>5, <3>6, <3>7 DEF FollowInv
  <2>9. QED
    BY <2>4, <2>5, <2>6, <2>7, <2>8 DEF PostInv
<1>3. ASSUME NEW c \in PostCalls, SlackActs(c) PROVE PostInv'
  <2> DEFINE slot == IF request[c].tool = "send" THEN Len(posts) + 1 ELSE request[c].ts
  <2>1. /\ callStage[c] = "sent" /\ callStage' = [callStage EXCEPT ![c] = "acted"]
        /\ request' = [request EXCEPT ![c].ts = slot]
        /\ posts' = IF slot > Len(posts) THEN Append(posts, c) ELSE [posts EXCEPT ![slot] = TextAfter(c)]
        /\ said' = said \cup {<<slot, TextAfter(c)>>}
        /\ blurred' = IF request[c].tool \in {"update", "delete"} THEN blurred \cup {slot} ELSE blurred
        /\ UNCHANGED <<appends, logOf, sentLog>>
    BY <1>3 DEF SlackActs, logs
  <2>2. /\ appends[c] = <<>>
        /\ request[c].ts = 0 <=> request[c].tool = "send"
        /\ request[c].ts \in 0..Len(posts) /\ Len(posts) \in Nat
        /\ request[c].tool \in {"none", "send", "replace", "update", "delete"}
    BY <1>0, <2>1 DEF AppendsInv, StageInv, PostTyped
  <2>3. /\ slot \in 1..Len(posts) + 1 /\ (slot > Len(posts) <=> request[c].tool = "send")
        /\ TextAfter(c) \in PostCalls \cup {NoCall}
    BY <2>2 DEF TextAfter
  <2> HIDE DEF slot
  <2>7. /\ posts' \in Seq(PostCalls \cup {NoCall})
        /\ Len(posts)' = IF slot > Len(posts) THEN Len(posts) + 1 ELSE Len(posts)
        /\ \A ts \in 1..Len(posts)' : ts # slot => ts \in 1..Len(posts) /\ posts'[ts] = posts[ts]
        /\ posts'[slot] = IF slot > Len(posts) THEN c ELSE TextAfter(c)
    <3>1. CASE slot > Len(posts)
      <4>1. posts' = Append(posts, c) /\ slot = Len(posts) + 1
        BY <2>1, <2>2, <2>3, <3>1
      <4>2. posts \in Seq(PostCalls \cup {NoCall}) /\ c \in PostCalls \cup {NoCall}
        BY <1>0 DEF PostTyped
      <4>3. /\ posts' \in Seq(PostCalls \cup {NoCall}) /\ Len(posts') = Len(posts) + 1
            /\ posts'[Len(posts) + 1] = c /\ \A ts \in 1..Len(posts) : posts'[ts] = posts[ts]
        BY <4>1, <4>2
      <4>4. QED
        BY <2>2, <3>1, <4>1, <4>3
    <3>2. CASE ~(slot > Len(posts))
      <4>1. posts' = [posts EXCEPT ![slot] = TextAfter(c)] /\ slot \in 1..Len(posts)
        BY <2>1, <2>2, <2>3, <3>2
      <4>2. QED
        BY <1>0, <2>2, <2>3, <3>2, <4>1 DEF PostTyped
    <3>3. QED
      BY <3>1, <3>2
  <2>10. /\ request'[c] = [request[c] EXCEPT !.ts = slot] /\ request'[c].ts = slot
         /\ request'[c].tool = request[c].tool /\ request'[c].thread = request[c].thread
         /\ \A d \in PostCalls \ {c} : request'[d] = request[d] /\ Line(d)' = Line(d)
    BY <1>0, <2>1 DEF PostTyped, Line
  <2>4. PostTyped'
    <3>1. request' \in [PostCalls -> [tool : {"none", "send", "replace", "update", "delete"},
                                     ts : 0..Len(posts)', thread : BOOLEAN]]
      <4>1. 0..Len(posts) \subseteq 0..Len(posts)' /\ slot \in 0..Len(posts)'
        BY <2>2, <2>3, <2>7
      <4>2. request' = [request EXCEPT ![c] = [request[c] EXCEPT !.ts = slot]]
        BY <1>0, <2>1 DEF PostTyped
      <4>3. [request[c] EXCEPT !.ts = slot] \in [tool : {"none", "send", "replace", "update", "delete"},
                                               ts : 0..Len(posts)', thread : BOOLEAN]
        BY <1>0, <4>1 DEF PostTyped
      <4>4. \A d \in PostCalls : request[d] \in [tool : {"none", "send", "replace", "update", "delete"},
                                                  ts : 0..Len(posts)', thread : BOOLEAN]
        BY <1>0, <4>1 DEF PostTyped
      <4>5. DOMAIN request = PostCalls
        BY <1>0 DEF PostTyped
      <4>6. QED
        BY <4>2, <4>3, <4>4, <4>5
    <3>2. IsFiniteSet(Senders)
      BY FS_Subset DEF Senders
    <3>3. Len(posts)' = Cardinality(Senders')
      <4>1. CASE slot > Len(posts)
        <5>1. Senders' = Senders \cup {c} /\ c \notin Senders
          <6>1. request[c].ts = 0 /\ request'[c].tool = "send" /\ request'[c].ts # 0
            BY <2>2, <2>3, <2>10, <4>1
          <6>2. \A d \in PostCalls \ {c} : request'[d] = request[d]
            BY <2>10
          <6>3. QED
            BY <6>1, <6>2 DEF Senders
        <5>2. Cardinality(Senders') = Cardinality(Senders) + 1
          BY <3>2, <5>1, FS_AddElement
        <5>3. QED
          BY <1>0, <2>7, <4>1, <5>2 DEF PostTyped
      <4>2. CASE ~(slot > Len(posts))
        <5>1. Senders' = Senders
          BY <2>3, <2>10, <4>2 DEF Senders
        <5>2. QED
          BY <1>0, <2>7, <4>2, <5>1 DEF PostTyped
      <4>3. QED
        BY <4>1, <4>2
    <3>4. QED
      BY <1>0, <2>1, <2>7, <3>1, <3>3 DEF PostTyped
  <2>5. ASSUME NEW d \in PostCalls PROVE AppendsInv(d)' /\ StageInv(d)'
    <3>1. CASE d = c
      <4>1. appends'[c] = <<>> /\ callStage'[c] = "acted" /\ Line(c)' = <<slot, c>>
        BY <1>0, <2>1, <2>2, <2>10 DEF PostTyped, Line
      <4>2. request[c].tool # "delete" => <<slot, c>> \in said'
        BY <2>1 DEF TextAfter
      <4>3. request[c].tool \in {"update", "delete"} => slot \in blurred'
        BY <2>1
      <4>4. request[c].tool # "none"
        BY <1>0, <2>1 DEF StageInv
      <4>5. AppendsInv(c)'
        BY <4>1 DEF AppendsInv
      <4>6. StageInv(c)'
        BY <2>3, <2>10, <4>1, <4>2, <4>3, <4>4 DEF StageInv, Carried
      <4>7. QED
        BY <3>1, <4>5, <4>6
    <3>2. CASE d # c
      <4>1. callStage'[d] = callStage[d] /\ said \subseteq said' /\ blurred \subseteq blurred'
        BY <1>0, <2>1, <3>2 DEF PostTyped
      <4>2. QED
        BY <1>0, <2>1, <2>10, <3>2, <4>1 DEF AppendsInv, StageInv, Carried
    <3>3. QED
      BY <3>1, <3>2
  <2>6. LinesInv' /\ BackedInv'
    <3>1. \A d \in PostCalls : callStage[d] = "ended" => d # c /\ callStage'[d] = "ended"
      BY <1>0, <2>1 DEF PostTyped
    <3>2. LinesInv'
      BY <1>0, <2>1, <2>10, <3>1 DEF LinesInv
    <3>3. Line(c)' \notin logOf["sent"]
      BY <1>0, <2>1, <3>1 DEF LinesInv, LogFiles, Line
    <3>4. BackedInv'
      BY <1>0, <2>1, <2>10, <3>3 DEF BackedInv
    <3>5. QED
      BY <3>2, <3>4
  <2>8. ASSUME NEW ts \in 1..Len(posts)' \ blurred' PROVE FollowInv(ts)'
    <3>1. /\ \A d \in PostCalls \ {c} : (Busy(d)' <=> Busy(d)) /\ (Carried(d)' <=> Carried(d))
          /\ Carried(c)' /\ Busy(c) /\ ~Carried(c)
      BY <1>0, <2>1, <2>2 DEF PostTyped, Busy, Carried
    <3>2. CASE ts # slot
      <4>1. ts \in 1..Len(posts) \ blurred /\ posts'[ts] = posts[ts]
        BY <2>1, <2>7, <3>2
      <4>2. FollowInv(ts)
        BY <1>0, <4>1
      <4>3. LastSays(ts, posts[ts])' <=> LastSays(ts, posts[ts])
        BY <2>1, <4>1 DEF LastSays
      <4>4. request'[c].ts # ts
        BY <2>10, <3>2
      <4>5. QED
        BY <2>10, <3>1, <4>1, <4>2, <4>3, <4>4 DEF FollowInv
    <3>3. CASE ts = slot
      <4>1. \A d \in PostCalls \ {c} : request[d].ts = slot => ~Busy(d)
        <5>1. CASE slot > Len(posts)
          BY <1>0, <2>2, <5>1 DEF PostTyped
        <5>2. CASE ~(slot > Len(posts))
          <6>1. slot \in 1..Len(posts) \ blurred /\ request[c].ts = slot
            BY <2>1, <2>2, <2>3, <3>3, <5>2 DEF slot
          <6>2. QED
            BY <1>0, <3>1, <6>1 DEF FollowInv
        <5>3. QED
          BY <5>1, <5>2
      <4>2. posts'[slot] = c
        BY <2>1, <2>7, <3>3 DEF TextAfter
      <4>3. \A d \in PostCalls \ {c} : request'[d].ts = slot => ~Busy(d)' /\ ~Carried(d)'
        BY <2>10, <3>1, <4>1 DEF Busy
      <4>4. QED
        BY <2>10, <3>1, <3>3, <4>2, <4>3 DEF FollowInv
    <3>4. QED
      BY <3>2, <3>3
  <2>9. QED
    BY <2>4, <2>5, <2>6, <2>8 DEF PostInv
<1>4. ASSUME NEW c \in PostCalls, SlackRefuses(c) PROVE PostInv'
  <2>1. /\ callStage[c] = "sent" /\ callStage' = [callStage EXCEPT ![c] = "ended"]
        /\ UNCHANGED <<posts, request, appends, logOf, sentLog, said, blurred>>
    BY <1>4 DEF SlackRefuses, logs
  <2>2. PostTyped'
    BY <1>0, <2>1 DEF PostTyped, Senders
  <2>3. ASSUME NEW d \in PostCalls PROVE AppendsInv(d)' /\ StageInv(d)'
    BY <1>0, <2>1 DEF PostTyped, AppendsInv, StageInv, Carried, Line
  <2>4. LinesInv' /\ BackedInv'
    BY <1>0, <2>1 DEF PostTyped, LinesInv, BackedInv, Line
  <2>5. ASSUME NEW ts \in 1..Len(posts)' \ blurred' PROVE FollowInv(ts)'
    <3>1. \A d \in PostCalls : (Carried(d)' <=> Carried(d)) /\ (Busy(d)' => Busy(d))
      BY <1>0, <2>1 DEF PostTyped, Busy, Carried
    <3>2. QED
      BY <1>0, <2>1, <3>1 DEF FollowInv, LastSays
  <2>6. QED
    BY <2>2, <2>3, <2>4, <2>5 DEF PostInv
<1>5. ASSUME NEW c \in PostCalls, NEW ok \in BOOLEAN, SlackAnswers(c, ok) PROVE PostInv'
  <2>1. /\ callStage[c] = "acted" /\ callStage' = [callStage EXCEPT ![c] = "ended"]
        /\ appends' = [appends EXCEPT ![c] = LogAfter(c, ok)]
        /\ blurred' = IF ok THEN blurred ELSE blurred \cup {request[c].ts}
        /\ UNCHANGED <<posts, request, logOf, sentLog, said>>
    BY <1>5 DEF SlackAnswers, logs
  <2>2. appends[c] = <<>> /\ Carried(c)
    BY <1>0, <2>1 DEF AppendsInv, Carried
  <2>3. PostTyped'
    BY <1>0, <2>1 DEF PostTyped, Senders
  <2>4. ASSUME NEW d \in PostCalls PROVE AppendsInv(d)' /\ StageInv(d)'
    <3>1. CASE d = c
      <4>1. appends'[c] = LogAfter(c, ok) /\ callStage'[c] = "ended"
        BY <1>0, <2>1 DEF PostTyped
      <4>2. AppendsInv(c)'
        BY <2>1, <4>1 DEF AppendsInv, LogAfter, FilesOf
      <4>3. StageInv(c)'
        BY <1>0, <2>1, <2>2, <4>1 DEF StageInv, Line, Carried
      <4>4. QED
        BY <3>1, <4>2, <4>3
    <3>2. CASE d # c
      BY <1>0, <2>1, <3>2 DEF PostTyped, AppendsInv, StageInv, Carried, Line
    <3>3. QED
      BY <3>1, <3>2
  <2>5. LinesInv' /\ BackedInv'
    BY <1>0, <2>1 DEF PostTyped, LinesInv, BackedInv, Line
  <2>6. ASSUME NEW ts \in 1..Len(posts)' \ blurred' PROVE FollowInv(ts)'
    <3>1. ts \in 1..Len(posts) \ blurred /\ FollowInv(ts)
      BY <1>0, <2>1
    <3>2. request[c].ts = ts => Carried(c)'
      <4> SUFFICES ASSUME request[c].ts = ts PROVE appends'[c] # <<>>
        BY DEF Carried
      <4>1. ok /\ request[c].tool \in {"send", "replace"}
        <5>1. request[c].tool \notin {"update", "delete"} /\ ok
          BY <1>0, <2>1, <3>1 DEF StageInv
        <5>2. QED
          BY <1>0, <2>1, <2>2, <5>1 DEF PostTyped, StageInv
      <4>2. appends'[c] = FilesOf(c)
        BY <1>0, <2>1, <4>1 DEF PostTyped, LogAfter
      <4>3. QED
        BY <4>2 DEF FilesOf
    <3>3. \A d \in PostCalls : /\ Busy(d)' => Busy(d)
                               /\ Carried(d)' => Carried(d)
                               /\ Carried(d) /\ request[d].ts = ts => Carried(d)'
      BY <1>0, <2>1, <2>2, <3>2 DEF PostTyped, Busy, Carried
    <3>4. QED
      BY <2>1, <3>1, <3>3 DEF FollowInv, LastSays
  <2>7. QED
    BY <2>3, <2>4, <2>5, <2>6 DEF PostInv
<1>6. ASSUME NEW c \in PostCalls, AppendLine(c) PROVE PostInv'
  <2>1. /\ appends[c] # <<>> /\ appends' = [appends EXCEPT ![c] = Tail(appends[c])]
        /\ logOf' = [logOf EXCEPT ![Head(appends[c])] = logOf[Head(appends[c])] \cup {Line(c)}]
        /\ sentLog' = IF Head(appends[c]) = "sent" THEN Append(sentLog, Line(c)) ELSE sentLog
        /\ UNCHANGED <<posts, request, callStage, said, blurred>>
    BY <1>6 DEF AppendLine, Line
  <2>2. /\ callStage[c] = "ended" /\ request[c].tool \in {"send", "replace"} /\ Carried(c)
        /\ request[c].ts \in 1..Len(posts) /\ Line(c) \in said /\ Line(c) \in Nat \X PostCalls
    BY <1>0, <2>1 DEF AppendsInv, StageInv, Carried, PostTyped, Line
  <2>3. /\ Head(appends[c]) \in LogFiles
        /\ Tail(appends[c]) = <<>> <=> Head(appends[c]) = "sent"
    <3>1. CASE appends[c] = <<"sent">>
      BY <3>1 DEF LogFiles
    <3>2. CASE appends[c] = <<"month", "sent">>
      BY <3>2 DEF LogFiles
    <3>3. CASE appends[c] = <<"thread", "sent">>
      BY <3>3 DEF LogFiles
    <3>4. CASE appends[c] = <<"month", "thread", "sent">>
      BY <3>4 DEF LogFiles
    <3>5. QED
      BY <1>0, <2>1, <3>1, <3>2, <3>3, <3>4 DEF AppendsInv
  <2>4. \A d \in PostCalls : Line(d)' = Line(d)
    BY <2>1 DEF Line
  <2>5. /\ \A f \in LogFiles : logOf[f] \subseteq logOf'[f] /\ logOf'[f] \subseteq logOf[f] \cup {Line(c)}
        /\ Line(c) \in logOf'[Head(appends[c])]
        /\ \A f \in LogFiles : f # Head(appends[c]) => logOf'[f] = logOf[f]
    BY <1>0, <2>1, <2>3 DEF PostTyped
  <2>6. PostTyped'
    BY <1>0, <2>1, <2>2 DEF PostTyped, Senders
  <2>7. ASSUME NEW d \in PostCalls PROVE AppendsInv(d)' /\ StageInv(d)'
    <3>1. CASE d = c
      <4>1. AppendsInv(c)'
        <5>1. appends'[c] = Tail(appends[c])
          BY <1>0, <2>1 DEF PostTyped
        <5>2. CASE appends[c] = <<"sent">>
          <6>1. appends'[c] = <<>>
            BY <5>1, <5>2
          <6>2. QED
            BY <6>1 DEF AppendsInv
        <5>3. CASE appends[c] = <<"month", "sent">>
          <6>1. Tail(appends[c]) = <<"sent">> /\ Head(appends[c]) = "month"
            BY <5>3
          <6>2. QED
            BY <1>0, <2>1, <2>2, <2>4, <2>5, <5>1, <5>3, <6>1 DEF AppendsInv
        <5>4. CASE appends[c] = <<"thread", "sent">>
          <6>1. Tail(appends[c]) = <<"sent">> /\ Head(appends[c]) = "thread"
            BY <5>4
          <6>2. Line(c) \in logOf["month"]
            BY <1>0, <5>4 DEF AppendsInv
          <6>3. QED
            BY <1>0, <2>1, <2>2, <2>4, <2>5, <5>1, <5>4, <6>1, <6>2 DEF AppendsInv, LogFiles
        <5>5. CASE appends[c] = <<"month", "thread", "sent">>
          <6>1. Tail(appends[c]) = <<"thread", "sent">> /\ Head(appends[c]) = "month"
            BY <5>5
          <6>2. request[c].thread
            BY <1>0, <5>5 DEF AppendsInv
          <6>3. QED
            BY <1>0, <2>1, <2>2, <2>4, <2>5, <5>1, <5>5, <6>1, <6>2 DEF AppendsInv
        <5>6. QED
          BY <1>0, <2>1, <5>2, <5>3, <5>4, <5>5 DEF AppendsInv
      <4>2. StageInv(c)'
        BY <1>0, <2>1, <2>2, <2>4 DEF StageInv, Carried
      <4>3. QED
        BY <3>1, <4>1, <4>2
    <3>2. CASE d # c
      <4>1. appends'[d] = appends[d] /\ "month" \in LogFiles /\ "thread" \in LogFiles
        BY <1>0, <2>1, <3>2 DEF PostTyped, LogFiles
      <4>2. QED
        BY <1>0, <2>1, <2>4, <2>5, <4>1 DEF AppendsInv, StageInv, Carried
    <3>3. QED
      BY <3>1, <3>2
  <2>8. LinesInv'
    BY <1>0, <2>1, <2>2, <2>4, <2>5 DEF LinesInv
  <2>9. BackedInv'
    <3> SUFFICES ASSUME NEW d \in PostCalls, Line(d) \in logOf'["sent"]
                 PROVE  Line(d) \in logOf'["month"] /\ (request[d].thread => Line(d) \in logOf'["thread"])
      BY <2>1, <2>4 DEF BackedInv
    <3>1. "month" \in LogFiles /\ "thread" \in LogFiles /\ "sent" \in LogFiles
      BY DEF LogFiles
    <3>2. CASE Line(d) \in logOf["sent"]
      BY <1>0, <2>5, <3>1, <3>2 DEF BackedInv
    <3>3. CASE Line(d) \notin logOf["sent"]
      <4>1. Line(d) = Line(c) /\ Head(appends[c]) = "sent"
        BY <2>5, <3>1, <3>3
      <4>2. d = c /\ appends[c] = <<"sent">>
        <5>1. d = c
          BY <4>1 DEF Line
        <5>2. QED
          BY <1>0, <2>1, <4>1, <5>1 DEF AppendsInv
      <4>3. QED
        BY <1>0, <2>5, <3>1, <4>2 DEF AppendsInv
    <3>4. QED
      BY <3>2, <3>3
  <2>10. ASSUME NEW ts \in 1..Len(posts)' \ blurred' PROVE FollowInv(ts)'
    <3>1. ts \in 1..Len(posts) \ blurred /\ FollowInv(ts)
      BY <1>0, <2>1
    <3>2. \A d \in PostCalls : /\ Busy(d)' => Busy(d)
                               /\ Carried(d)' => Carried(d)
                               /\ d # c => (Carried(d) => Carried(d)')
      BY <1>0, <2>1, <2>2 DEF PostTyped, Busy, Carried
    <3>3. CASE Head(appends[c]) = "sent" /\ request[c].ts = ts
      <4>1. /\ sentLog' = Append(sentLog, Line(c)) /\ posts[ts] = c /\ Line(c) = <<ts, c>>
            /\ Line(c) \in Nat \X PostCalls
        BY <2>1, <2>2, <3>1, <3>3 DEF FollowInv, Line
      <4>2. LastSays(ts, posts[ts])'
        <5>1. Len(sentLog') = Len(sentLog) + 1 /\ sentLog'[Len(sentLog) + 1] = <<ts, posts[ts]>> /\ Len(sentLog) \in Nat
          BY <1>0, <4>1 DEF PostTyped
        <5>2. QED
          BY <2>1, <5>1 DEF LastSays
      <4>3. QED
        BY <2>1, <3>1, <3>2, <4>2 DEF FollowInv
    <3>4. CASE Head(appends[c]) = "sent" /\ request[c].ts # ts
      <4>1. LastSays(ts, posts[ts]) => LastSays(ts, posts[ts])'
        <5> SUFFICES ASSUME LastSays(ts, posts[ts]) PROVE LastSays(ts, posts[ts])'
          OBVIOUS
        <5>1. PICK n \in 1..Len(sentLog) :
                /\ sentLog[n] = <<ts, posts[ts]>>
                /\ \A later \in n + 1..Len(sentLog) : sentLog[later][1] # ts
          BY DEF LastSays
        <5>2. /\ Len(sentLog') = Len(sentLog) + 1 /\ sentLog'[Len(sentLog) + 1][1] # ts
              /\ \A m \in 1..Len(sentLog) : sentLog'[m] = sentLog[m]
              /\ Len(sentLog) \in Nat
          BY <1>0, <2>1, <2>2, <3>4 DEF PostTyped, Line
        <5>3. \A later \in n + 1..Len(sentLog') : sentLog'[later][1] # ts
          BY <5>1, <5>2
        <5>4. QED
          BY <2>1, <5>1, <5>2, <5>3 DEF LastSays
      <4>2. QED
        BY <2>1, <3>1, <3>2, <3>4, <4>1 DEF FollowInv
    <3>5. CASE Head(appends[c]) # "sent"
      <4>1. Carried(c)'
        BY <1>0, <2>1, <2>3, <3>5 DEF PostTyped, Carried
      <4>2. LastSays(ts, posts[ts])' <=> LastSays(ts, posts[ts])
        BY <2>1, <3>5 DEF LastSays
      <4>3. QED
        BY <2>1, <3>1, <3>2, <4>1, <4>2 DEF FollowInv
    <3>6. QED
      BY <3>3, <3>4, <3>5
  <2>11. QED
    BY <2>6, <2>7, <2>8, <2>9, <2>10 DEF PostInv
<1>7. ASSUME NEW c \in PostCalls, AppendFails(c) PROVE PostInv'
  <2>1. /\ appends' = [appends EXCEPT ![c] = <<>>]
        /\ blurred' = blurred \cup {request[c].ts}
        /\ UNCHANGED <<posts, request, callStage, logOf, sentLog, said>>
    BY <1>7 DEF AppendFails, logs
  <2>2. PostTyped'
    BY <1>0, <2>1 DEF PostTyped, Senders
  <2>3. ASSUME NEW d \in PostCalls PROVE AppendsInv(d)' /\ StageInv(d)'
    BY <1>0, <2>1 DEF PostTyped, AppendsInv, StageInv, Carried, Line
  <2>4. LinesInv' /\ BackedInv'
    BY <1>0, <2>1 DEF LinesInv, BackedInv, Line
  <2>5. ASSUME NEW ts \in 1..Len(posts)' \ blurred' PROVE FollowInv(ts)'
    <3>1. ts \in 1..Len(posts) \ blurred /\ FollowInv(ts) /\ request[c].ts # ts
      BY <1>0, <2>1
    <3>2. \A d \in PostCalls : request[d].ts = ts => (Busy(d)' <=> Busy(d)) /\ (Carried(d)' <=> Carried(d))
      BY <1>0, <2>1, <3>1 DEF PostTyped, Busy, Carried
    <3>3. LastSays(ts, posts[ts])' <=> LastSays(ts, posts[ts])
      BY <2>1 DEF LastSays
    <3>4. QED
      BY <2>1, <3>1, <3>2, <3>3 DEF FollowInv
  <2>6. QED
    BY <2>2, <2>3, <2>4, <2>5 DEF PostInv
<1>8. CASE RestartTools
  <2>1. /\ blurred' = blurred \cup {request[c].ts : c \in {k \in PostCalls : Carried(k)}}
        /\ callStage' = [c \in PostCalls |-> IF callStage[c] = "idle" THEN "idle" ELSE "ended"]
        /\ appends' = [c \in PostCalls |-> <<>>]
        /\ UNCHANGED <<posts, request, logOf, sentLog, said>>
    BY <1>8 DEF RestartTools, Carried, logs
  <2>2. PostTyped'
    BY <1>0, <2>1 DEF PostTyped, Senders
  <2>3. ASSUME NEW d \in PostCalls PROVE AppendsInv(d)' /\ StageInv(d)'
    BY <1>0, <2>1 DEF PostTyped, AppendsInv, StageInv, Carried, Line
  <2>4. LinesInv' /\ BackedInv'
    BY <1>0, <2>1 DEF LinesInv, BackedInv, Line
  <2>5. ASSUME NEW ts \in 1..Len(posts)' \ blurred' PROVE FollowInv(ts)'
    <3>1. ts \in 1..Len(posts) \ blurred /\ FollowInv(ts) /\ \A d \in PostCalls : Carried(d) => request[d].ts # ts
      BY <1>0, <2>1
    <3>2. \A d \in PostCalls : ~Busy(d)' /\ ~Carried(d)'
      BY <2>1 DEF Busy, Carried
    <3>3. LastSays(ts, posts[ts])' <=> LastSays(ts, posts[ts])
      BY <2>1 DEF LastSays
    <3>4. QED
      BY <2>1, <3>1, <3>2, <3>3 DEF FollowInv
  <2>6. QED
    BY <2>2, <2>3, <2>4, <2>5 DEF PostInv
<1>9. CASE UNCHANGED postVars
  <2>1. UNCHANGED <<posts, request, callStage, appends, logOf, sentLog, said, blurred>>
    BY <1>9 DEF postVars
  <2>2. PostTyped' /\ LinesInv' /\ BackedInv'
    BY <1>0, <2>1 DEF PostTyped, Senders, LinesInv, BackedInv, Line
  <2>3. \A c \in PostCalls : AppendsInv(c)' /\ StageInv(c)'
    BY <1>0, <2>1 DEF AppendsInv, StageInv, Carried, Line
  <2>4. \A ts \in 1..Len(posts)' \ blurred' : FollowInv(ts)'
    <3>1. \A d \in PostCalls : (Carried(d)' <=> Carried(d)) /\ (Busy(d)' <=> Busy(d))
      BY <2>1 DEF Busy, Carried
    <3>2. QED
      BY <1>0, <2>1, <3>1 DEF FollowInv, LastSays
  <2>5. QED
    BY <2>2, <2>3, <2>4 DEF PostInv
<1>10. QED
  BY <1>1, <1>2, <1>3, <1>4, <1>5, <1>6, <1>7, <1>8, <1>9 DEF PostNext

\* Every variable keeps its type, and the log of what the bot said in Slack is true,
\* backed and up to date, but for what the property names, for every set of calls,
\* through refusals, lost answers, failed appends and restarts.  (slack-comms.ts, slack-log.ts)
THEOREM LogFollows == PostSpec => [](PostTypeOK /\ LogMatchesSlack)
BY PostInvInit, PostInvStep, PostInvSuffices, PTL DEF PostSpec

-----------------------------------------------------------------------------
(* The threads agents start.                                               *)

\* What a call has come to is what its root, its run and its words have come to.
CallInv(x) ==
  /\ x \in roots => asked[x] \in {"create", "ok", "refused"}
  /\ x \in Creations /\ asked[x] = "ok" => spawned[x] # "none"
  /\ spawned[x] # "none" => asked[x] = "ok"
  /\ x \in heard => asked[x] \in {"record", "ok"}
  /\ (x \in heard /\ asked[x] = "ok") \/ spawned[x] \in {"working", "ended"} =>
       x \in words[PathOf[x]]

Started == {"upserted", "counted", "starting", "working"}

\* A call that went through found its thread or created it, and so did the creation
\* that was refused after its root was posted; a run past its start keeps the thread
\* from being stale.
ThreadInv(x) ==
  /\ pathStatus[PathOf[x]] = "none" =>
       /\ asked[x] # "ok" /\ (x \in roots => asked[x] # "refused")
       /\ x \in Sendings => asked[x] \notin {"post", "findRun", "record"}
  /\ spawned[x] \in Started => pathStatus[PathOf[x]] \in {"ACTIVE", "WAITING"}
  /\ spawned[x] = "working" => pathLock[PathOf[x]] = x
  /\ spawned[x] = "rejected" => Rival(x) \/ "busy" \in SpawnEvents

\* A thread is some creation's, and its lock that of a run at work on it.
PathInv(p) ==
  /\ pathStatus[p] # "none" => \E d \in Creations : PathOf[d] = p /\ asked[d] = "ok"
  /\ pathLock[p] # Nobody => PathOf[pathLock[p]] = p /\ spawned[pathLock[p]] = "working"

SpawnInv ==
  /\ SpawnTypeOK
  /\ \A x \in SpawnCalls : CallInv(x)
  /\ \A x \in SpawnCalls : ThreadInv(x)
  /\ \A p \in Paths : PathInv(p)

LEMMA PathsOfCalls == \A x \in SpawnCalls : PathOf[x] \in Paths
BY DEF Paths

LEMMA SpawnInvInit == SpawnInit => SpawnInv
<1> SUFFICES ASSUME SpawnInit PROVE SpawnInv
  OBVIOUS
<1> USE SpawnAssumption, PathsOfCalls DEF SpawnInit
<1>1. SpawnTypeOK
  BY DEF SpawnTypeOK
<1>2. \A x \in SpawnCalls : CallInv(x) /\ ThreadInv(x)
  BY DEF CallInv, ThreadInv, Started
<1>3. \A p \in Paths : PathInv(p)
  BY DEF PathInv
<1>4. QED
  BY <1>1, <1>2, <1>3 DEF SpawnInv

LEMMA SpawnInvSuffices == SpawnInv => SpawnTypeOK /\ SpawningIsAccountedFor
<1> SUFFICES ASSUME SpawnInv PROVE SpawnTypeOK /\ SpawningIsAccountedFor
  OBVIOUS
<1> USE PathsOfCalls DEF SpawnInv
<1>1. OrphanRootExplained
  <2> SUFFICES ASSUME NEW c \in roots, asked[c] = "refused"
               PROVE  \E d \in Creations \ {c} : PathOf[d] = PathOf[c] /\ asked[d] = "ok"
    BY DEF OrphanRootExplained
  <2>1. c \in SpawnCalls
    BY DEF SpawnTypeOK, SpawnCalls
  <2>2. pathStatus[PathOf[c]] # "none"
    BY <2>1 DEF ThreadInv
  <2>3. PICK d \in Creations : PathOf[d] = PathOf[c] /\ asked[d] = "ok"
    BY <2>1, <2>2 DEF PathInv
  <2>4. QED
    BY <2>3
<1>2. LostWordsExplained
  <2> SUFFICES ASSUME NEW x \in SpawnCalls, Told(x), x \notin words[PathOf[x]],
                      spawned[x] \notin RunStages
               PROVE  /\ x \notin heard
                      /\ \/ spawned[x] = "none" /\ x \in Sendings
                         \/ spawned[x] = "rejected" /\ (Rival(x) \/ "busy" \in SpawnEvents)
    BY DEF LostWordsExplained
  <2>1. CallInv(x) /\ ThreadInv(x)
    OBVIOUS
  <2>2. spawned[x] \in {"none", "rejected"} /\ x \notin heard
    BY <2>1 DEF CallInv, SpawnTypeOK, Told
  <2>3. QED
    BY <2>1, <2>2 DEF CallInv, ThreadInv, Told, SpawnCalls
<1>3. WorkingPathsAreListed
  BY DEF WorkingPathsAreListed, ThreadInv, Started, RunningPaths
<1>4. QED
  BY <1>1, <1>2, <1>3 DEF SpawningIsAccountedFor

\* Every step keeps the invariant.
LEMMA SpawnInvStep == SpawnInv /\ [SpawnNext]_spawnVars => SpawnInv'
<1> SUFFICES ASSUME SpawnInv, [SpawnNext]_spawnVars PROVE SpawnInv'
  OBVIOUS
<1> USE SpawnAssumption, PathsOfCalls
<1>0. /\ SpawnTypeOK
      /\ \A x \in SpawnCalls : CallInv(x) /\ ThreadInv(x)
      /\ \A p \in Paths : PathInv(p)
  BY DEF SpawnInv
<1>1. ASSUME NEW c \in Creations, FindPath(c) PROVE SpawnInv'
  <2>0. c \in SpawnCalls
    BY DEF SpawnCalls
  <2>1. SpawnTypeOK'
    BY <1>0, <1>1, <2>0 DEF FindPath, Ask, runState, waits, SpawnTypeOK, RunStages
  <2>2. ASSUME NEW y \in SpawnCalls PROVE CallInv(y)'
    BY <1>0, <1>1, <2>0 DEF FindPath, Ask, runState, waits, SpawnTypeOK, CallInv
  <2>3. ASSUME NEW y \in SpawnCalls PROVE ThreadInv(y)'
    BY <1>0, <1>1, <2>0 DEF FindPath, Ask, runState, waits, SpawnTypeOK, ThreadInv, CallInv,
           PathInv, Started, Rival
  <2>4. ASSUME NEW p \in Paths PROVE PathInv(p)'
    BY <1>0, <1>1, <2>0 DEF FindPath, Ask, runState, waits, SpawnTypeOK, ThreadInv, CallInv,
           PathInv, Started
  <2>5. QED
    BY <2>1, <2>2, <2>3, <2>4 DEF SpawnInv
<1>2. ASSUME NEW c \in Creations, PostRoot(c) PROVE SpawnInv'
  <2>0. c \in SpawnCalls
    BY DEF SpawnCalls
  <2>1. SpawnTypeOK'
    BY <1>0, <1>2, <2>0 DEF PostRoot, Ask, runState, waits, SpawnTypeOK, RunStages
  <2>2. ASSUME NEW y \in SpawnCalls PROVE CallInv(y)'
    BY <1>0, <1>2, <2>0 DEF PostRoot, Ask, runState, waits, SpawnTypeOK, CallInv
  <2>3. ASSUME NEW y \in SpawnCalls PROVE ThreadInv(y)'
    BY <1>0, <1>2, <2>0 DEF PostRoot, Ask, runState, waits, SpawnTypeOK, ThreadInv, CallInv,
           PathInv, Started, Rival
  <2>4. ASSUME NEW p \in Paths PROVE PathInv(p)'
    BY <1>0, <1>2, <2>0 DEF PostRoot, Ask, runState, waits, SpawnTypeOK, ThreadInv, CallInv,
           PathInv, Started
  <2>5. QED
    BY <2>1, <2>2, <2>3, <2>4 DEF SpawnInv
<1>3. ASSUME NEW x \in SpawnCalls, PostFails(x) PROVE SpawnInv'
  <2>1. SpawnTypeOK'
    BY <1>0, <1>3 DEF PostFails, Ask, runState, waits, SpawnTypeOK, RunStages
  <2>2. ASSUME NEW y \in SpawnCalls PROVE CallInv(y)'
    BY <1>0, <1>3 DEF PostFails, Ask, runState, waits, SpawnTypeOK, CallInv
  <2>3. ASSUME NEW y \in SpawnCalls PROVE ThreadInv(y)'
    BY <1>0, <1>3 DEF PostFails, Ask, runState, waits, SpawnTypeOK, ThreadInv, CallInv, PathInv,
           Started, Rival
  <2>4. ASSUME NEW p \in Paths PROVE PathInv(p)'
    BY <1>0, <1>3 DEF PostFails, Ask, runState, waits, SpawnTypeOK, ThreadInv, CallInv, PathInv,
           Started
  <2>5. QED
    BY <2>1, <2>2, <2>3, <2>4 DEF SpawnInv
<1>4. ASSUME NEW c \in Creations, CreateThread(c) PROVE SpawnInv'
  <2>0. c \in SpawnCalls
    BY DEF SpawnCalls
  <2>1. SpawnTypeOK'
    BY <1>0, <1>4, <2>0 DEF CreateThread, Ask, waits, SpawnTypeOK, RunStages
  <2>2. ASSUME NEW y \in SpawnCalls PROVE CallInv(y)'
    BY <1>0, <1>4, <2>0 DEF CreateThread, Ask, waits, SpawnTypeOK, CallInv
  <2>3. ASSUME NEW y \in SpawnCalls PROVE ThreadInv(y)'
    BY <1>0, <1>4, <2>0 DEF CreateThread, Ask, waits, SpawnTypeOK, ThreadInv, CallInv, PathInv,
           Started, Rival
  <2>4. ASSUME NEW p \in Paths PROVE PathInv(p)'
    BY <1>0, <1>4, <2>0 DEF CreateThread, Ask, waits, SpawnTypeOK, ThreadInv, CallInv, PathInv,
           Started
  <2>5. QED
    BY <2>1, <2>2, <2>3, <2>4 DEF SpawnInv
<1>5. ASSUME NEW c \in Creations, RefusePath(c) PROVE SpawnInv'
  <2>0. c \in SpawnCalls
    BY DEF SpawnCalls
  <2>1. SpawnTypeOK'
    BY <1>0, <1>5, <2>0 DEF RefusePath, Ask, runState, waits, SpawnTypeOK, RunStages
  <2>2. ASSUME NEW y \in SpawnCalls PROVE CallInv(y)'
    BY <1>0, <1>5, <2>0 DEF RefusePath, Ask, runState, waits, SpawnTypeOK, CallInv
  <2>3. ASSUME NEW y \in SpawnCalls PROVE ThreadInv(y)'
    BY <1>0, <1>5, <2>0 DEF RefusePath, Ask, runState, waits, SpawnTypeOK, ThreadInv, CallInv,
           PathInv, Started, Rival
  <2>4. ASSUME NEW p \in Paths PROVE PathInv(p)'
    BY <1>0, <1>5, <2>0 DEF RefusePath, Ask, runState, waits, SpawnTypeOK, ThreadInv, CallInv,
           PathInv, Started
  <2>5. QED
    BY <2>1, <2>2, <2>3, <2>4 DEF SpawnInv
<1>6. ASSUME NEW s \in Sendings, FindThread(s) PROVE SpawnInv'
  <2>0. s \in SpawnCalls
    BY DEF SpawnCalls
  <2>1. SpawnTypeOK'
    BY <1>0, <1>6, <2>0 DEF FindThread, Ask, runState, waits, SpawnTypeOK, RunStages
  <2>2. ASSUME NEW y \in SpawnCalls PROVE CallInv(y)'
    BY <1>0, <1>6, <2>0 DEF FindThread, Ask, runState, waits, SpawnTypeOK, CallInv
  <2>3. ASSUME NEW y \in SpawnCalls PROVE ThreadInv(y)'
    BY <1>0, <1>6, <2>0 DEF FindThread, Ask, runState, waits, SpawnTypeOK, ThreadInv, CallInv,
           PathInv, Started, Rival
  <2>4. ASSUME NEW p \in Paths PROVE PathInv(p)'
    BY <1>0, <1>6, <2>0 DEF FindThread, Ask, runState, waits, SpawnTypeOK, ThreadInv, CallInv,
           PathInv, Started
  <2>5. QED
    BY <2>1, <2>2, <2>3, <2>4 DEF SpawnInv
<1>7. ASSUME NEW s \in Sendings, PostMessage(s) \/ FindLatestRun(s) PROVE SpawnInv'
  <2>0. s \in SpawnCalls
    BY DEF SpawnCalls
  <2>1. SpawnTypeOK'
    BY <1>0, <1>7, <2>0 DEF PostMessage, FindLatestRun, Ask, runState, waits, SpawnTypeOK, RunStages
  <2>2. ASSUME NEW y \in SpawnCalls PROVE CallInv(y)'
    BY <1>0, <1>7, <2>0 DEF PostMessage, FindLatestRun, Ask, runState, waits, SpawnTypeOK, CallInv
  <2>3. ASSUME NEW y \in SpawnCalls PROVE ThreadInv(y)'
    BY <1>0, <1>7, <2>0 DEF PostMessage, FindLatestRun, Ask, runState, waits, SpawnTypeOK,
           ThreadInv, CallInv, PathInv, Started, Rival
  <2>4. ASSUME NEW p \in Paths PROVE PathInv(p)'
    <3>1. /\ UNCHANGED <<pathStatus, pathLock, spawned>>
          /\ \A d \in SpawnCalls : asked[d] = "ok" => asked'[d] = "ok"
      BY <1>0, <1>7, <2>0 DEF PostMessage, FindLatestRun, Ask, runState, SpawnTypeOK
    <3>2. QED
      BY <1>0, <3>1 DEF PathInv, SpawnCalls
  <2>5. QED
    BY <2>1, <2>2, <2>3, <2>4 DEF SpawnInv
<1>8. ASSUME NEW s \in Sendings, NEW triggerReply \in BOOLEAN, RecordAndWake(s, triggerReply) PROVE SpawnInv'
  <2>0. s \in SpawnCalls
    BY DEF SpawnCalls
  <2>1. SpawnTypeOK'
    BY <1>0, <1>8, <2>0 DEF RecordAndWake, Ask, waits, SpawnTypeOK, RunStages
  <2>2. ASSUME NEW y \in SpawnCalls PROVE CallInv(y)'
    BY <1>0, <1>8, <2>0 DEF RecordAndWake, Ask, waits, SpawnTypeOK, CallInv
  <2>3. ASSUME NEW y \in SpawnCalls PROVE ThreadInv(y)'
    BY <1>0, <1>8, <2>0 DEF RecordAndWake, Ask, waits, SpawnTypeOK, ThreadInv, CallInv, PathInv,
           Started, Rival
  <2>4. ASSUME NEW p \in Paths PROVE PathInv(p)'
    BY <1>0, <1>8, <2>0 DEF RecordAndWake, Ask, waits, SpawnTypeOK, ThreadInv, CallInv, PathInv,
           Started
  <2>5. QED
    BY <2>1, <2>2, <2>3, <2>4 DEF SpawnInv
<1>9. ASSUME NEW x \in SpawnCalls, UpsertActive(x) PROVE SpawnInv'
  <2>1. SpawnTypeOK'
    BY <1>0, <1>9 DEF UpsertActive, RunOf, waits, SpawnTypeOK, RunStages
  <2>2. ASSUME NEW y \in SpawnCalls PROVE CallInv(y)'
    BY <1>0, <1>9 DEF UpsertActive, RunOf, waits, SpawnTypeOK, CallInv
  <2>3. ASSUME NEW y \in SpawnCalls PROVE ThreadInv(y)'
    BY <1>0, <1>9 DEF UpsertActive, RunOf, waits, SpawnTypeOK, ThreadInv, CallInv, PathInv,
           Started, Rival
  <2>4. ASSUME NEW p \in Paths PROVE PathInv(p)'
    <3>0. asked[x] = "ok"
      BY <1>0, <1>9 DEF UpsertActive, RunOf, CallInv
    <3>5. pathStatus[PathOf[x]] # "none"
      BY <1>0, <3>0 DEF ThreadInv
    <3>6. /\ asked' = asked /\ pathLock' = pathLock
          /\ pathStatus' = [pathStatus EXCEPT ![PathOf[x]] = "ACTIVE"]
      BY <1>9 DEF UpsertActive
    <3>1. /\ asked' = asked /\ pathLock' = pathLock
          /\ pathStatus'[p] # "none" => pathStatus[p] # "none"
      BY <1>0, <3>5, <3>6 DEF SpawnTypeOK
    <3>4. \A y \in SpawnCalls : spawned[y] = "working" => spawned'[y] = "working"
      BY <1>0, <1>9 DEF UpsertActive, RunOf, SpawnTypeOK
    <3>2. pathLock[p] # Nobody => pathLock[p] \in SpawnCalls
      BY <1>0 DEF SpawnTypeOK
    <3>3. QED
      BY <1>0, <3>1, <3>2, <3>4 DEF PathInv
  <2>5. QED
    BY <2>1, <2>2, <2>3, <2>4 DEF SpawnInv
<1>10. ASSUME NEW x \in SpawnCalls, CheckLock(x) PROVE SpawnInv'
  <2>1. SpawnTypeOK'
    BY <1>0, <1>10 DEF CheckLock, RunOf, waits, SpawnTypeOK, RunStages
  <2>2. ASSUME NEW y \in SpawnCalls PROVE CallInv(y)'
    BY <1>0, <1>10 DEF CheckLock, RunOf, waits, SpawnTypeOK, CallInv
  <2>3. ASSUME NEW y \in SpawnCalls PROVE ThreadInv(y)'
    BY <1>0, <1>10 DEF CheckLock, RunOf, waits, SpawnTypeOK, ThreadInv, CallInv, PathInv,
           Started, Rival
  <2>4. ASSUME NEW p \in Paths PROVE PathInv(p)'
    BY <1>0, <1>10 DEF CheckLock, RunOf, waits, SpawnTypeOK, ThreadInv, CallInv, PathInv, Started
  <2>5. QED
    BY <2>1, <2>2, <2>3, <2>4 DEF SpawnInv
<1>11. ASSUME NEW x \in SpawnCalls, CreateRun(x) PROVE SpawnInv'
  <2>1. SpawnTypeOK'
    BY <1>0, <1>11 DEF CreateRun, RunOf, waits, SpawnTypeOK, RunStages
  <2>2. ASSUME NEW y \in SpawnCalls PROVE CallInv(y)'
    BY <1>0, <1>11 DEF CreateRun, RunOf, waits, SpawnTypeOK, CallInv
  <2>3. ASSUME NEW y \in SpawnCalls PROVE ThreadInv(y)'
    BY <1>0, <1>11 DEF CreateRun, RunOf, waits, SpawnTypeOK, ThreadInv, CallInv, PathInv,
           Started, Rival
  <2>4. ASSUME NEW p \in Paths PROVE PathInv(p)'
    BY <1>0, <1>11 DEF CreateRun, RunOf, waits, SpawnTypeOK, ThreadInv, CallInv, PathInv, Started
  <2>5. QED
    BY <2>1, <2>2, <2>3, <2>4 DEF SpawnInv
<1>12. ASSUME NEW x \in SpawnCalls, TakeLock(x) PROVE SpawnInv'
  <2>1. SpawnTypeOK'
    BY <1>0, <1>12 DEF TakeLock, RunOf, waits, SpawnTypeOK, RunStages
  <2>2. ASSUME NEW y \in SpawnCalls PROVE CallInv(y)'
    BY <1>0, <1>12 DEF TakeLock, RunOf, waits, SpawnTypeOK, CallInv
  <2>3. ASSUME NEW y \in SpawnCalls PROVE ThreadInv(y)'
    <3>1. /\ UNCHANGED <<asked, roots, pathStatus>> /\ spawned[x] = "starting"
          /\ spawned' = [spawned EXCEPT ![x] = "working"] /\ pathLock[PathOf[x]] = Nobody
          /\ pathLock' = [pathLock EXCEPT ![PathOf[x]] = x]
      BY <1>12 DEF TakeLock, RunOf
    <3>2. /\ spawned'[y] \in Started => spawned[y] \in Started
          /\ spawned'[y] = "rejected" => spawned[y] = "rejected"
          /\ Rival(y) => Rival(y)'
      BY <1>0, <3>1 DEF SpawnTypeOK, Started, Rival
    <3>3. spawned'[y] = "working" => pathLock'[PathOf[y]] = y
      <4>1. CASE y = x
        BY <1>0, <3>1, <4>1 DEF SpawnTypeOK
      <4>2. CASE y # x
        BY <1>0, <3>1, <4>2 DEF SpawnTypeOK, ThreadInv, Nobody
      <4>3. QED
        BY <4>1, <4>2
    <3>4. QED
      BY <1>0, <3>1, <3>2, <3>3 DEF ThreadInv
  <2>4. ASSUME NEW p \in Paths PROVE PathInv(p)'
    BY <1>0, <1>12 DEF TakeLock, RunOf, waits, SpawnTypeOK, ThreadInv, CallInv, PathInv, Started
  <2>5. QED
    BY <2>1, <2>2, <2>3, <2>4 DEF SpawnInv
<1>13. ASSUME NEW x \in SpawnCalls, LoseLock(x) PROVE SpawnInv'
  <2>1. SpawnTypeOK'
    BY <1>0, <1>13 DEF LoseLock, RunOf, waits, SpawnTypeOK, RunStages
  <2>2. ASSUME NEW y \in SpawnCalls PROVE CallInv(y)'
    BY <1>0, <1>13 DEF LoseLock, RunOf, waits, SpawnTypeOK, CallInv
  <2>3. ASSUME NEW y \in SpawnCalls PROVE ThreadInv(y)'
    BY <1>0, <1>13 DEF LoseLock, RunOf, waits, SpawnTypeOK, ThreadInv, CallInv, PathInv, Started,
           Rival
  <2>4. ASSUME NEW p \in Paths PROVE PathInv(p)'
    BY <1>0, <1>13 DEF LoseLock, RunOf, waits, SpawnTypeOK, ThreadInv, CallInv, PathInv, Started
  <2>5. QED
    BY <2>1, <2>2, <2>3, <2>4 DEF SpawnInv
<1>14. ASSUME NEW x \in SpawnCalls, EndOfRun(x) PROVE SpawnInv'
  <2>1. SpawnTypeOK'
    BY <1>0, <1>14 DEF EndOfRun, RunOf, waits, SpawnTypeOK, RunStages
  <2>2. ASSUME NEW y \in SpawnCalls PROVE CallInv(y)'
    BY <1>0, <1>14 DEF EndOfRun, RunOf, waits, SpawnTypeOK, CallInv
  <2>3. ASSUME NEW y \in SpawnCalls PROVE ThreadInv(y)'
    BY <1>0, <1>14 DEF EndOfRun, RunOf, waits, SpawnTypeOK, ThreadInv, CallInv, PathInv, Started,
           Rival
  <2>4. ASSUME NEW p \in Paths PROVE PathInv(p)'
    BY <1>0, <1>14 DEF EndOfRun, RunOf, waits, SpawnTypeOK, ThreadInv, CallInv, PathInv, Started
  <2>5. QED
    BY <2>1, <2>2, <2>3, <2>4 DEF SpawnInv
<1>15. ASSUME NEW q \in Paths, GoStale(q) PROVE SpawnInv'
  <2>1. SpawnTypeOK'
    BY <1>0, <1>15 DEF GoStale, waits, SpawnTypeOK, RunStages
  <2>2. ASSUME NEW y \in SpawnCalls PROVE CallInv(y)'
    BY <1>0, <1>15 DEF GoStale, waits, SpawnTypeOK, CallInv
  <2>3. ASSUME NEW y \in SpawnCalls PROVE ThreadInv(y)'
    <3>1. /\ UNCHANGED <<asked, roots, spawned, pathLock>>
          /\ pathStatus'[PathOf[y]] # pathStatus[PathOf[y]] => PathOf[y] = q
          /\ pathStatus'[PathOf[y]] = "none" => pathStatus[PathOf[y]] = "none"
      BY <1>0, <1>15 DEF GoStale, SpawnTypeOK
    <3>2. PathOf[y] = q => spawned[y] \notin Started
      BY <1>15 DEF GoStale, Unfinished, RunStages, Started
    <3>3. Rival(y)' <=> Rival(y)
      BY <3>1 DEF Rival
    <3>4. QED
      BY <1>0, <3>1, <3>2, <3>3 DEF ThreadInv
  <2>4. ASSUME NEW p \in Paths PROVE PathInv(p)'
    BY <1>0, <1>15 DEF GoStale, waits, SpawnTypeOK, ThreadInv, CallInv, PathInv, Started
  <2>5. QED
    BY <2>1, <2>2, <2>3, <2>4 DEF SpawnInv
<1>16. ASSUME NEW w \in Waits, PollPaths(w) \/ WaitTimesOut(w) PROVE SpawnInv'
  <2>1. UNCHANGED <<asked, roots, pathStatus, spawned, pathLock, runRows, heard, words>>
    BY <1>16 DEF PollPaths, WaitTimesOut, runState
  <2>2. SpawnTypeOK'
    BY <1>0, <1>16, <2>1 DEF PollPaths, WaitTimesOut, SpawnTypeOK
  <2>3. QED
    BY <1>0, <2>1, <2>2 DEF SpawnInv, CallInv, ThreadInv, PathInv, Rival
<1>17. CASE UNCHANGED spawnVars
  BY <1>0, <1>17 DEF spawnVars, SpawnInv, SpawnTypeOK, CallInv, ThreadInv, PathInv, Rival
<1>18. ASSUME NEW s \in Sendings, PostFails(s) PROVE SpawnInv'
  BY <1>3, <1>18 DEF SpawnCalls
<1>19. ASSUME NEW c \in Creations, PostFails(c) PROVE SpawnInv'
  BY <1>3, <1>19 DEF SpawnCalls
<1>20. QED
  BY <1>1, <1>2, <1>3, <1>4, <1>5, <1>6, <1>7, <1>8, <1>9, <1>10, <1>11, <1>12, <1>13, <1>14,
     <1>15, <1>16, <1>17, <1>18, <1>19 DEF SpawnNext, SpawnedStep

\* Every variable keeps its type, and what was posted, told and started in a thread is
\* accounted for, for every set of calls, however they and the runs they start
\* interleave.  (thread-orchestration.ts, index.ts spawnAgentRun)
THEOREM SpawnsAccountedFor == SpawnSpec => [](SpawnTypeOK /\ SpawningIsAccountedFor)
BY SpawnInvInit, SpawnInvStep, SpawnInvSuffices, PTL DEF SpawnSpec

\* A wait that returns in time has found its paths untouched by any run past its
\* start.  (thread-orchestration.ts wait_for_paths)
THEOREM WaitsReturn == SpawnSpec => WaitReturnsInTime
<1>1. SpawnInv /\ [SpawnNext]_spawnVars =>
        [\A w \in Waits : waiting[w] = "polling" /\ waiting'[w] = "returned" =>
           \A p \in PathsOf[w] : \A x \in Unfinished(p) : spawned[x] = "requested"]_spawnVars
  <2> SUFFICES ASSUME SpawnInv, SpawnNext, NEW w \in Waits, waiting[w] = "polling",
                      waiting'[w] = "returned", NEW p \in PathsOf[w], NEW x \in Unfinished(p)
               PROVE  spawned[x] = "requested"
    BY DEF spawnVars
  <2>1. waiting' # waiting
    OBVIOUS
  <2>2. \E v \in Waits : PollPaths(v) \/ WaitTimesOut(v)
    BY <2>1 DEF SpawnNext, SpawnedStep, FindPath, PostRoot, PostFails, CreateThread, RefusePath,
           FindThread, PostMessage, FindLatestRun, RecordAndWake, UpsertActive, CheckLock,
           CreateRun, TakeLock, LoseLock, EndOfRun, GoStale, waits
  <2>3. p \in Paths /\ CountsAsCompleted(p)
    BY <2>2, SpawnAssumption DEF PollPaths, WaitTimesOut, SpawnInv, SpawnTypeOK
  <2>4. pathStatus[p] = "STALE"
    BY <2>3 DEF CountsAsCompleted, SpawnInv, SpawnTypeOK
  <2>5. x \in SpawnCalls /\ PathOf[x] = p /\ spawned[x] \in RunStages
    BY DEF Unfinished
  <2>6. spawned[x] \notin Started
    BY <2>4, <2>5 DEF SpawnInv, ThreadInv
  <2>7. QED
    BY <2>5, <2>6 DEF RunStages, Started
<1>2. QED
  BY <1>1, SpawnInvInit, SpawnInvStep, PTL DEF SpawnSpec, WaitReturnsInTime
=============================================================================
