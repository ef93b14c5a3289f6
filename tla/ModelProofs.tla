---------------------------- MODULE ModelProofs -----------------------------
(***************************************************************************)
(* Theorems about the model's side of the agent: the conversation that is  *)
(* sent, the calls of the model, the month's budget, and all that lies     *)
(* between Slack and the agent as MCSlack composes it, for every size of   *)
(* the window, every model and every workspace, cost and budget.           *)
(***************************************************************************)
EXTENDS MCSlack, SlackProofs, FunctionTheorems

-----------------------------------------------------------------------------
(* The request an agent run makes.                                         *)

ToolIds     == Nat \X Nat
ToolResults == [id : ToolIds, long : BOOLEAN]
TalkTurns   == [role : {"user", "assistant"}, text : BOOLEAN, calls : Seq(ToolIds),
                results : Seq(ToolResults), injected : BOOLEAN]
Messages    == [role : {"user", "assistant"}, text : BOOLEAN]

\* A turn with calls holds no results; the one after it holds theirs.
PairInv(turns) ==
  \A n \in 1..Len(turns) : turns[n].calls # <<>> =>
    /\ turns[n].results = <<>>
    /\ n + 1 \in 1..Len(turns)
    /\ Len(turns[n + 1].results) = Len(turns[n].calls)
    /\ \A k \in 1..Len(turns[n].calls) : turns[n + 1].results[k].id = turns[n].calls[k]

TalkInv ==
  /\ past \in Seq(Messages) /\ talk \in Seq(TalkTurns)
  /\ Len(past) <= HistoryBound
  /\ summarized \in 0..HistoryBound /\ covered \in 0..HistoryBound
  /\ talkAt \in {"idle", "chat", "retry"} /\ toolRound \in 0..MaxToolRounds
  /\ talkAt # "idle" => Len(past) + 1 <= HistoryBound
  /\ PairInv(talk)
  /\ ForgottenIsBounded
-----------------------------------------------------------------------------
LEMMA Sizes ==
  /\ WindowSize \in Nat /\ Resummarize \in Nat /\ MaxToolRounds \in Nat /\ HistoryBound \in Nat
  /\ Resummarize > 0
BY ConversationAssumption

LEMMA WindowOfMessages ==
  ASSUME NEW messages \in Seq(Messages)
  PROVE  /\ Older(messages) \in Nat /\ Older(messages) <= Len(messages)
         /\ Window(messages) \in Seq(TalkTurns) /\ PairInv(Window(messages))
         /\ Len(Window(messages)) <= WindowSize
<1> DEFINE before == Older(messages)
           size   == Len(messages) - before
<1>1. /\ before \in Nat /\ before <= Len(messages) /\ size \in Nat /\ size <= WindowSize
  BY ConversationAssumption DEF Older
<1> DEFINE Shown(n) == Turn(messages[before + n].role, messages[before + n].text, <<>>, <<>>, FALSE)
<1>2. ASSUME NEW n \in 1..size
      PROVE  Shown(n) \in TalkTurns /\ Shown(n).calls = <<>>
  <2>1. messages[before + n] \in Messages
    BY <1>1
  <2>2. messages[before + n].role \in {"user", "assistant"} /\ messages[before + n].text \in BOOLEAN
    BY <2>1, Zenon DEF Messages
  <2>3. <<>> \in Seq(ToolIds) /\ <<>> \in Seq(ToolResults) /\ FALSE \in BOOLEAN
    OBVIOUS
  <2>4. Shown(n) \in TalkTurns
    BY <2>2, <2>3, Zenon DEF Turn, TalkTurns
  <2>5. Shown(n).calls = <<>>
    BY DEF Turn
  <2>6. QED
    BY <2>4, <2>5
<1>3. Window(messages) = [n \in 1..size |-> Shown(n)]
  BY DEF Window
<1> HIDE DEF before, size, Shown
<1>4. /\ Window(messages) \in Seq(TalkTurns) /\ Len(Window(messages)) = size
      /\ \A n \in 1..size : Window(messages)[n].calls = <<>>
  BY <1>1, <1>2, <1>3
<1>5. PairInv(Window(messages))
  BY <1>4 DEF PairInv
<1>6. QED
  BY <1>1, <1>4, <1>5 DEF before

LEMMA TalkInvInit == ConversationInit => TalkInv
BY ConversationAssumption DEF ConversationInit, TalkInv, PairInv, ForgottenIsBounded

LEMMA TalkInvSuffices == TalkInv => ConversationTypeOK /\ RequestsAreComplete
<1> SUFFICES ASSUME TalkInv PROVE ConversationTypeOK /\ RequestsAreComplete
  OBVIOUS
<1>1. ASSUME NEW n \in 1..Len(talk) PROVE talk[n] \in TalkTurns
  BY DEF TalkInv
<1>2. ConversationTypeOK
  <2>1. ASSUME NEW n \in 1..Len(talk) PROVE talk[n].role \in {"user", "assistant"}
    BY <1>1 DEF TalkTurns
  <2>2. QED
    BY <2>1 DEF TalkInv, ConversationTypeOK, Messages
<1>3. ASSUME NEW n \in 1..Len(talk), talk[n].calls # <<>>
      PROVE  /\ n < Len(talk) /\ GeminiNames(talk, n + 1) = talk[n].calls
             /\ Len(OpenAIMessages(talk[n])) = 1
             /\ ~talk[n + 1].injected =>
                  /\ Len(OpenAIMessages(talk[n + 1])) >= Len(talk[n].calls)
                  /\ \A k \in 1..Len(talk[n].calls) :
                       OpenAIMessages(talk[n + 1])[k].answers = <<talk[n].calls[k]>>
  <2> DEFINE calls   == talk[n].calls
             results == talk[n + 1].results
  <2>1. /\ talk[n].results = <<>> /\ n + 1 \in 1..Len(talk) /\ Len(results) = Len(calls)
        /\ \A k \in 1..Len(calls) : results[k].id = calls[k]
    BY <1>3 DEF TalkInv, PairInv
  <2>2. calls \in Seq(ToolIds) /\ results \in Seq(ToolResults)
    <3>1. talk[n] \in TalkTurns /\ talk[n + 1] \in TalkTurns
      BY <1>1, <2>1
    <3>2. QED
      BY <3>1, Zenon DEF TalkTurns
  <2>3. Len(calls) \in Nat /\ Len(calls) > 0 /\ results # <<>> /\ Len(talk) \in Nat
    BY <1>3, <2>1, <2>2 DEF TalkInv
  <2>4. n < Len(talk)
    BY <2>1, <2>3
  <2>5. GeminiNames(talk, n + 1) = calls
    <3>1. \A k \in 1..Len(calls) : calls[k] \in KnownCalls(talk)
      BY DEF KnownCalls
    <3>2. GeminiNames(talk, n + 1) = [k \in 1..Len(calls) |-> calls[k]]
      BY <2>1, <3>1 DEF GeminiNames
    <3>3. QED
      BY <2>2, <3>2
  <2>6. Len(OpenAIMessages(talk[n])) = 1
    BY <2>1 DEF OpenAIMessages
  <2>7. ASSUME ~talk[n + 1].injected
        PROVE  OpenAIMessages(talk[n + 1]) =
                 [k \in 1..Len(calls) |-> [role |-> "tool", calls |-> <<>>, answers |-> <<calls[k]>>]]
    <3> DEFINE wire == [k \in 1..Len(results) |->
                          [role |-> "tool", calls |-> <<>>, answers |-> <<results[k].id>>]]
    <3>1. OpenAIMessages(talk[n + 1]) = <<>> \o wire
      BY <2>3, <2>7 DEF OpenAIMessages
    <3>2. wire = [k \in 1..Len(calls) |-> [role |-> "tool", calls |-> <<>>, answers |-> <<calls[k]>>]]
      BY <2>1
    <3> DEFINE Wires == {[role |-> "tool", calls |-> <<>>, answers |-> <<id>>] : id \in ToolIds}
    <3>3. wire \in Seq(Wires)
      <4>1. ASSUME NEW k \in 1..Len(calls)
            PROVE  [role |-> "tool", calls |-> <<>>, answers |-> <<calls[k]>>] \in Wires
        <5>1. calls[k] \in ToolIds
          BY <2>2
        <5>2. QED
          BY <5>1
      <4> HIDE DEF Wires, wire
      <4>2. wire \in [1..Len(calls) -> Wires]
        BY <3>2, <4>1
      <4>3. QED
        BY <2>3, <4>2
    <3> HIDE DEF wire, Wires
    <3>4. <<>> \o wire = wire
      BY <3>3
    <3>5. QED
      BY <3>1, <3>2, <3>4
  <2>8. ASSUME ~talk[n + 1].injected
        PROVE  /\ Len(OpenAIMessages(talk[n + 1])) >= Len(calls)
               /\ \A k \in 1..Len(calls) : OpenAIMessages(talk[n + 1])[k].answers = <<calls[k]>>
    BY <2>3, <2>7, <2>8
  <2>9. QED
    BY <2>4, <2>5, <2>6, <2>8
<1>4. AnswersFollowCalls
  BY <1>3, Zenon DEF AnswersFollowCalls
<1>5. QED
  BY <1>2, <1>4 DEF TalkInv, RequestsAreComplete
-----------------------------------------------------------------------------
\* The message of the prompt and the one that concludes a run are messages.
LEMMA SaidIsMessage ==
  ASSUME NEW role \in {"user", "assistant"}, NEW hasText \in BOOLEAN
  PROVE  Said(role, hasText) \in Messages
BY Zenon DEF Said, Messages

LEMMA BeginTalkKeeps ==
  ASSUME TalkInv, NEW messages, BeginTalk(messages)
  PROVE  /\ past' \in Seq(Messages) /\ talk' \in Seq(TalkTurns) /\ PairInv(talk')
         /\ past' = messages /\ Older(messages) \in 0..HistoryBound
         /\ Len(past') + 1 <= HistoryBound /\ Len(past') \in Nat
         /\ talkAt' = "chat" /\ toolRound' = 0
         /\ Len(Window(messages)) <= WindowSize
<1>0. messages = Append(past, Said("user", TRUE))
  BY DEF BeginTalk
<1>1. /\ Len(past) + 2 <= HistoryBound
      /\ past' = messages /\ talk' = Window(messages) /\ talkAt' = "chat" /\ toolRound' = 0
  BY DEF BeginTalk
<1>2. past \in Seq(Messages) /\ Said("user", TRUE) \in Messages
  BY SaidIsMessage DEF TalkInv
<1>3. messages \in Seq(Messages) /\ Len(messages) = Len(past) + 1 /\ Len(past) \in Nat
  <2> DEFINE prompted == Said("user", TRUE)
  <2>1. messages = Append(past, prompted) /\ prompted \in Messages /\ past \in Seq(Messages)
    BY <1>0, <1>2
  <2> HIDE DEF prompted
  <2>2. QED
    BY <2>1
<1>4. /\ Older(messages) \in Nat /\ Older(messages) <= Len(messages)
      /\ Window(messages) \in Seq(TalkTurns) /\ PairInv(Window(messages))
      /\ Len(Window(messages)) <= WindowSize
  BY <1>3, WindowOfMessages
<1>5. Older(messages) \in 0..HistoryBound /\ Len(messages) + 1 <= HistoryBound
  BY <1>1, <1>3, <1>4, Sizes
<1>6. talk' \in Seq(TalkTurns) /\ PairInv(talk')
  BY <1>1, <1>4
<1>7. QED
  BY <1>1, <1>3, <1>4, <1>5, <1>6

LEMMA ConcludeKeeps ==
  ASSUME TalkInv, talkAt # "idle", NEW hasText \in BOOLEAN, Conclude(hasText) PROVE TalkInv'
<1>1. /\ past' = Append(past, Said("assistant", hasText)) /\ talk' = <<>> /\ talkAt' = "idle"
      /\ covered' = 0 /\ summarized' = summarized /\ toolRound' = toolRound
  BY DEF Conclude
<1>2. past \in Seq(Messages) /\ Len(past) + 1 <= HistoryBound
      /\ Said("assistant", hasText) \in Messages
  BY SaidIsMessage DEF TalkInv
<1>3. past' \in Seq(Messages) /\ Len(past') <= HistoryBound
  BY <1>1, <1>2
<1>4. talk' \in Seq(TalkTurns) /\ PairInv(talk)' /\ 0 \in 0..HistoryBound
  BY <1>1, ConversationAssumption DEF PairInv
<1>5. summarized' \in 0..HistoryBound /\ toolRound' \in 0..MaxToolRounds
  BY <1>1 DEF TalkInv
<1>6. QED
  BY <1>1, <1>3, <1>4, <1>5 DEF TalkInv, ForgottenIsBounded

\* A round appends a turn with calls and the turn that answers them.
LEMMA RoundKeepsPairs ==
  ASSUME NEW turns \in Seq(TalkTurns), PairInv(turns),
         NEW asks \in TalkTurns, NEW gets \in TalkTurns,
         asks.results = <<>>, gets.calls = <<>>, Len(gets.results) = Len(asks.calls),
         \A k \in 1..Len(asks.calls) : gets.results[k].id = asks.calls[k]
  PROVE  turns \o <<asks, gets>> \in Seq(TalkTurns) /\ PairInv(turns \o <<asks, gets>>)
<1> DEFINE longer == turns \o <<asks, gets>>
<1>1. /\ longer \in Seq(TalkTurns) /\ Len(longer) = Len(turns) + 2 /\ Len(turns) \in Nat
      /\ \A n \in 1..Len(turns) : longer[n] = turns[n]
      /\ longer[Len(turns) + 1] = asks /\ longer[Len(turns) + 2] = gets
  OBVIOUS
<1> HIDE DEF longer
<1>2. ASSUME NEW n \in 1..Len(longer), longer[n].calls # <<>>
      PROVE  /\ longer[n].results = <<>>
             /\ n + 1 \in 1..Len(longer)
             /\ Len(longer[n + 1].results) = Len(longer[n].calls)
             /\ \A k \in 1..Len(longer[n].calls) : longer[n + 1].results[k].id = longer[n].calls[k]
  <2>1. CASE n \in 1..Len(turns)
    <3>1. /\ turns[n].calls # <<>> /\ longer[n] = turns[n]
      BY <1>1, <1>2, <2>1
    <3>2. n + 1 \in 1..Len(turns)
      BY <2>1, <3>1 DEF PairInv
    <3>3. longer[n + 1] = turns[n + 1]
      BY <1>1, <3>2
    <3>4. /\ turns[n].results = <<>> /\ Len(turns[n + 1].results) = Len(turns[n].calls)
          /\ \A k \in 1..Len(turns[n].calls) : turns[n + 1].results[k].id = turns[n].calls[k]
      BY <2>1, <3>1 DEF PairInv
    <3>5. n + 1 \in 1..Len(longer)
      BY <1>1, <3>2
    <3>6. QED
      BY <3>1, <3>3, <3>4, <3>5
  <2>2. CASE n = Len(turns) + 1
    <3>1. longer[n] = asks /\ longer[n + 1] = gets /\ n + 1 \in 1..Len(longer)
      BY <1>1, <2>2
    <3>2. QED
      BY <3>1
  <2>3. CASE n = Len(turns) + 2
    BY <1>1, <1>2, <2>3
  <2>4. QED
    BY <1>1, <2>1, <2>2, <2>3
<1>3. QED
  BY <1>1, <1>2 DEF longer, PairInv

\* Compression keeps the calls and whose results there are, and the last two turns.
LEMMA CompressionKeepsPairs ==
  ASSUME NEW turns \in Seq(TalkTurns), PairInv(turns)
  PROVE  /\ Compressed(turns) \in Seq(TalkTurns) /\ PairInv(Compressed(turns))
         /\ Len(turns) > 0 => Compressed(turns)[Len(turns)] = turns[Len(turns)]
<1> DEFINE short == Compressed(turns)
           Cut(n) == [k \in 1..Len(turns[n].results) |-> [turns[n].results[k] EXCEPT !.long = FALSE]]
<1>1. ASSUME NEW n \in 1..Len(turns)
      PROVE  /\ turns[n].results \in Seq(ToolResults) /\ Cut(n) \in Seq(ToolResults)
             /\ Len(Cut(n)) = Len(turns[n].results)
             /\ \A k \in 1..Len(turns[n].results) : Cut(n)[k].id = turns[n].results[k].id
             /\ [turns[n] EXCEPT !.results = Cut(n)] \in TalkTurns
             /\ [turns[n] EXCEPT !.results = Cut(n)].calls = turns[n].calls
             /\ [turns[n] EXCEPT !.results = Cut(n)].results = Cut(n)
  <2>1. turns[n] \in TalkTurns
    OBVIOUS
  <2>2. turns[n].results \in Seq(ToolResults)
    BY <2>1, Zenon DEF TalkTurns
  <2>3. ASSUME NEW k \in 1..Len(turns[n].results)
        PROVE  /\ [turns[n].results[k] EXCEPT !.long = FALSE] \in ToolResults
               /\ [turns[n].results[k] EXCEPT !.long = FALSE].id = turns[n].results[k].id
    <3>1. turns[n].results[k] \in ToolResults
      BY <2>2
    <3>2. QED
      BY <3>1 DEF ToolResults
  <2>4. Len(turns[n].results) \in Nat
    BY <2>2
  <2>5. /\ Cut(n) \in Seq(ToolResults) /\ Len(Cut(n)) = Len(turns[n].results)
        /\ \A k \in 1..Len(turns[n].results) : Cut(n)[k].id = turns[n].results[k].id
    BY <2>3, <2>4
  <2> HIDE DEF Cut
  <2>6. /\ [turns[n] EXCEPT !.results = Cut(n)] \in TalkTurns
        /\ [turns[n] EXCEPT !.results = Cut(n)].calls = turns[n].calls
        /\ [turns[n] EXCEPT !.results = Cut(n)].results = Cut(n)
    BY <2>1, <2>5 DEF TalkTurns
  <2>7. QED
    BY <2>2, <2>5, <2>6
<1>2. short = [n \in 1..Len(turns) |->
                 IF n + 2 > Len(turns) THEN turns[n] ELSE [turns[n] EXCEPT !.results = Cut(n)]]
  BY DEF Compressed
<1> HIDE DEF short, Cut
<1>3. /\ short \in Seq(TalkTurns) /\ Len(short) = Len(turns) /\ Len(turns) \in Nat
      /\ \A n \in 1..Len(turns) :
           short[n] = turns[n] \/ short[n] = [turns[n] EXCEPT !.results = Cut(n)]
  <2> DEFINE Short(n) == [turns[n] EXCEPT !.results = Cut(n)]
  <2>1. ASSUME NEW n \in 1..Len(turns) PROVE turns[n] \in TalkTurns /\ Short(n) \in TalkTurns
    <3>1. turns[n] \in TalkTurns
      OBVIOUS
    <3>2. QED
      BY <1>1, <3>1
  <2>2. short = [n \in 1..Len(turns) |-> IF n + 2 > Len(turns) THEN turns[n] ELSE Short(n)]
    BY <1>2
  <2> HIDE DEF Short
  <2>3. Len(turns) \in Nat
    OBVIOUS
  <2>4. /\ short \in [1..Len(turns) -> TalkTurns]
        /\ \A n \in 1..Len(turns) : short[n] = turns[n] \/ short[n] = Short(n)
    BY <2>1, <2>2
  <2>5. short \in Seq(TalkTurns) /\ Len(short) = Len(turns)
    BY <2>3, <2>4
  <2>6. QED
    BY <2>3, <2>4, <2>5 DEF Short
<1>4. ASSUME NEW n \in 1..Len(turns)
      PROVE  /\ short[n].calls = turns[n].calls
             /\ Len(short[n].results) = Len(turns[n].results)
             /\ \A k \in 1..Len(turns[n].results) : short[n].results[k].id = turns[n].results[k].id
  <2>1. CASE short[n] = turns[n]
    BY <2>1
  <2>2. CASE short[n] = [turns[n] EXCEPT !.results = Cut(n)]
    BY <1>1, <2>2
  <2>3. QED
    BY <1>3, <2>1, <2>2
<1>5. ASSUME NEW n \in 1..Len(short), short[n].calls # <<>>
      PROVE  /\ short[n].results = <<>>
             /\ n + 1 \in 1..Len(short)
             /\ Len(short[n + 1].results) = Len(short[n].calls)
             /\ \A k \in 1..Len(short[n].calls) : short[n + 1].results[k].id = short[n].calls[k]
  <2>1. /\ n \in 1..Len(turns) /\ short[n].calls = turns[n].calls /\ turns[n].results = <<>>
        /\ n + 1 \in 1..Len(turns) /\ Len(turns[n + 1].results) = Len(turns[n].calls)
        /\ \A k \in 1..Len(turns[n].calls) : turns[n + 1].results[k].id = turns[n].calls[k]
    BY <1>3, <1>4, <1>5 DEF PairInv
  <2>2. short[n].results = <<>>
    <3>1. short[n] \in TalkTurns /\ Len(short[n].results) = 0
      BY <1>3, <1>4, <2>1
    <3>2. short[n].results \in Seq(ToolResults)
      BY <3>1, Zenon DEF TalkTurns
    <3>3. QED
      BY <3>1, <3>2
  <2>3. QED
    BY <1>3, <1>4, <2>1, <2>2
<1>6. PairInv(short)
  BY <1>5 DEF PairInv
<1>7. Len(turns) > 0 => short[Len(turns)] = turns[Len(turns)]
  BY <1>2, <1>3
<1>8. QED
  BY <1>3, <1>6, <1>7 DEF short
-----------------------------------------------------------------------------
LEMMA TalkInvStep == TalkInv /\ [ConversationNext]_conversationVars => TalkInv'
<1> SUFFICES ASSUME TalkInv, [ConversationNext]_conversationVars PROVE TalkInv'
  OBVIOUS
<1>0. /\ past \in Seq(Messages) /\ talk \in Seq(TalkTurns) /\ Len(past) <= HistoryBound
      /\ summarized \in 0..HistoryBound /\ covered \in 0..HistoryBound
      /\ talkAt \in {"idle", "chat", "retry"} /\ toolRound \in 0..MaxToolRounds
      /\ talkAt # "idle" => Len(past) + 1 <= HistoryBound
      /\ PairInv(talk) /\ ForgottenIsBounded
  BY DEF TalkInv
<1>1. CASE UseStoredSummary
  <2> DEFINE messages == Append(past, Said("user", TRUE))
  <2>1. /\ ~NeedsNewSummary(messages) /\ BeginTalk(messages)
        /\ covered' = IF Older(messages) = 0 THEN 0 ELSE summarized
        /\ summarized' = summarized
    BY <1>1 DEF UseStoredSummary
  <2> HIDE DEF messages
  <2>2. /\ past' \in Seq(Messages) /\ talk' \in Seq(TalkTurns) /\ PairInv(talk')
        /\ past' = messages /\ Older(messages) \in 0..HistoryBound
        /\ Len(past') + 1 <= HistoryBound /\ Len(past') \in Nat
        /\ talkAt' = "chat" /\ toolRound' = 0 /\ Len(Window(messages)) <= WindowSize
    BY <2>1, BeginTalkKeeps
  <2>3. covered' \in 0..HistoryBound /\ Older(messages) - covered' < Resummarize
    BY <1>0, <2>1, <2>2, Sizes DEF NeedsNewSummary
  <2>4. Older(past') - covered' < Resummarize /\ Len(Window(past')) <= WindowSize
    BY <2>2, <2>3
  <2>5. ForgottenIsBounded'
    BY <2>4 DEF ForgottenIsBounded
  <2>6. PairInv(talk)' /\ Len(past') <= HistoryBound /\ toolRound' \in 0..MaxToolRounds
    BY <2>2, Sizes DEF PairInv
  <2>7. QED
    BY <1>0, <2>1, <2>2, <2>3, <2>5, <2>6 DEF TalkInv
<1>2. CASE Summarize
  <2> DEFINE messages == Append(past, Said("user", TRUE))
  <2>1. /\ BeginTalk(messages)
        /\ \/ summarized' = Older(messages) /\ covered' = Older(messages)
           \/ covered' = 0 /\ unsummed' = TRUE /\ summarized' = summarized
    BY <1>2 DEF Summarize
  <2> HIDE DEF messages
  <2>2. /\ past' \in Seq(Messages) /\ talk' \in Seq(TalkTurns) /\ PairInv(talk')
        /\ past' = messages /\ Older(messages) \in 0..HistoryBound
        /\ Len(past') + 1 <= HistoryBound /\ Len(past') \in Nat
        /\ talkAt' = "chat" /\ toolRound' = 0 /\ Len(Window(messages)) <= WindowSize
    BY <2>1, BeginTalkKeeps
  <2>3. covered' \in 0..HistoryBound /\ summarized' \in 0..HistoryBound
    BY <1>0, <2>1, <2>2, Sizes
  <2>4. Older(past') - covered' < Resummarize \/ unsummed'
    BY <2>1, <2>2, Sizes
  <2>5. ForgottenIsBounded'
    BY <2>2, <2>4 DEF ForgottenIsBounded
  <2>6. PairInv(talk)' /\ Len(past') <= HistoryBound /\ toolRound' \in 0..MaxToolRounds
    BY <2>2, Sizes DEF PairInv
  <2>7. QED
    BY <1>0, <2>2, <2>3, <2>5, <2>6 DEF TalkInv
<1>3. CASE Answer
  <2>1. PICK hasText \in BOOLEAN : Conclude(hasText)
    BY <1>3 DEF Answer
  <2>2. talkAt # "idle"
    BY <1>3 DEF Answer
  <2>3. QED
    BY <2>1, <2>2, ConcludeKeeps
<1>4. CASE ToolRound
  <2>0. PICK n \in 1..MaxCalls, injected \in BOOLEAN :
          \E sizes \in [1..n -> BOOLEAN] : UseTools(CallsOf(n), ResultsOf(n, sizes), injected)
    BY <1>4 DEF ToolRound
  <2>1. PICK sizes \in [1..n -> BOOLEAN] : UseTools(CallsOf(n), ResultsOf(n, sizes), injected)
    BY <2>0
  <2> DEFINE calls   == CallsOf(n)
             results == ResultsOf(n, sizes)
             Asks(hasText) == Turn("assistant", hasText, calls, <<>>, FALSE)
             gets == Turn("user", FALSE, <<>>, results, injected)
  <2>2. n \in Nat
    BY ConversationAssumption
  <2>3. /\ calls \in Seq(ToolIds) /\ Len(calls) = n
        /\ \A k \in 1..n : calls[k] = <<toolRound, k>> /\ <<toolRound, k>> \in ToolIds
    <3>1. toolRound \in Nat
      BY <1>0, Sizes
    <3>2. \A k \in 1..n : <<toolRound, k>> \in ToolIds
      BY <2>2, <3>1 DEF ToolIds
    <3>3. QED
      BY <2>2, <3>2 DEF CallsOf
  <2>4. /\ results \in Seq(ToolResults) /\ Len(results) = n
        /\ \A k \in 1..n : results[k].id = <<toolRound, k>>
    <3>1. ASSUME NEW k \in 1..n PROVE [id |-> <<toolRound, k>>, long |-> sizes[k]] \in ToolResults
      <4>1. <<toolRound, k>> \in ToolIds
        BY <2>3
      <4>2. sizes[k] \in BOOLEAN
        BY <2>1
      <4>3. QED
        BY <4>1, <4>2, Zenon DEF ToolResults
    <3>2. QED
      BY <2>2, <3>1 DEF ResultsOf
  <2> HIDE DEF calls, results
  <2>5. <<>> \in Seq(ToolIds) /\ <<>> \in Seq(ToolResults) /\ FALSE \in BOOLEAN
    OBVIOUS
  <2>6. ASSUME NEW hasText \in BOOLEAN
        PROVE  /\ Asks(hasText) = [role |-> "assistant", text |-> hasText, calls |-> calls,
                                   results |-> <<>>, injected |-> FALSE]
               /\ Asks(hasText) \in TalkTurns
    <3>1. Asks(hasText) = [role |-> "assistant", text |-> hasText, calls |-> calls,
                           results |-> <<>>, injected |-> FALSE]
      BY Zenon DEF Turn
    <3>2. [role |-> "assistant", text |-> hasText, calls |-> calls,
           results |-> <<>>, injected |-> FALSE] \in TalkTurns
      BY <2>3, <2>5, Zenon DEF TalkTurns
    <3>3. QED
      BY <3>1, <3>2
  <2>7. /\ gets = [role |-> "user", text |-> FALSE, calls |-> <<>>,
                   results |-> results, injected |-> injected]
        /\ gets \in TalkTurns
    <3>1. gets = [role |-> "user", text |-> FALSE, calls |-> <<>>,
                  results |-> results, injected |-> injected]
      BY Zenon DEF Turn
    <3>2. [role |-> "user", text |-> FALSE, calls |-> <<>>,
           results |-> results, injected |-> injected] \in TalkTurns
      BY <2>1, <2>4, <2>5, Zenon DEF TalkTurns
    <3>3. QED
      BY <3>1, <3>2
  <2>8. /\ talkAt # "idle" /\ toolRound < MaxToolRounds /\ talkAt' = "chat"
        /\ toolRound' = toolRound + 1 /\ UNCHANGED <<past, summarized, covered, unsummed>>
    BY <2>1 DEF UseTools
  <2>9. PICK hasText \in BOOLEAN : talk' = talk \o <<Asks(hasText), gets>>
    BY <2>1 DEF UseTools, calls, results
  <2> DEFINE asks == Asks(hasText)
  <2> HIDE DEF Asks, gets
  <2>10. /\ asks \in TalkTurns /\ gets \in TalkTurns /\ asks.results = <<>> /\ gets.calls = <<>>
         /\ asks.calls = calls /\ gets.results = results
    BY <2>6, <2>7
  <2>11. talk' = talk \o <<asks, gets>>
    BY <2>9
  <2> HIDE DEF asks
  <2>12. Len(gets.results) = Len(asks.calls)
         /\ \A k \in 1..Len(asks.calls) : gets.results[k].id = asks.calls[k]
    BY <2>3, <2>4, <2>10
  <2>13. talk' \in Seq(TalkTurns) /\ PairInv(talk')
    BY <1>0, <2>10, <2>11, <2>12, RoundKeepsPairs
  <2>14. PairInv(talk)'
    BY <2>13 DEF PairInv
  <2>15. toolRound' \in 0..MaxToolRounds
    BY <1>0, <2>8, Sizes
  <2>16. ForgottenIsBounded'
    BY <1>0, <2>8 DEF ForgottenIsBounded, Older, Window, Turn
  <2>17. QED
    BY <1>0, <2>8, <2>13, <2>14, <2>15, <2>16 DEF TalkInv
<1>5. CASE TooManyRounds \/ OverflowAgain
  <2>1. talkAt # "idle" /\ Conclude(TRUE)
    BY <1>5 DEF TooManyRounds, OverflowAgain
  <2>2. TRUE \in BOOLEAN
    OBVIOUS
  <2>3. QED
    BY <2>1, <2>2, ConcludeKeeps, Zenon
<1>6. CASE Overflow
  <2>1. /\ talkAt = "chat" /\ talk' = Compressed(talk) /\ talkAt' = "retry"
        /\ UNCHANGED <<past, summarized, covered, unsummed, toolRound>>
    BY <1>6 DEF Overflow
  <2>2. talk' \in Seq(TalkTurns) /\ PairInv(talk')
    BY <1>0, <2>1, CompressionKeepsPairs
  <2>3. PairInv(talk)'
    BY <2>2 DEF PairInv
  <2>4. ForgottenIsBounded'
    BY <1>0, <2>1 DEF ForgottenIsBounded, Older, Window, Turn
  <2>5. QED
    BY <1>0, <2>1, <2>2, <2>3, <2>4 DEF TalkInv
<1>7. CASE TalkFails
  <2>1. /\ talk' = <<>> /\ talkAt' = "idle" /\ covered' = 0
        /\ past' = past /\ summarized' = summarized /\ toolRound' = toolRound
    BY <1>7 DEF TalkFails
  <2>2. talk' \in Seq(TalkTurns) /\ PairInv(talk)' /\ 0 \in 0..HistoryBound
    BY <2>1, Sizes DEF PairInv
  <2>3. QED
    BY <1>0, <2>1, <2>2 DEF TalkInv, ForgottenIsBounded
<1>8. CASE UNCHANGED conversationVars
  BY <1>0, <1>8 DEF conversationVars, TalkInv, PairInv, ForgottenIsBounded, Older, Window, Turn
<1>9. QED
  BY <1>1, <1>2, <1>3, <1>4, <1>5, <1>6, <1>7, <1>8 DEF ConversationNext

\* Every variable keeps its type, and what the model is sent is complete: each turn with
\* calls is followed by their answers, in every provider's form, and all but a bounded
\* number of messages are in the window or behind the summary, for every window,
\* threshold, thread and number of rounds.  (context.ts, runner.ts, openai.ts, google.ts)
THEOREM RequestsComplete == ConversationSpec => [](ConversationTypeOK /\ RequestsAreComplete)
BY TalkInvInit, TalkInvStep, TalkInvSuffices, PTL DEF ConversationSpec

\* An overflowing request is sent again with its latest results in full.  (runner.ts:519)
THEOREM ResultsWhole == ConversationSpec => LatestResultsAreWhole
<1>1. TalkInv /\ [ConversationNext]_conversationVars =>
        [talkAt = "chat" /\ talkAt' = "retry" =>
           \A n \in 1..Len(talk) : n = Len(talk) => talk'[n] = talk[n]]_conversationVars
  <2> SUFFICES ASSUME TalkInv, ConversationNext, talkAt = "chat", talkAt' = "retry",
                      NEW n \in 1..Len(talk), n = Len(talk)
               PROVE  talk'[n] = talk[n]
    OBVIOUS
  <2>1. Overflow
    BY DEF ConversationNext, UseStoredSummary, Summarize, BeginTalk, Answer, Conclude, ToolRound,
           UseTools, TooManyRounds, OverflowAgain, TalkFails
  <2>2. talk \in Seq(TalkTurns) /\ PairInv(talk) /\ Len(talk) > 0
    BY DEF TalkInv
  <2>3. QED
    BY <2>1, <2>2, CompressionKeepsPairs DEF Overflow
<1>2. QED
  BY <1>1, TalkInvInit, TalkInvStep, PTL DEF ConversationSpec, LatestResultsAreWhole

-----------------------------------------------------------------------------
(* Calls of the model.                                                     *)

\* Requests that one attempt of withRetry makes when it goes on to the end.
RequestsPerTry == IF provider = "anthropic" THEN SdkRetries + 1 ELSE 1

Refusals == {"limit", "down", "dropped", "timeout", "badKey", "overloaded", "limitInBody",
             "unknownModel", "tooLong"}

\* A failure is told as its provider tells it, after all repetitions it is granted.
FailedInv ==
  /\ reply \in Refusals
  /\ chatResult = Failure(MessageOf(reply))
  /\ ~SdkRepeats(reply)
  /\ Retryable(reply) => attempt = MaxRetries

\* A response that cannot be read, or an answer whose calls are known for what they are.
RespondedInv ==
  /\ reply = "answer"
  /\ \/ chatResult \in {Failure({"nothing"}), Failure({"malformed"})}
     \/ \E calls, finish, stop :
          /\ chatResult = Answered(calls, finish, stop)
          /\ calls = "some" =>
               stop = "tool_use" \/ (provider # "google" /\ finish \notin {"tool_use", "tool_calls"})

\* Every attempt that was repeated has used up the repetitions of the client below it.
CountInv ==
  /\ attempt \in Nat /\ attempt <= MaxRetries
  /\ sdkTry \in Nat /\ sdkTry <= SdkRetries
  /\ provider # "anthropic" => sdkTry = 0
  /\ requests = CASE chatAt = "idle" -> 0
                  [] chatAt = "asking"  -> attempt * RequestsPerTry + sdkTry
                  [] chatAt = "settled" -> attempt * RequestsPerTry + sdkTry + 1
                  [] OTHER -> (attempt + 1) * RequestsPerTry
  /\ chatAt = "idle" => attempt = 0 /\ sdkTry = 0
  /\ chatAt = "pausing" => attempt < MaxRetries

GatewayInv ==
  /\ defaultModel \in DefaultModels /\ apiKeys \subseteq {"anthropic", "openai", "google"}
  /\ gatewayAt \in {"down", "up", "refused"}
  /\ chosen \in BOOLEAN /\ tooLong \in BOOLEAN
  /\ chatAt \in {"idle", "asking", "pausing", "settled"}
  /\ chatAt # "idle" => gatewayAt = "up" /\ Name(askedModel)
  /\ UpHasItsKey /\ (gatewayAt = "up" => CanCreate)
  /\ CountInv
  /\ chatAt = "settled" => FailedInv \/ RespondedInv
  /\ chatAt # "settled" => chatResult = NoResult
-----------------------------------------------------------------------------
LEMMA PairsAreNames ==
  ASSUME NEW a, NEW b, NEW c
  PROVE  /\ Name(<<a, b>>) /\ Len(<<a, b>>) = 2 /\ Head(<<a, b>>) = a
         /\ Name(<<a, b, c>>) /\ Len(<<a, b, c>>) = 3 /\ Head(<<a, b, c>>) = a
<1>1. <<a, b>> \in Seq({a, b, c}) /\ Len(<<a, b>>) = 2 /\ Head(<<a, b>>) = a
  OBVIOUS
<1>2. <<a, b, c>> \in Seq({a, b, c}) /\ Len(<<a, b, c>>) = 3 /\ Head(<<a, b, c>>) = a
  OBVIOUS
<1>3. <<a, b>> # <<>> /\ <<a, b, c>> # <<>>
  OBVIOUS
<1>4. <<a, b>> \in Seq({<<a, b>>[i] : i \in 1..Len(<<a, b>>)})
  <2>1. <<a, b>>[1] = a /\ <<a, b>>[2] = b
    OBVIOUS
  <2>2. a \in {<<a, b>>[i] : i \in 1..Len(<<a, b>>)} /\ b \in {<<a, b>>[i] : i \in 1..Len(<<a, b>>)}
    BY <1>1, <2>1
  <2>3. QED
    BY <2>2
<1>5. <<a, b, c>> \in Seq({<<a, b, c>>[i] : i \in 1..Len(<<a, b, c>>)})
  <2>1. <<a, b, c>>[1] = a /\ <<a, b, c>>[2] = b /\ <<a, b, c>>[3] = c
    OBVIOUS
  <2>2. \A d \in {a, b, c} : d \in {<<a, b, c>>[i] : i \in 1..Len(<<a, b, c>>)}
    BY <1>2, <2>1
  <2>3. QED
    BY <2>2
<1>6. QED
  BY <1>1, <1>2, <1>3, <1>4, <1>5 DEF Name

LEMMA ModelsAreNamed ==
  /\ SdkRetries \in Nat /\ \A model \in DefaultModels \cup JobModels : Name(model)
  /\ \A tier \in 1..3, override \in JobModels \cup {None} : Name(ModelForTier(tier, override))
<1>1. SdkRetries \in Nat /\ \A model \in DefaultModels \cup JobModels : Name(model)
  BY GatewayAssumption
<1>2. ASSUME NEW tier \in 1..3 PROVE Name(TierModels[tier])
  <2>1. tier = 1 \/ tier = 2 \/ tier = 3
    OBVIOUS
  <2>2. TierModels[1] = <<"claude-", "haiku-4", "-5">> /\ TierModels[2] = Sonnet /\ TierModels[3] = Sonnet
    BY DEF TierModels
  <2>3. Name(<<"claude-", "haiku-4", "-5">>) /\ Name(Sonnet)
    BY PairsAreNames DEF Sonnet
  <2>4. QED
    BY <2>1, <2>2, <2>3
<1>3. QED
  BY <1>1, <1>2 DEF ModelForTier

LEMMA NamesAreSequences ==
  ASSUME NEW s, NEW S, Name(s), \A i \in 1..Len(s) : s[i] \in S PROVE s \in Seq(S) /\ s # <<>>
BY DEF Name

\* Of two beginnings of a name the shorter begins the longer.
LEMMA PrefixesNest ==
  ASSUME NEW S, NEW s \in Seq(S), NEW t \in Seq(S), NEW u \in Seq(S),
         IsPrefix(s, u), IsPrefix(t, u), Len(s) <= Len(t)
  PROVE  IsPrefix(s, t)
BY DEF IsPrefix

LEMMA PrefixHeads ==
  ASSUME NEW S, NEW s \in Seq(S), NEW u \in Seq(S), s # <<>>, IsPrefix(s, u)
  PROVE  Head(s) = Head(u)
BY DEF IsPrefix

LEMMA KeysAreNames == \A key \in PriceKeys : Name(key) /\ (Len(key) = 2 \/ Len(key) = 3)
<1> SUFFICES ASSUME NEW key \in PriceKeys PROVE Name(key) /\ (Len(key) = 2 \/ Len(key) = 3)
  OBVIOUS
<1>1. (\E a, b : key = <<a, b>>) \/ (\E a, b, c : key = <<a, b, c>>)
  BY DEF PriceKeys
<1>2. QED
  BY <1>1, PairsAreNames

\* Two beginnings of a name begin with its first part, and the shorter begins the longer.
LEMMA KeysNest ==
  ASSUME NEW key \in PriceKeys, NEW model, Name(model), IsPrefix(key, model)
  PROVE  /\ Head(key) = Head(model)
         /\ \A other \in PriceKeys :
              IsPrefix(other, model) /\ Len(other) <= Len(key) => IsPrefix(other, key)
<1>1. PICK S : key \in Seq(S) /\ model \in Seq(S) /\ key # <<>>
  <2> DEFINE S == {key[i] : i \in 1..Len(key)} \cup {model[i] : i \in 1..Len(model)}
  <2>1. Name(key)
    BY KeysAreNames
  <2>2. (\A i \in 1..Len(key) : key[i] \in S) /\ (\A i \in 1..Len(model) : model[i] \in S)
    OBVIOUS
  <2> HIDE DEF S
  <2>3. QED
    BY <2>1, <2>2, NamesAreSequences
<1>2. Head(key) = Head(model)
  BY <1>1, PrefixHeads
<1>3. ASSUME NEW other \in PriceKeys, IsPrefix(other, model), Len(other) <= Len(key)
      PROVE  IsPrefix(other, key)
  <2> DEFINE T == {other[i] : i \in 1..Len(other)} \cup {key[i] : i \in 1..Len(key)}
                    \cup {model[i] : i \in 1..Len(model)}
  <2>1. Name(key) /\ Name(other)
    BY KeysAreNames
  <2>2. /\ \A i \in 1..Len(other) : other[i] \in T
        /\ \A i \in 1..Len(key) : key[i] \in T
        /\ \A i \in 1..Len(model) : model[i] \in T
    OBVIOUS
  <2> HIDE DEF T
  <2>3. other \in Seq(T) /\ key \in Seq(T) /\ model \in Seq(T)
    BY <2>1, <2>2, NamesAreSequences
  <2>4. QED
    BY <1>3, <2>3, PrefixesNest
<1>4. QED
  BY <1>2, <1>3

\* What findPricing promises: the most specific entry, of the family of the model.
LEMMA PricingFits ==
  ASSUME NEW model, Name(model)
  PROVE  /\ Head(model) # "ollama/" =>
              \A key \in PriceKeys : IsPrefix(key, model) => IsPrefix(key, FindPricing(model))
         /\ Head(model) = "ollama/" => FindPricing(model) = Free
         /\ Head(model) \in {"claude-", "gemini-", "gpt-"} =>
              Head(FindPricing(model)) = Head(model)
<1> DEFINE fits == {key \in PriceKeys : IsPrefix(key, model)}
<1>1. CASE Head(model) = "ollama/"
  BY <1>1 DEF FindPricing
<1>2. CASE Head(model) # "ollama/" /\ fits # {}
  <2>1. \E key \in fits : \A other \in fits : Len(other) <= Len(key)
    <3>1. \A key \in fits : Len(key) = 2 \/ Len(key) = 3
      BY KeysAreNames
    <3> HIDE DEF fits
    <3>2. CASE \E key \in fits : Len(key) = 3
      BY <3>1, <3>2
    <3>3. CASE \A key \in fits : Len(key) = 2
      BY <1>2, <3>3
    <3>4. QED
      BY <3>1, <3>2, <3>3
  <2> DEFINE best == CHOOSE key \in fits : \A other \in fits : Len(other) <= Len(key)
  <2>2. best \in fits /\ \A other \in fits : Len(other) <= Len(best)
    BY <2>1
  <2>3. FindPricing(model) = best
    BY <1>2 DEF FindPricing
  <2> HIDE DEF best
  <2>4. best \in PriceKeys /\ IsPrefix(best, model)
    BY <2>2
  <2>5. Head(best) = Head(model) /\ \A other \in fits : IsPrefix(other, best)
    BY <2>2, <2>4, KeysNest
  <2>6. QED
    BY <1>2, <2>3, <2>5
<1>3. CASE Head(model) # "ollama/" /\ fits = {}
  <2>1. \A key \in PriceKeys : ~IsPrefix(key, model)
    BY <1>3
  <2> HIDE DEF fits
  <2>2. FindPricing(model) = IF Head(model) = "gemini-" THEN <<"gemini-", "2.0-flash">>
                             ELSE IF Head(model) = "gpt-" THEN <<"gpt-", "4o">> ELSE Sonnet
    BY <1>3 DEF FindPricing, fits
  <2>3. /\ Head(<<"gemini-", "2.0-flash">>) = "gemini-" /\ Head(<<"gpt-", "4o">>) = "gpt-"
        /\ Head(Sonnet) = "claude-"
    BY PairsAreNames DEF Sonnet
  <2>4. QED
    BY <1>3, <2>1, <2>2, <2>3
<1>4. QED
  BY <1>1, <1>2, <1>3
-----------------------------------------------------------------------------
LEMMA ProvidersUp ==
  CanCreate => provider \in {"ollama", "openai", "anthropic", "google"}
BY DEF CanCreate

\* Only what says that a prompt is too long is taken for it, whatever the provider.
LEMMA WordsTell ==
  ASSUME NEW r \in Refusals, provider \in {"ollama", "openai", "anthropic", "google"}
  PROVE  "prompt is too long" \in MessageOf(r) <=> r = "tooLong"
<1>1. ASSUME NEW known PROVE "prompt is too long" \in Spoken(r, known) <=>
                               r = "tooLong" /\ (Wording = "prompt is too long" \/ Wording \in known)
  <2>1. CASE r = "tooLong"
    BY <2>1 DEF Spoken
  <2>2. CASE r \in {"limit", "limitInBody"}
    BY <2>2 DEF Spoken
  <2>3. CASE r \notin {"tooLong", "limit", "limitInBody"}
    BY <2>3 DEF Spoken, Refusals
  <2>4. QED
    BY <2>1, <2>2, <2>3
<1>2. CASE provider = "anthropic"
  BY <1>1, <1>2 DEF MessageOf, MapProviderError, Wording
<1>3. CASE provider = "google"
  BY <1>1, <1>3 DEF MessageOf, MapGeminiError, Wording
<1>4. CASE provider \in {"openai", "ollama"}
  BY <1>1, <1>4 DEF MessageOf, MapOpenAIError, Wording
<1>5. QED
  BY <1>2, <1>3, <1>4

LEMMA Counts ==
  ASSUME NEW n \in Nat
  PROVE  /\ RequestsPerTry \in Nat /\ RequestsPerTry > 0 /\ MaxRetries \in {2, 3}
         /\ (n + 1) * RequestsPerTry = n * RequestsPerTry + RequestsPerTry
         /\ n * RequestsPerTry \in Nat
         /\ \A m \in Nat : m <= n => m * RequestsPerTry <= n * RequestsPerTry
<1>1. RequestsPerTry \in Nat /\ RequestsPerTry > 0 /\ MaxRetries \in {2, 3}
  BY GatewayAssumption DEF RequestsPerTry, MaxRetries
<1>2. \A k \in Nat : (n + 1) * k = n * k + k /\ n * k \in Nat
  OBVIOUS
<1>3. ASSUME NEW m \in Nat, m <= n, NEW k \in Nat PROVE m * k <= n * k
  <2>1. n - m \in Nat /\ n * k = m * k + (n - m) * k
    BY <1>3
  <2>2. m * k \in Nat /\ (n - m) * k \in Nat
    BY <2>1
  <2>3. QED
    BY <2>1, <2>2
<1>4. QED
  BY <1>1, <1>2, <1>3

LEMMA GatewayInvInit == GatewayInit => GatewayInv
<1> SUFFICES ASSUME GatewayInit PROVE GatewayInv
  OBVIOUS
<1>1. chosen \in BOOLEAN /\ tooLong \in BOOLEAN
  BY Zenon DEF GatewayInit
<1>2. /\ defaultModel \in DefaultModels /\ apiKeys \subseteq {"anthropic", "openai", "google"}
      /\ gatewayAt = "down" /\ chatAt = "idle" /\ chatResult = NoResult
      /\ attempt = 0 /\ sdkTry = 0 /\ requests = 0
  BY DEF GatewayInit
<1>3. MaxRetries \in {2, 3} /\ SdkRetries \in Nat
  BY GatewayAssumption DEF MaxRetries
<1>4. CountInv
  BY <1>2, <1>3 DEF CountInv
<1>5. QED
  BY <1>1, <1>2, <1>4 DEF GatewayInv, UpHasItsKey

LEMMA GatewayInvSuffices == GatewayInv => GatewayTypeOK /\ ModelCallsAreSettled
<1> SUFFICES ASSUME GatewayInv PROVE GatewayTypeOK /\ ModelCallsAreSettled
  OBVIOUS
<1>1. chatAt # "settled" => chatResult.kind = "none"
  BY DEF GatewayInv, NoResult
<1>2. ASSUME chatAt = "settled", FailedInv
      PROVE  /\ chatResult.kind = "failure"
             /\ reply = "tooLong" <=> RunnerTurn = "compress"
             /\ reply \in {"limit", "overloaded", "dropped"} =>
                  IF provider = "anthropic" /\ reply = "dropped"
                    THEN requests >= RequestsPerTry
                    ELSE requests = (MaxRetries + 1) * RequestsPerTry
  <2>1. /\ reply \in Refusals /\ chatResult = Failure(MessageOf(reply))
        /\ ~SdkRepeats(reply) /\ (Retryable(reply) => attempt = MaxRetries)
    BY <1>2 DEF FailedInv
  <2>2. chatResult.kind = "failure" /\ chatResult.message = MessageOf(reply)
    BY <2>1 DEF Failure
  <2>3. reply = "tooLong" <=> RunnerTurn = "compress"
    <3>1. provider \in {"ollama", "openai", "anthropic", "google"}
      BY <1>2, ProvidersUp DEF GatewayInv
    <3>2. "prompt is too long" \in MessageOf(reply) <=> reply = "tooLong"
      BY <2>1, <3>1, WordsTell
    <3>3. QED
      BY <2>2, <3>2 DEF RunnerTurn, IsContextOverflow
  <2>4. ASSUME reply \in {"limit", "overloaded", "dropped"}
        PROVE  IF provider = "anthropic" /\ reply = "dropped"
                 THEN requests >= RequestsPerTry
                 ELSE requests = (MaxRetries + 1) * RequestsPerTry
    <3>1. /\ attempt \in Nat /\ sdkTry \in Nat /\ sdkTry <= SdkRetries
          /\ provider # "anthropic" => sdkTry = 0
          /\ requests = attempt * RequestsPerTry + sdkTry + 1
      BY <1>2 DEF GatewayInv, CountInv
    <3>2. sdkTry + 1 = RequestsPerTry
      BY <2>1, <2>4, <3>1, GatewayAssumption DEF SdkRepeats, RequestsPerTry
    <3>3. requests = (attempt + 1) * RequestsPerTry /\ attempt * RequestsPerTry \in Nat
          /\ requests = attempt * RequestsPerTry + RequestsPerTry
      BY <3>1, <3>2, Counts
    <3>4. CASE provider = "anthropic" /\ reply = "dropped"
      BY <3>3, <3>4, Counts
    <3>5. CASE ~(provider = "anthropic" /\ reply = "dropped")
      <4>1. attempt = MaxRetries
        BY <2>1, <2>4, <3>5 DEF Retryable
      <4>2. QED
        BY <3>3, <3>5, <4>1
    <3>6. QED
      BY <3>4, <3>5
  <2>5. QED
    BY <2>2, <2>3, <2>4
<1>3. ASSUME chatAt = "settled", RespondedInv
      PROVE  /\ chatResult.kind \in {"failure", "answer"} /\ reply = "answer"
             /\ RunnerTurn # "compress"
             /\ chatResult.kind = "answer" /\ chatResult.calls = "some"
                  => \/ RunnerTurn = "tools"
                     \/ provider # "google" /\ chatResult.finish \notin {"tool_use", "tool_calls"}
             /\ chatResult.kind = "answer" => chatResult.price = FindPricing(askedModel)
  <2>1. CASE chatResult \in {Failure({"nothing"}), Failure({"malformed"})}
    <3>1. CASE chatResult = Failure({"nothing"})
      <4>1. chatResult.kind = "failure" /\ chatResult.message = {"nothing"}
        BY <3>1 DEF Failure
      <4>2. "prompt is too long" \notin {"nothing"}
        OBVIOUS
      <4>3. QED
        BY <1>3, <4>1, <4>2 DEF RunnerTurn, IsContextOverflow, RespondedInv
    <3>2. CASE chatResult = Failure({"malformed"})
      <4>1. chatResult.kind = "failure" /\ chatResult.message = {"malformed"}
        BY <3>2 DEF Failure
      <4>2. "prompt is too long" \notin {"malformed"}
        OBVIOUS
      <4>3. QED
        BY <1>3, <4>1, <4>2 DEF RunnerTurn, IsContextOverflow, RespondedInv
    <3>3. QED
      BY <2>1, <3>1, <3>2
  <2>2. CASE \E calls, finish, stop :
               /\ chatResult = Answered(calls, finish, stop)
               /\ calls = "some" =>
                    stop = "tool_use" \/ (provider # "google" /\ finish \notin {"tool_use", "tool_calls"})
    <3>1. PICK calls, finish, stop :
            /\ chatResult = Answered(calls, finish, stop)
            /\ calls = "some" =>
                 stop = "tool_use" \/ (provider # "google" /\ finish \notin {"tool_use", "tool_calls"})
      BY <2>2
    <3>2. /\ chatResult.kind = "answer" /\ chatResult.calls = calls /\ chatResult.finish = finish
          /\ chatResult.stop = stop /\ chatResult.price = FindPricing(askedModel)
      BY <3>1 DEF Answered
    <3>3. RunnerTurn = IF stop # "tool_use" THEN "reply"
                       ELSE IF calls = "none" THEN "apologize" ELSE "tools"
      BY <3>2 DEF RunnerTurn
    <3>4. QED
      BY <1>3, <3>1, <3>2, <3>3 DEF RespondedInv
  <2>3. QED
    BY <1>3, <2>1, <2>2 DEF RespondedInv
<1>4. chatAt = "settled" => FailedInv \/ RespondedInv
  BY DEF GatewayInv
<1>5. OverflowIsRecognised /\ CallsAreExecuted
  BY <1>2, <1>3, <1>4 DEF OverflowIsRecognised, CallsAreExecuted
<1>6. GivesUpLast
  <2>1. ASSUME chatAt = "settled" PROVE requests <= (MaxRetries + 1) * RequestsPerTry
    <3>1. /\ attempt \in Nat /\ sdkTry \in Nat /\ sdkTry <= SdkRetries
          /\ provider # "anthropic" => sdkTry = 0
          /\ requests = attempt * RequestsPerTry + sdkTry + 1 /\ attempt <= MaxRetries
      BY <2>1 DEF GatewayInv, CountInv
    <3>2. sdkTry + 1 <= RequestsPerTry
      BY <3>1, GatewayAssumption DEF RequestsPerTry
    <3>3. /\ (attempt + 1) * RequestsPerTry = attempt * RequestsPerTry + RequestsPerTry
          /\ attempt * RequestsPerTry \in Nat /\ RequestsPerTry \in Nat
      BY <3>1, Counts
    <3>4. MaxRetries \in Nat
      BY DEF MaxRetries
    <3>5. (attempt + 1) * RequestsPerTry <= (MaxRetries + 1) * RequestsPerTry
      <4>1. attempt + 1 \in Nat /\ MaxRetries + 1 \in Nat /\ attempt + 1 <= MaxRetries + 1
        BY <3>1, <3>4
      <4>2. QED
        BY <4>1, Counts
    <3> DEFINE here == attempt * RequestsPerTry
               next == (attempt + 1) * RequestsPerTry
               last == (MaxRetries + 1) * RequestsPerTry
    <3>6. last \in Nat
      BY <3>4, Counts
    <3> HIDE DEF here, next, last
    <3>7. requests = here + sdkTry + 1 /\ next = here + RequestsPerTry /\ next <= last /\ here \in Nat
      BY <3>1, <3>3, <3>5 DEF here, next, last
    <3>8. requests <= last
      BY <3>1, <3>2, <3>3, <3>6, <3>7
    <3>9. QED
      BY <3>8 DEF last
  <2>2. QED
    BY <1>2, <1>3, <1>4, <2>1 DEF GivesUpLast, RequestsPerTry
<1>7. PriceIsTheModels
  <2> SUFFICES ASSUME chatResult.kind = "answer" PROVE
         /\ \A key \in PriceKeys : Head(askedModel) # "ollama/" /\ IsPrefix(key, askedModel)
              => IsPrefix(key, chatResult.price)
         /\ ProviderOf(askedModel) = provider =>
              IF provider = "ollama" THEN chatResult.price = Free
              ELSE Head(chatResult.price) = Head(askedModel)
    BY DEF PriceIsTheModels
  <2>1. chatAt = "settled" /\ RespondedInv
    BY <1>1, <1>2, <1>4
  <2>2. chatResult.price = FindPricing(askedModel) /\ Name(askedModel)
    BY <1>3, <2>1 DEF GatewayInv
  <2>3. provider \in {"ollama", "openai", "anthropic", "google"}
    BY <2>1, ProvidersUp DEF GatewayInv
  <2>4. ASSUME ProviderOf(askedModel) = provider
        PROVE  IF provider = "ollama" THEN Head(askedModel) = "ollama/"
               ELSE Head(askedModel) \in {"claude-", "gemini-", "gpt-"}
    <3> DEFINE p == provider
    <3>1. ProviderOf(askedModel) = p /\ p \in {"ollama", "openai", "anthropic", "google"}
      BY <2>3, <2>4
    <3> HIDE DEF p
    <3>2. IF p = "ollama" THEN Head(askedModel) = "ollama/"
          ELSE Head(askedModel) \in {"claude-", "gemini-", "gpt-"}
      BY <3>1 DEF ProviderOf
    <3>3. QED
      BY <3>2 DEF p
  <2>5. QED
    BY <2>2, <2>4, PricingFits
<1>8. GatewayTypeOK
  <2>1. chatResult.kind \in {"none", "failure", "answer"}
    BY <1>1, <1>2, <1>3, <1>4 DEF GatewayInv
  <2>2. attempt \in 0..MaxRetries /\ sdkTry \in 0..SdkRetries
    BY GatewayAssumption DEF GatewayInv, CountInv, MaxRetries
  <2>3. {chosen, tooLong} \subseteq BOOLEAN
    BY Zenon DEF GatewayInv
  <2>4. QED
    BY <2>1, <2>2, <2>3 DEF GatewayInv, GatewayTypeOK
<1>9. QED
  BY <1>5, <1>6, <1>7, <1>8 DEF ModelCallsAreSettled, GatewayInv
-----------------------------------------------------------------------------
\* The part of the invariant that no call changes.
LEMMA Standing ==
  ASSUME GatewayInv,
         UNCHANGED <<defaultModel, apiKeys, gatewayAt>>
  PROVE  /\ defaultModel' \in DefaultModels
         /\ apiKeys' \subseteq {"anthropic", "openai", "google"}
         /\ gatewayAt' \in {"down", "up", "refused"}
         /\ UpHasItsKey' /\ (gatewayAt' = "up" => CanCreate')
         /\ provider' = provider /\ MaxRetries' = MaxRetries
         /\ RequestsPerTry' = RequestsPerTry
<1>1. provider' = provider
  BY DEF provider, ProviderOf
<1>2. MaxRetries' = MaxRetries /\ RequestsPerTry' = RequestsPerTry
  BY <1>1 DEF MaxRetries, RequestsPerTry
<1>3. UpHasItsKey' /\ (gatewayAt' = "up" => CanCreate')
  BY <1>1 DEF GatewayInv, UpHasItsKey, CanCreate
<1>4. QED
  BY <1>1, <1>2, <1>3 DEF GatewayInv

\* The gateway starts only with the key of its provider.
LEMMA StartStep ==
  ASSUME GatewayInv, StartGateway PROVE GatewayInv'
<1>1. /\ gatewayAt = "down"
      /\ gatewayAt' = IF KeyNeeded(defaultModel) \subseteq apiKeys /\ CanCreate
                         THEN "up" ELSE "refused"
      /\ UNCHANGED <<defaultModel, apiKeys, askedModel, chatAt, attempt, sdkTry, requests,
                     chatResult>>
  BY DEF StartGateway
<1>2. UNCHANGED <<chosen, tooLong>>
  BY Zenon DEF StartGateway
<1>3. chatAt' = "idle"
  BY <1>1 DEF GatewayInv
<1>4. provider' = provider
  BY <1>1 DEF provider, ProviderOf
<1>5. UpHasItsKey' /\ (gatewayAt' = "up" => CanCreate')
  <2> SUFFICES ASSUME gatewayAt' = "up" PROVE provider' \in apiKeys' \cup {"ollama"} /\ CanCreate'
    BY DEF UpHasItsKey
  <2>1. KeyNeeded(defaultModel) \subseteq apiKeys /\ CanCreate
    BY <1>1
  <2>2. provider \in apiKeys \cup {"ollama"}
    <3>1. provider \in {"openai", "ollama", "anthropic", "google"}
      BY <2>1, ProvidersUp
    <3>2. CASE provider = "ollama"
      BY <3>2
    <3>3. CASE provider \in {"openai", "google"}
      BY <2>1, <3>3 DEF KeyNeeded, provider
    <3>4. CASE provider = "anthropic"
      BY <2>1, <3>4 DEF CanCreate
    <3>5. QED
      BY <3>1, <3>2, <3>3, <3>4
  <2>3. QED
    BY <1>1, <1>4, <2>1, <2>2 DEF CanCreate
<1>6. CountInv'
  <2>1. MaxRetries' = MaxRetries /\ RequestsPerTry' = RequestsPerTry
    BY <1>4 DEF MaxRetries, RequestsPerTry
  <2>2. QED
    BY <1>1, <1>4, <2>1 DEF GatewayInv, CountInv
<1>7. chosen' \in BOOLEAN /\ tooLong' \in BOOLEAN
  BY <1>2, Zenon DEF GatewayInv
<1>8. chatResult' = NoResult /\ gatewayAt' \in {"down", "up", "refused"}
  BY <1>1, <1>3 DEF GatewayInv
<1>9. defaultModel' \in DefaultModels /\ apiKeys' \subseteq {"anthropic", "openai", "google"}
  BY <1>1 DEF GatewayInv
<1>10. QED
  BY <1>3, <1>5, <1>6, <1>7, <1>8, <1>9 DEF GatewayInv

LEMMA AskStep ==
  ASSUME GatewayInv, NEW model, NEW byPerson \in BOOLEAN, Name(model),
         AskModel(model, byPerson)
  PROVE  GatewayInv'
<1>1. /\ gatewayAt = "up" /\ chatAt = "idle" /\ askedModel' = model /\ chatAt' = "asking"
      /\ UNCHANGED <<defaultModel, apiKeys, gatewayAt, attempt, sdkTry, requests, reply,
                     chatResult>>
  BY DEF AskModel
<1>2. chosen' \in BOOLEAN /\ tooLong' \in BOOLEAN
  BY Zenon DEF AskModel
<1>3. CountInv'
  <2>1. attempt = 0 /\ sdkTry = 0 /\ requests = 0 /\ MaxRetries \in Nat
    BY <1>1, GatewayAssumption DEF GatewayInv, CountInv, MaxRetries
  <2>2. 0 * RequestsPerTry = 0
    BY Counts
  <2>3. QED
    BY <1>1, <2>1, <2>2, Standing, GatewayAssumption DEF CountInv
<1>4. chatResult' = NoResult
  BY <1>1 DEF GatewayInv
<1>5. QED
  BY <1>1, <1>2, <1>3, <1>4, Standing DEF GatewayInv

\* A reply leaves the call as it was made.
LEMMA ReplyKeeps ==
  ASSUME GatewayInv, NEW r, ReceiveReply(r)
  PROVE  /\ chatAt = "asking" /\ gatewayAt' = "up" /\ Name(askedModel')
         /\ r \in {"answer"} \cup Refusals /\ reply' = r /\ requests' = requests + 1
         /\ chosen' \in BOOLEAN /\ tooLong' \in BOOLEAN
         /\ UNCHANGED <<defaultModel, apiKeys, gatewayAt, askedModel>>
<1>1. /\ r \in Replies /\ reply' = r /\ requests' = requests + 1
      /\ UNCHANGED <<defaultModel, apiKeys, gatewayAt, askedModel>>
  BY DEF ReceiveReply
<1>2. chatAt = "asking" /\ r \in {"unknownModel", "answer", "tooLong"} \cup Troubles
  BY <1>1 DEF Replies
<1>3. Troubles \subseteq Refusals
  BY DEF Troubles, Refusals
<1>4. r \in {"answer"} \cup Refusals
  BY <1>2, <1>3 DEF Refusals
<1>5. chosen' \in BOOLEAN /\ tooLong' \in BOOLEAN
  BY Zenon DEF ReceiveReply, GatewayInv
<1>6. QED
  BY <1>1, <1>2, <1>4, <1>5 DEF GatewayInv

LEMMA RepeatStep ==
  ASSUME GatewayInv, SdkTriesAgain PROVE GatewayInv'
<1>1. PICK r \in Replies : /\ ReceiveReply(r) /\ SdkRepeats(r) /\ sdkTry' = sdkTry + 1
                          /\ UNCHANGED <<chatAt, attempt, chatResult>>
  BY DEF SdkTriesAgain
<1>2. provider = "anthropic" /\ sdkTry < SdkRetries
  BY <1>1 DEF SdkRepeats
<1>3. /\ chatAt = "asking" /\ gatewayAt' = "up" /\ Name(askedModel') /\ requests' = requests + 1
      /\ chosen' \in BOOLEAN /\ tooLong' \in BOOLEAN
      /\ UNCHANGED <<defaultModel, apiKeys, gatewayAt, askedModel>>
  BY <1>1, ReplyKeeps
<1>4. CountInv'
  <2>1. /\ attempt \in Nat /\ attempt <= MaxRetries /\ sdkTry \in Nat
        /\ requests = attempt * RequestsPerTry + sdkTry
    BY <1>3 DEF GatewayInv, CountInv
  <2>2. attempt * RequestsPerTry \in Nat /\ provider' = provider
        /\ MaxRetries' = MaxRetries /\ RequestsPerTry' = RequestsPerTry
    BY <1>3, <2>1, Counts, Standing
  <2> DEFINE made == attempt * RequestsPerTry
  <2>3. attempt' * RequestsPerTry' = made
    BY <1>1, <2>2
  <2>4. made \in Nat /\ requests = made + sdkTry
    BY <2>1, <2>2
  <2> HIDE DEF made
  <2>5. requests' = attempt' * RequestsPerTry' + sdkTry'
    BY <1>1, <1>3, <2>1, <2>3, <2>4
  <2>6. sdkTry' \in Nat /\ sdkTry' <= SdkRetries
    BY <1>1, <1>2, <2>1, GatewayAssumption
  <2>7. QED
    BY <1>1, <1>2, <1>3, <2>1, <2>2, <2>5, <2>6 DEF CountInv
<1>5. chatResult' = NoResult /\ chatAt' = "asking"
  BY <1>1, <1>3 DEF GatewayInv
<1>6. QED
  BY <1>3, <1>4, <1>5, Standing DEF GatewayInv

\* The call has got the reply that settles it.
LEMMA SettlesStep ==
  ASSUME GatewayInv, NEW r, ReceiveReply(r), chatAt' = "settled",
         UNCHANGED <<attempt, sdkTry>>, FailedInv' \/ RespondedInv'
  PROVE  GatewayInv'
<1>1. /\ chatAt = "asking" /\ gatewayAt' = "up" /\ Name(askedModel') /\ requests' = requests + 1
      /\ chosen' \in BOOLEAN /\ tooLong' \in BOOLEAN
      /\ UNCHANGED <<defaultModel, apiKeys, gatewayAt, askedModel>>
  BY ReplyKeeps
<1>2. CountInv'
  <2>1. /\ attempt \in Nat /\ attempt <= MaxRetries /\ sdkTry \in Nat /\ sdkTry <= SdkRetries
        /\ provider # "anthropic" => sdkTry = 0
        /\ requests = attempt * RequestsPerTry + sdkTry
    BY <1>1 DEF GatewayInv, CountInv
  <2>2. provider' = provider /\ MaxRetries' = MaxRetries /\ RequestsPerTry' = RequestsPerTry
    BY <1>1, Standing
  <2>3. requests' = attempt' * RequestsPerTry' + sdkTry' + 1
    BY <1>1, <2>1, <2>2
  <2>4. QED
    BY <2>1, <2>2, <2>3 DEF CountInv
<1>3. QED
  BY <1>1, <1>2, Standing DEF GatewayInv

LEMMA FailsStep ==
  ASSUME GatewayInv, Fails PROVE GatewayInv'
<1>1. PICK r \in Replies \ {"answer"} :
        /\ ReceiveReply(r) /\ ~SdkRepeats(r)
        /\ IF Retryable(r) /\ attempt < MaxRetries
             THEN chatAt' = "pausing" /\ UNCHANGED chatResult
             ELSE chatAt' = "settled" /\ chatResult' = Failure(MessageOf(r))
        /\ UNCHANGED <<attempt, sdkTry>>
  BY DEF Fails
<1>2. /\ chatAt = "asking" /\ gatewayAt' = "up" /\ Name(askedModel')
      /\ r \in Refusals /\ reply' = r /\ requests' = requests + 1
      /\ chosen' \in BOOLEAN /\ tooLong' \in BOOLEAN
      /\ UNCHANGED <<defaultModel, apiKeys, gatewayAt, askedModel>>
  BY <1>1, ReplyKeeps
<1>3. /\ attempt \in Nat /\ attempt <= MaxRetries /\ sdkTry \in Nat /\ sdkTry <= SdkRetries
      /\ provider # "anthropic" => sdkTry = 0
      /\ requests = attempt * RequestsPerTry + sdkTry
  BY <1>2 DEF GatewayInv, CountInv
<1>4. provider' = provider /\ MaxRetries' = MaxRetries /\ RequestsPerTry' = RequestsPerTry
  BY <1>2, Standing
<1>5. CASE Retryable(r) /\ attempt < MaxRetries
  <2>1. chatAt' = "pausing" /\ chatResult' = NoResult
    BY <1>1, <1>2, <1>5 DEF GatewayInv
  <2>2. sdkTry + 1 = RequestsPerTry
    BY <1>1, <1>3, <1>5, GatewayAssumption DEF Retryable, SdkRepeats, RequestsPerTry
  <2> DEFINE made == attempt * RequestsPerTry
  <2>3. (attempt + 1) * RequestsPerTry = made + RequestsPerTry /\ made \in Nat
    BY <1>3, Counts
  <2>4. requests = made + sdkTry /\ attempt' = attempt
    BY <1>1, <1>3
  <2> HIDE DEF made
  <2>5. requests' = made + RequestsPerTry
    BY <1>2, <1>3, <2>2, <2>3, <2>4
  <2>6. requests' = (attempt' + 1) * RequestsPerTry'
    BY <1>4, <2>3, <2>4, <2>5
  <2>7. CountInv'
    BY <1>1, <1>3, <1>4, <1>5, <2>1, <2>6 DEF CountInv
  <2>8. QED
    BY <1>2, <2>1, <2>7, Standing DEF GatewayInv
<1>6. CASE ~(Retryable(r) /\ attempt < MaxRetries)
  <2>1. chatAt' = "settled" /\ chatResult' = Failure(MessageOf(r)) /\ UNCHANGED <<attempt, sdkTry>>
    BY <1>1, <1>6
  <2>2. Retryable(r) => attempt = MaxRetries
    BY <1>3, <1>6 DEF MaxRetries
  <2>3. FailedInv'
    <3>1. MessageOf(r)' = MessageOf(r)
      BY <1>4 DEF MessageOf, MapProviderError, MapGeminiError, MapOpenAIError, Spoken, Wording
    <3>2. (Retryable(r)' <=> Retryable(r)) /\ (SdkRepeats(r)' <=> SdkRepeats(r))
      BY <1>4, <2>1 DEF Retryable, SdkRepeats
    <3>3. chatResult' = Failure(MessageOf(reply))'
      BY <1>2, <2>1, <3>1 DEF Failure, MessageOf, MapProviderError, MapGeminiError,
             MapOpenAIError, Spoken, Wording
    <3>4. QED
      BY <1>1, <1>2, <1>4, <2>1, <2>2, <3>2, <3>3 DEF FailedInv, Retryable, SdkRepeats
  <2>4. QED
    BY <1>1, <2>1, <2>3, SettlesStep
<1>7. QED
  BY <1>5, <1>6

\* A response without anything in it, or one that cannot be parsed.
LEMMA UnreadStep ==
  ASSUME GatewayInv, NEW found, Responds(found),
         found \in {Failure({"nothing"}), Failure({"malformed"})}
  PROVE  GatewayInv'
<1>1. ReceiveReply("answer") /\ chatAt' = "settled" /\ chatResult' = found
      /\ UNCHANGED <<attempt, sdkTry>>
  BY DEF Responds
<1>2. reply' = "answer"
  BY <1>1, ReplyKeeps
<1>3. RespondedInv'
  BY <1>1, <1>2 DEF RespondedInv, Failure
<1>4. QED
  BY <1>1, <1>3, SettlesStep

LEMMA ReadStep ==
  ASSUME GatewayInv, NEW calls, NEW finish, NEW stop, Responds(Answered(calls, finish, stop)),
         calls = "some" =>
           stop = "tool_use" \/ (provider # "google" /\ finish \notin {"tool_use", "tool_calls"})
  PROVE  GatewayInv'
<1>1. ReceiveReply("answer") /\ chatAt' = "settled" /\ chatResult' = Answered(calls, finish, stop)
      /\ UNCHANGED <<attempt, sdkTry>>
  BY DEF Responds
<1>2. reply' = "answer" /\ UNCHANGED <<defaultModel, apiKeys, gatewayAt, askedModel>>
  BY <1>1, ReplyKeeps
<1>3. provider' = provider
  BY <1>2, Standing
<1>4. chatResult' = Answered(calls, finish, stop)'
  BY <1>1, <1>2 DEF Answered, FindPricing
<1>5. RespondedInv'
  BY <1>2, <1>3, <1>4 DEF RespondedInv
<1>6. QED
  BY <1>1, <1>5, SettlesStep

LEMMA AnswersStep ==
  ASSUME GatewayInv, ClaudeAnswers \/ OpenAIAnswers \/ GeminiAnswers PROVE GatewayInv'
<1>1. CASE ClaudeAnswers
  <2>1. PICK finish \in ClaudeFinishes, calls \in {"none", "some"} :
          Responds(Answered(calls, finish, finish))
    BY <1>1 DEF ClaudeAnswers
  <2>2. provider # "google" /\ finish \in {"end_turn", "tool_use", "max_tokens", "refusal"}
    BY <1>1 DEF ClaudeAnswers, ClaudeFinishes
  <2>3. QED
    BY <2>1, <2>2, ReadStep
<1>2. CASE OpenAIAnswers
  <2>1. provider # "google"
    BY <1>2 DEF OpenAIAnswers
  <2>2. CASE Responds(Failure({"nothing"}))
    BY <2>2, UnreadStep
  <2>3. CASE \E finish \in OpenAIFinishes, calls \in {"none", "some", "malformed"} :
               Responds(OpenAIParsed(calls, finish))
    <3>1. PICK finish \in OpenAIFinishes, calls \in {"none", "some", "malformed"} :
            Responds(OpenAIParsed(calls, finish))
      BY <2>3
    <3>2. CASE calls = "malformed"
      BY <3>1, <3>2, UnreadStep DEF OpenAIParsed
    <3>3. CASE calls # "malformed"
      <4>1. Responds(Answered(calls, finish, OpenAIStop(finish)))
        BY <3>1, <3>3 DEF OpenAIParsed
      <4>2. OpenAIStop(finish) = "tool_use" \/ finish \notin {"tool_use", "tool_calls"}
        BY <3>1 DEF OpenAIStop, OpenAIFinishes
      <4>3. QED
        BY <2>1, <4>1, <4>2, ReadStep
    <3>4. QED
      BY <3>2, <3>3
  <2>4. QED
    BY <1>2, <2>2, <2>3 DEF OpenAIAnswers
<1>3. CASE GeminiAnswers
  <2>1. CASE Responds(Failure({"nothing"}))
    BY <2>1, UnreadStep
  <2>2. CASE \E finish \in GeminiFinishes, calls \in {"none", "some"} :
               Responds(Answered(calls, finish, GeminiStop(finish, calls)))
    <3>1. PICK finish \in GeminiFinishes, calls \in {"none", "some"} :
            Responds(Answered(calls, finish, GeminiStop(finish, calls)))
      BY <2>2
    <3>2. calls = "some" => GeminiStop(finish, calls) = "tool_use"
      BY DEF GeminiStop
    <3>3. QED
      BY <3>1, <3>2, ReadStep
  <2>3. QED
    BY <1>3, <2>1, <2>2 DEF GeminiAnswers
<1>4. QED
  BY <1>1, <1>2, <1>3

LEMMA AgainStep ==
  ASSUME GatewayInv, TryAgain PROVE GatewayInv'
<1>1. /\ chatAt = "pausing" /\ chatAt' = "asking" /\ attempt' = attempt + 1 /\ sdkTry' = 0
      /\ UNCHANGED <<defaultModel, apiKeys, gatewayAt, askedModel, requests, chatResult>>
  BY DEF TryAgain
<1>2. chosen' \in BOOLEAN /\ tooLong' \in BOOLEAN
  BY Zenon DEF TryAgain, GatewayInv
<1>3. attempt \in Nat /\ attempt < MaxRetries /\ requests = (attempt + 1) * RequestsPerTry
  BY <1>1 DEF GatewayInv, CountInv
<1>4. provider' = provider /\ MaxRetries' = MaxRetries /\ RequestsPerTry' = RequestsPerTry
  BY <1>1, Standing
<1>5. (attempt + 1) * RequestsPerTry \in Nat /\ attempt + 1 \in Nat /\ attempt + 1 <= MaxRetries
  <2>1. attempt + 1 \in Nat /\ MaxRetries \in {2, 3}
    BY <1>3 DEF MaxRetries
  <2>2. QED
    BY <1>3, <2>1, Counts
<1>6. requests' = attempt' * RequestsPerTry' + sdkTry'
  <2> DEFINE made == (attempt + 1) * RequestsPerTry
  <2>1. made \in Nat /\ requests' = made /\ attempt' * RequestsPerTry' = made
    BY <1>1, <1>3, <1>4, <1>5
  <2> HIDE DEF made
  <2>2. QED
    BY <1>1, <2>1
<1>7. CountInv'
  BY <1>1, <1>4, <1>5, <1>6, GatewayAssumption DEF CountInv
<1>8. gatewayAt' = "up" /\ Name(askedModel') /\ chatResult' = NoResult
  BY <1>1 DEF GatewayInv
<1>9. QED
  BY <1>1, <1>2, <1>7, <1>8, Standing DEF GatewayInv

LEMMA ReturnStep ==
  ASSUME GatewayInv, ChatReturns PROVE GatewayInv'
<1>1. /\ chatAt' = "idle" /\ attempt' = 0 /\ sdkTry' = 0 /\ requests' = 0
      /\ chatResult' = NoResult /\ UNCHANGED <<defaultModel, apiKeys, gatewayAt>>
  BY DEF ChatReturns
<1>2. chosen' \in BOOLEAN /\ tooLong' \in BOOLEAN
  BY Zenon DEF ChatReturns
<1>3. MaxRetries' \in Nat
  BY DEF MaxRetries
<1>4. CountInv'
  BY <1>1, <1>3, GatewayAssumption DEF CountInv
<1>5. QED
  BY <1>1, <1>2, <1>4, Standing DEF GatewayInv

LEMMA GatewayInvStep ==
  ASSUME GatewayInv, [GatewayNext]_gatewayVars PROVE GatewayInv'
<1>1. CASE ChatOfThread
  <2>1. Name(defaultModel)
    BY ModelsAreNamed DEF GatewayInv
  <2>2. AskModel(defaultModel, FALSE)
    BY <1>1, Zenon DEF ChatOfThread
  <2>3. QED
    BY <2>1, <2>2, AskStep, Zenon
<1>2. CASE ChatOfJob
  <2>1. PICK tier \in 1..3, override \in JobModels \cup {None} :
          AskModel(ModelForTier(tier, override), override # None)
    BY <1>2, Zenon DEF ChatOfJob
  <2>2. Name(ModelForTier(tier, override))
    BY ModelsAreNamed
  <2>3. (override # None) \in BOOLEAN
    OBVIOUS
  <2>4. QED
    BY <2>1, <2>2, <2>3, AskStep, Zenon
<1>3. CASE UNCHANGED gatewayVars
  <2>1. /\ UNCHANGED <<defaultModel, apiKeys, gatewayAt, askedModel, chatAt, attempt, sdkTry,
                       requests, reply, chatResult>>
    BY <1>3 DEF gatewayVars
  <2>2. chosen' \in BOOLEAN /\ tooLong' \in BOOLEAN
    BY <1>3, Zenon DEF gatewayVars, GatewayInv
  <2>3. provider' = provider /\ MaxRetries' = MaxRetries /\ RequestsPerTry' = RequestsPerTry
    BY <2>1, Standing
  <2>4. CountInv'
    BY <2>1, <2>3 DEF GatewayInv, CountInv
  <2>5. ASSUME chatAt = "settled" PROVE FailedInv' \/ RespondedInv'
    <3>1. CASE FailedInv
      <4>1. MessageOf(reply)' = MessageOf(reply)
        BY <2>1, <2>3 DEF MessageOf, MapProviderError, MapGeminiError, MapOpenAIError, Spoken,
               Wording
      <4>2. QED
        BY <2>1, <2>3, <3>1, <4>1 DEF FailedInv, Failure, Retryable, SdkRepeats
    <3>2. CASE RespondedInv
      BY <2>1, <2>3, <3>2 DEF RespondedInv, Failure, Answered, FindPricing
    <3>3. QED
      BY <2>5, <3>1, <3>2 DEF GatewayInv
  <2>6. /\ chatAt' \in {"idle", "asking", "pausing", "settled"}
        /\ chatAt' # "idle" => gatewayAt' = "up" /\ Name(askedModel')
        /\ chatAt' # "settled" => chatResult' = NoResult
    BY <2>1 DEF GatewayInv
  <2>7. QED
    BY <2>1, <2>2, <2>4, <2>5, <2>6, Standing DEF GatewayInv
<1>4. QED
  BY <1>1, <1>2, <1>3, StartStep, RepeatStep, FailsStep, AnswersStep, AgainStep, ReturnStep
     DEF GatewayNext

\* Every call of the model is settled as the runner needs it: a gateway that is up has the
\* key of its provider, prompts that are too long are recognised and nothing else is, a
\* call gives up only after all its repetitions and never makes more, the calls of tools
\* in a response are executed, and an answer has the price of its model's most specific
\* entry; for all models, all configurations, and every number of repetitions of the client.
THEOREM CallsSettled == GatewaySpec => [](GatewayTypeOK /\ ModelCallsAreSettled)
<1>1. GatewaySpec => []GatewayInv
  BY GatewayInvInit, GatewayInvStep, PTL DEF GatewaySpec
<1>2. QED
  BY <1>1, GatewayInvSuffices, PTL

-----------------------------------------------------------------------------
(* The month's budget.                                                     *)

MaxBudget == Max(Budgets \cup {DefaultBudget})
MaxCents  == Cents(Max(Costs))

\* Callers of a workspace that have passed its check, and callers that have passed both.
PassedOwn(w) == {c \in Guests(w) : usageAt[c] \in {"readGlobal", "running", "record"}}
PassedAll    == {c \in Callers : usageAt[c] \in {"running", "record"}}

\* What may still be spent is kept for those that have passed: each will add no more
\* than the dearest run.
RoomInv ==
  \A w \in Workspaces :
    used[w] # 0 \/ PassedOwn(w) # {} =>
      used[w] + 1 + Cardinality(PassedOwn(w)) * MaxCents
        <= MaxBudget + Cardinality(Guests(w)) * MaxCents

GlobalRoomInv ==
  GlobalBudget > 0 =>
    usedByAll + 1 + Cardinality(PassedAll) * MaxCents
      <= GlobalBudget + Cardinality(Callers) * MaxCents

\* Limits are those that may be set, wherever they are on their way.
Form(form) ==
  /\ form \in [Settings -> Nat]
  /\ form["budget"] = Unset \/ form["budget"] - 1 \in Budgets

\* A draft is what the column holds, or is known to be outdated.
DraftInv ==
  /\ draft \in [Workspaces -> [Settings -> SUBSET [Settings -> Nat]]]
  /\ \A w \in Workspaces :
       /\ Form(settings[w])
       /\ \A f \in Settings : \A form \in draft[w][f] :
            Form(form) /\ (<<w, f>> \notin outdated => form = settings[w])

UsageInv ==
  /\ UsageTypeOK
  /\ \A c \in Callers : sawLimit[c] \in 0..MaxBudget
  /\ DraftInv /\ RoomInv /\ GlobalRoomInv /\ RecordsTrackSpending
-----------------------------------------------------------------------------
\* A finite set of natural numbers has a greatest element.
LEMMA MaxIsGreatest ==
  ASSUME NEW S \in SUBSET Nat, IsFiniteSet(S), S # {}
  PROVE  Max(S) \in S /\ \A n \in S : n <= Max(S)
<1> DEFINE Topped(T) == \E x \in T : \A y \in T : x >= y
           bad == {T \in SUBSET S : T # {} /\ ~Topped(T)}
<1>1. SUFFICES ASSUME ~Topped(S) PROVE FALSE
  <2>1. Topped(S) => Max(S) \in S /\ \A n \in S : Max(S) >= n
    BY DEF Max
  <2>2. QED
    BY <2>1
<1>2. bad # {} /\ bad \subseteq FiniteSubsetsOf(S)
  BY <1>1, FS_FiniteSubsetsOfFinite
<1>3. PICK T \in bad : \A U \in bad : <<U, T>> \notin StrictSubsetOrdering(S)
  <2> HIDE DEF bad
  <2>1. QED
    BY <1>2, FS_StrictSubsetOrderingWellFounded, WFMin
<1>4. PICK x \in T : TRUE
  OBVIOUS
<1>5. T \ {x} \notin bad
  BY <1>3, <1>4 DEF StrictSubsetOrdering
<1>6. CASE T \ {x} = {}
  BY <1>3, <1>4, <1>6
<1>7. CASE T \ {x} # {}
  <2>1. PICK m \in T \ {x} : \A y \in T \ {x} : m >= y
    BY <1>5, <1>7
  <2>2. (x >= m => \A y \in T : x >= y) /\ (m >= x => \A y \in T : m >= y) /\ {x, m} \subseteq Nat
    BY <1>3, <1>4, <2>1
  <2>3. QED
    BY <1>3, <1>4, <2>1, <2>2
<1>8. QED
  BY <1>6, <1>7

LEMMA CentsRound ==
  ASSUME NEW n \in Nat
  PROVE  /\ Cents(n) \in Nat
         /\ n <= 10 * Cents(n) + 5 /\ 10 * Cents(n) <= n + 5
         /\ \A m \in Nat : m <= n => Cents(m) <= Cents(n)
BY DEF Cents

LEMMA Bounds ==
  /\ MaxBudget \in Nat /\ DefaultBudget <= MaxBudget /\ \A b \in Budgets : b <= MaxBudget
  /\ MaxCents \in Nat /\ \A tenths \in Costs \cup {0} : Cents(tenths) <= MaxCents
<1>1. /\ Budgets \cup {DefaultBudget} \in SUBSET Nat /\ IsFiniteSet(Budgets \cup {DefaultBudget})
      /\ Costs \in SUBSET Nat /\ IsFiniteSet(Costs) /\ Costs # {}
  BY FS_AddElement, UsageAssumption
<1>2. /\ MaxBudget \in Budgets \cup {DefaultBudget}
      /\ \A n \in Budgets \cup {DefaultBudget} : n <= MaxBudget
  BY <1>1, MaxIsGreatest DEF MaxBudget
<1>3. Max(Costs) \in Costs /\ \A n \in Costs : n <= Max(Costs)
  BY <1>1, MaxIsGreatest
<1>4. Max(Costs) \in Nat /\ \A n \in Costs \cup {0} : n \in Nat /\ n <= Max(Costs)
  <2> DEFINE top == Max(Costs)
  <2>1. top \in Nat /\ \A n \in Costs : n \in Nat /\ n <= top
    <3> HIDE DEF top
    <3>1. top \in Costs /\ \A n \in Costs : n <= top
      BY <1>3 DEF top
    <3>2. QED
      BY <1>1, <3>1
  <2> HIDE DEF top
  <2>2. top \in Nat /\ \A n \in Costs \cup {0} : n \in Nat /\ n <= top
    BY <2>1
  <2>3. QED
    BY <2>2 DEF top
<1>5. QED
  BY <1>1, <1>2, <1>4, CentsRound DEF MaxCents

LEMMA CostsAreTenths == \A tenths \in Costs \cup {0} : tenths \in Nat
<1>1. Costs \in SUBSET Nat
  BY UsageAssumption
<1>2. QED
  BY <1>1

LEMMA UsageInvInit == UsageInit => UsageInv
<1> SUFFICES ASSUME UsageInit PROVE UsageInv
  OBVIOUS
<1>1. UsageTypeOK /\ RecordsTrackSpending /\ DraftInv
  BY UsageAssumption DEF UsageInit, UsageTypeOK, RecordsTrackSpending, DraftInv, Form, Unset
<1>2. \A w \in Workspaces : used[w] = 0 /\ PassedOwn(w) = {}
  BY DEF UsageInit, PassedOwn, Guests
<1>3. PassedAll = {} /\ usedByAll = 0
  BY DEF UsageInit, PassedAll
<1>4. RoomInv
  BY <1>2 DEF RoomInv
<1>5. Cardinality(Callers) \in Nat /\ Cardinality(PassedAll) = 0
  BY <1>3, FS_CardinalityType, FS_EmptySet, UsageAssumption
<1>6. GlobalRoomInv
  <2>1. \A a, b \in Nat : a * b \in Nat /\ 0 * b = 0
    OBVIOUS
  <2>2. Cardinality(Callers) * MaxCents \in Nat /\ Cardinality(PassedAll) * MaxCents = 0
    BY <1>5, <2>1, Bounds
  <2> DEFINE room == Cardinality(Callers) * MaxCents
             kept == Cardinality(PassedAll) * MaxCents
  <2> HIDE DEF room, kept
  <2>3. room \in Nat /\ kept = 0
    BY <2>2 DEF room, kept
  <2>4. GlobalBudget > 0 => usedByAll + 1 + kept <= GlobalBudget + room
    BY <1>3, <2>3, UsageAssumption
  <2>5. QED
    BY <2>4 DEF GlobalRoomInv, room, kept
<1>7. \A c \in Callers : sawLimit[c] \in 0..MaxBudget
  BY Bounds DEF UsageInit
<1>8. QED
  BY <1>1, <1>4, <1>6, <1>7 DEF UsageInv

\* What is kept for callers is at least nothing.
LEMMA Reserves ==
  /\ Cardinality(Callers) * MaxCents \in Nat /\ Cardinality(PassedAll) * MaxCents \in Nat
  /\ \A w \in Workspaces : /\ Cardinality(Guests(w)) * MaxCents \in Nat
                           /\ Cardinality(PassedOwn(w)) * MaxCents \in Nat
<1>1. \A S \in SUBSET Callers : Cardinality(S) \in Nat
  BY UsageAssumption, FS_Subset, FS_CardinalityType
<1>2. \A a, b \in Nat : a * b \in Nat
  OBVIOUS
<1>3. \A S \in SUBSET Callers : Cardinality(S) * MaxCents \in Nat
  BY <1>1, <1>2, Bounds
<1>4. /\ PassedAll \in SUBSET Callers
      /\ \A w \in Workspaces : Guests(w) \in SUBSET Callers /\ PassedOwn(w) \in SUBSET Callers
  BY DEF PassedAll, Guests, PassedOwn
<1>5. QED
  BY <1>3, <1>4

LEMMA UsageInvSuffices == UsageInv => SpendingIsBounded
<1> SUFFICES ASSUME UsageInv PROVE SpendingIsBounded
  OBVIOUS
<1>1. ASSUME NEW w \in Workspaces, used[w] # 0
      PROVE  used[w] + 1 <= MaxBudget + Cardinality(Guests(w)) * MaxCents
  <2> DEFINE room == Cardinality(Guests(w)) * MaxCents
             kept == Cardinality(PassedOwn(w)) * MaxCents
  <2> HIDE DEF room, kept
  <2>1. used[w] + 1 + kept <= MaxBudget + room /\ used[w] \in Nat
    BY <1>1 DEF UsageInv, RoomInv, UsageTypeOK, room, kept
  <2>2. room \in Nat /\ kept \in Nat
    BY Reserves DEF room, kept
  <2>3. used[w] + 1 <= MaxBudget + room
    BY <2>1, <2>2, Bounds
  <2>4. QED
    BY <2>3 DEF room
<1>2. OverspendIsBounded
  BY <1>1 DEF OverspendIsBounded, MaxBudget, MaxCents
<1>3. ASSUME GlobalBudget > 0
      PROVE  usedByAll + 1 <= GlobalBudget + Cardinality(Callers) * MaxCents
  <2> DEFINE room == Cardinality(Callers) * MaxCents
             kept == Cardinality(PassedAll) * MaxCents
  <2> HIDE DEF room, kept
  <2>1. usedByAll + 1 + kept <= GlobalBudget + room /\ usedByAll \in Nat
    BY <1>3 DEF UsageInv, GlobalRoomInv, UsageTypeOK, room, kept
  <2>2. room \in Nat /\ kept \in Nat
    BY Reserves DEF room, kept
  <2>3. usedByAll + 1 <= GlobalBudget + room
    BY <2>1, <2>2, UsageAssumption
  <2>4. QED
    BY <2>3 DEF room
<1>4. GlobalOverspendIsBounded
  BY <1>3 DEF GlobalOverspendIsBounded, MaxCents
<1>5. QED
  BY <1>2, <1>4 DEF SpendingIsBounded, UsageInv
-----------------------------------------------------------------------------
\* Fewer callers take no more, and one less takes the price of one less.
LEMMA FewerTakeLess ==
  ASSUME NEW S \in SUBSET Callers, NEW T \in SUBSET S
  PROVE  /\ Cardinality(S) * MaxCents \in Nat /\ Cardinality(T) * MaxCents \in Nat
         /\ Cardinality(T) * MaxCents <= Cardinality(S) * MaxCents
<1>1. Cardinality(S) \in Nat /\ Cardinality(T) \in Nat /\ Cardinality(T) <= Cardinality(S)
  BY UsageAssumption, FS_Subset, FS_CardinalityType
<1>2. \A a, b, k \in Nat : a <= b => a * k \in Nat /\ b * k \in Nat /\ a * k <= b * k
  <2> SUFFICES ASSUME NEW a \in Nat, NEW b \in Nat, NEW k \in Nat, a <= b
               PROVE  a * k \in Nat /\ b * k \in Nat /\ a * k <= b * k
    OBVIOUS
  <2>1. \A x, y \in Nat : x * y \in Nat
    OBVIOUS
  <2>2. b - a \in Nat /\ b * k = a * k + (b - a) * k
    OBVIOUS
  <2>3. a * k \in Nat /\ b * k \in Nat /\ (b - a) * k \in Nat
    BY <2>1, <2>2
  <2>4. QED
    BY <2>2, <2>3
<1>3. QED
  BY <1>1, <1>2, Bounds

LEMMA OneTakesLess ==
  ASSUME NEW S \in SUBSET Callers, NEW c \in S
  PROVE  Cardinality(S \ {c}) * MaxCents + MaxCents = Cardinality(S) * MaxCents
<1>1. IsFiniteSet(S) /\ Cardinality(S) \in Nat
  BY UsageAssumption, FS_Subset, FS_CardinalityType
<1>2. Cardinality(S \ {c}) = Cardinality(S) - 1
  BY <1>1, FS_RemoveElement
<1>3. \A a, k \in Nat : (a - 1) * k + k = a * k
  OBVIOUS
<1>4. QED
  BY <1>1, <1>2, <1>3, Bounds

LEMMA GuestsAreCallers ==
  /\ PassedAll \in SUBSET Callers
  /\ \A w \in Workspaces : Guests(w) \in SUBSET Callers /\ PassedOwn(w) \in SUBSET Guests(w)
BY DEF PassedAll, Guests, PassedOwn

\* Where nobody passed and nothing was recorded, the room is what it was or more.
LEMMA RoomStays ==
  ASSUME UsageInv, used' = used, NEW w \in Workspaces, PassedOwn(w)' \subseteq PassedOwn(w),
         used'[w] # 0 \/ PassedOwn(w)' # {}
  PROVE  used'[w] + 1 + Cardinality(PassedOwn(w)') * MaxCents
           <= MaxBudget + Cardinality(Guests(w)) * MaxCents
<1> DEFINE room == Cardinality(Guests(w)) * MaxCents
           kept == Cardinality(PassedOwn(w)) * MaxCents
           left == Cardinality(PassedOwn(w)') * MaxCents
<1>1. room \in Nat /\ kept \in Nat /\ left \in Nat /\ left <= kept
  <2>1. PassedOwn(w) \in SUBSET Callers /\ PassedOwn(w)' \in SUBSET PassedOwn(w)
    BY GuestsAreCallers
  <2>2. QED
    BY <2>1, FewerTakeLess, Reserves
<1>2. used[w] + 1 + kept <= MaxBudget + room /\ used[w] \in Nat
  BY DEF UsageInv, RoomInv, UsageTypeOK
<1> HIDE DEF room, kept, left
<1>3. used'[w] + 1 + left <= MaxBudget + room
  BY <1>1, <1>2, Bounds
<1>4. QED
  BY <1>3 DEF room, left

LEMMA GlobalRoomStays ==
  ASSUME UsageInv, usedByAll' = usedByAll, PassedAll' \subseteq PassedAll
  PROVE  GlobalRoomInv'
<1> DEFINE room == Cardinality(Callers) * MaxCents
           kept == Cardinality(PassedAll) * MaxCents
           left == Cardinality(PassedAll') * MaxCents
<1>1. room \in Nat /\ kept \in Nat /\ left \in Nat /\ left <= kept
  BY GuestsAreCallers, FewerTakeLess, Reserves
<1>2. GlobalBudget > 0 => usedByAll + 1 + kept <= GlobalBudget + room
  BY DEF UsageInv, GlobalRoomInv
<1>3. usedByAll \in Nat
  BY DEF UsageInv, UsageTypeOK
<1> HIDE DEF room, kept, left
<1>4. GlobalBudget > 0 => usedByAll' + 1 + left <= GlobalBudget + room
  BY <1>1, <1>2, <1>3, UsageAssumption
<1>5. QED
  BY <1>4 DEF room, left, GlobalRoomInv

\* A workspace that is admitted has a cent of its own limit left.
LEMMA RoomForAdmitted ==
  ASSUME UsageInv, used' = used, NEW w \in Workspaces, used[w] < MaxBudget,
         PassedOwn(w)' \subseteq Guests(w)
  PROVE  used'[w] + 1 + Cardinality(PassedOwn(w)') * MaxCents
           <= MaxBudget + Cardinality(Guests(w)) * MaxCents
<1> DEFINE room == Cardinality(Guests(w)) * MaxCents
           left == Cardinality(PassedOwn(w)') * MaxCents
<1>1. room \in Nat /\ left \in Nat /\ left <= room
  BY GuestsAreCallers, FewerTakeLess
<1>2. used[w] \in Nat
  BY DEF UsageInv, UsageTypeOK
<1> HIDE DEF room, left
<1>3. used'[w] + 1 + left <= MaxBudget + room
  BY <1>1, <1>2, Bounds
<1>4. QED
  BY <1>3 DEF room, left

LEMMA GlobalRoomForAdmitted ==
  ASSUME UsageInv, usedByAll' = usedByAll, usedByAll < GlobalBudget, PassedAll' \subseteq Callers
  PROVE  GlobalRoomInv'
<1> DEFINE room == Cardinality(Callers) * MaxCents
           left == Cardinality(PassedAll') * MaxCents
<1>1. room \in Nat /\ left \in Nat /\ left <= room
  BY FewerTakeLess
<1>2. usedByAll \in Nat
  BY DEF UsageInv, UsageTypeOK
<1> HIDE DEF room, left
<1>3. GlobalBudget > 0 => usedByAll' + 1 + left <= GlobalBudget + room
  BY <1>1, <1>2, UsageAssumption
<1>4. QED
  BY <1>3 DEF room, left, GlobalRoomInv

\* What a recorded run costs is taken out of what was kept for it.
LEMMA RoomForRecord ==
  ASSUME UsageInv, NEW c \in Callers, usageAt[c] = "record",
         used' = [used EXCEPT ![HomeOf[c]] = @ + Cents(cost[c])],
         usedByAll' = usedByAll + Cents(cost[c]),
         usageAt' = [usageAt EXCEPT ![c] = "idle"]
  PROVE  RoomInv' /\ GlobalRoomInv'
<1> DEFINE h == HomeOf[c]
<1>1. /\ h \in Workspaces /\ c \in PassedOwn(h) /\ c \in PassedAll
      /\ \A d \in Callers : usageAt'[d] = IF d = c THEN "idle" ELSE usageAt[d]
  BY UsageAssumption DEF UsageInv, UsageTypeOK, PassedOwn, PassedAll, Guests
<1>2. PassedOwn(h)' = PassedOwn(h) \ {c} /\ PassedAll' = PassedAll \ {c}
  BY <1>1 DEF PassedOwn, PassedAll, Guests
<1>3. \A w \in Workspaces \ {h} : PassedOwn(w)' = PassedOwn(w) /\ used'[w] = used[w]
  BY <1>1 DEF PassedOwn, Guests, UsageInv, UsageTypeOK
<1>4. /\ used'[h] = used[h] + Cents(cost[c]) /\ used[h] \in Nat /\ usedByAll \in Nat
      /\ Cents(cost[c]) \in Nat /\ Cents(cost[c]) <= MaxCents
  <2>0. cost[c] \in Costs \cup {0}
    BY DEF UsageInv, UsageTypeOK
  <2>1. cost[c] \in Nat
    BY <2>0, CostsAreTenths
  <2>2. Cents(cost[c]) \in Nat /\ Cents(cost[c]) <= MaxCents
    BY <2>0, <2>1, Bounds, CentsRound
  <2>3. QED
    BY <1>1, <2>2 DEF UsageInv, UsageTypeOK
<1>5. used'[h] + 1 + Cardinality(PassedOwn(h)') * MaxCents
        <= MaxBudget + Cardinality(Guests(h)) * MaxCents
  <2> DEFINE room  == Cardinality(Guests(h)) * MaxCents
             kept  == Cardinality(PassedOwn(h)) * MaxCents
             left  == Cardinality(PassedOwn(h)') * MaxCents
             cents == Cents(cost[c])
  <2>1. used[h] + 1 + kept <= MaxBudget + room
    BY <1>1 DEF UsageInv, RoomInv
  <2>2. left + MaxCents = kept
    BY <1>1, <1>2, OneTakesLess, GuestsAreCallers
  <2>3. room \in Nat /\ kept \in Nat /\ left \in Nat
    BY <1>1, <1>2, FewerTakeLess, GuestsAreCallers, Reserves
  <2>4. cents \in Nat /\ cents <= MaxCents /\ used'[h] = used[h] + cents /\ used[h] \in Nat
    BY <1>4
  <2> HIDE DEF room, kept, left, cents, h
  <2>5. used'[h] + 1 + left <= MaxBudget + room
    BY <2>1, <2>2, <2>3, <2>4, Bounds
  <2>6. QED
    BY <2>5 DEF room, left
<1>6. ASSUME NEW w \in Workspaces \ {h}, used'[w] # 0 \/ PassedOwn(w)' # {}
      PROVE  used'[w] + 1 + Cardinality(PassedOwn(w)') * MaxCents
               <= MaxBudget + Cardinality(Guests(w)) * MaxCents
  <2>1. used[w] # 0 \/ PassedOwn(w) # {}
    BY <1>3, <1>6
  <2>2. used[w] + 1 + Cardinality(PassedOwn(w)) * MaxCents
          <= MaxBudget + Cardinality(Guests(w)) * MaxCents
    BY <2>1 DEF UsageInv, RoomInv
  <2>3. QED
    BY <1>3, <2>2
<1>7. ASSUME NEW w \in Workspaces PROVE Guests(w)' = Guests(w)
  BY DEF Guests
<1>8. RoomInv'
  <2> HIDE DEF h
  <2>1. QED
    BY <1>5, <1>6, <1>7 DEF RoomInv
<1>9. GlobalRoomInv'
  <2> DEFINE room  == Cardinality(Callers) * MaxCents
             kept  == Cardinality(PassedAll) * MaxCents
             left  == Cardinality(PassedAll') * MaxCents
             cents == Cents(cost[c])
  <2>1. GlobalBudget > 0 => usedByAll + 1 + kept <= GlobalBudget + room
    BY DEF UsageInv, GlobalRoomInv
  <2>2. left + MaxCents = kept
    BY <1>1, <1>2, OneTakesLess, GuestsAreCallers
  <2>3. room \in Nat /\ kept \in Nat /\ left \in Nat
    BY <1>1, <1>2, FewerTakeLess, GuestsAreCallers, Reserves
  <2>4. cents \in Nat /\ cents <= MaxCents /\ usedByAll' = usedByAll + cents /\ usedByAll \in Nat
    BY <1>4
  <2> HIDE DEF room, kept, left, cents
  <2>5. GlobalBudget > 0 => usedByAll' + 1 + left <= GlobalBudget + room
    BY <2>1, <2>2, <2>3, <2>4, Bounds, UsageAssumption
  <2>6. QED
    BY <2>5 DEF room, left, GlobalRoomInv
<1>10. QED
  BY <1>8, <1>9
-----------------------------------------------------------------------------
LEMMA LimitsAreBudgets ==
  UsageInv => \A w \in Workspaces : LimitOf(w) \in 0..MaxBudget
<1> SUFFICES ASSUME UsageInv, NEW w \in Workspaces PROVE LimitOf(w) \in 0..MaxBudget
  OBVIOUS
<1>1. settings[w]["budget"] = Unset \/ settings[w]["budget"] - 1 \in Budgets
  BY DEF UsageInv, DraftInv, Form
<1>2. Budgets \in SUBSET Nat /\ DefaultBudget \in Nat
  BY UsageAssumption
<1>3. \A b \in Budgets \cup {DefaultBudget} : b \in 0..MaxBudget
  BY <1>2, Bounds
<1> DEFINE budget == settings[w]["budget"]
<1>4. LimitOf(w) = IF budget = Unset THEN DefaultBudget ELSE budget - 1
  BY DEF LimitOf
<1> HIDE DEF budget
<1>5. budget = Unset \/ budget - 1 \in Budgets
  BY <1>1 DEF budget
<1>6. QED
  BY <1>3, <1>4, <1>5

\* A caller's step that leaves the columns and the books alone, and takes it where from
\* says, keeps all but the room.
LEMMA CallersKeep ==
  ASSUME UsageInv, UNCHANGED <<forms, used, spent, records>>, NEW c \in Callers,
         NEW to \in {"idle", "readUsage", "readGlobal", "running", "record"},
         usageAt' = [usageAt EXCEPT ![c] = to], usedByAll' = usedByAll,
         sawLimit' \in [Callers -> 0..MaxBudget], cost' \in [Callers -> Costs \cup {0}],
         RoomInv', GlobalRoomInv'
  PROVE  UsageInv'
<1>1. DraftInv' /\ RecordsTrackSpending'
  BY DEF UsageInv, DraftInv, RecordsTrackSpending, forms
<1>2. sawLimit' \in [Callers -> Nat]
  BY Bounds
<1>3. UsageTypeOK'
  BY <1>2 DEF UsageInv, UsageTypeOK, forms
<1>4. QED
  BY <1>1, <1>3 DEF UsageInv

LEMMA CallerStepKeeps ==
  ASSUME UsageInv, NEW c \in Callers, CallerStep(c) PROVE UsageInv'
<1>0. /\ usageAt \in [Callers -> {"idle", "readUsage", "readGlobal", "running", "record"}]
      /\ sawLimit \in [Callers -> 0..MaxBudget] /\ cost \in [Callers -> Costs \cup {0}]
      /\ \A w \in Workspaces : used[w] \in Nat
      /\ HomeOf[c] \in Workspaces /\ \A w \in Workspaces : Guests(w)' = Guests(w)
  <2>1. sawLimit \in [Callers -> Nat] /\ \A d \in Callers : sawLimit[d] \in 0..MaxBudget
    BY DEF UsageInv, UsageTypeOK
  <2>2. sawLimit \in [Callers -> 0..MaxBudget]
    BY <2>1
  <2>3. QED
    BY <2>2, UsageAssumption DEF UsageInv, UsageTypeOK, Guests
<1>1. ASSUME NEW from, NEW to, Move(c, from, to),
             from \in {"readGlobal", "running", "record"}
                \/ to \notin {"readGlobal", "running", "record"}
      PROVE  \A w \in Workspaces : PassedOwn(w)' \subseteq PassedOwn(w)
  BY <1>0, <1>1 DEF Move, PassedOwn, Guests
<1>2. ASSUME NEW from, NEW to, Move(c, from, to),
             from \in {"running", "record"} \/ to \notin {"running", "record"}
      PROVE  PassedAll' \subseteq PassedAll
  BY <1>0, <1>2 DEF Move, PassedAll
<1>3. ASSUME used' = used, \A w \in Workspaces : PassedOwn(w)' \subseteq PassedOwn(w)
      PROVE  RoomInv'
  BY <1>0, <1>3, RoomStays DEF RoomInv
<1>4. CASE ReadLimit(c)
  <2>1. /\ Move(c, "idle", "readUsage") /\ UNCHANGED <<forms, books, cost>>
        /\ sawLimit' = [sawLimit EXCEPT ![c] = LimitOf(HomeOf[c])]
    BY <1>4 DEF ReadLimit
  <2>2. sawLimit' \in [Callers -> 0..MaxBudget]
    BY <1>0, <2>1, LimitsAreBudgets
  <2>3. RoomInv' /\ GlobalRoomInv'
    BY <1>1, <1>2, <1>3, <2>1, GlobalRoomStays DEF books
  <2>4. QED
    BY <1>0, <2>1, <2>2, <2>3, CallersKeep DEF books, Move
<1>5. CASE ReadUsage(c)
  <2>1. PICK to \in {"idle", "readGlobal", "running"} :
          /\ Move(c, "readUsage", to) /\ UNCHANGED <<forms, books, cost>>
          /\ sawLimit' = [sawLimit EXCEPT ![c] = 0]
          /\ to # "idle" => Admitted(c)
          /\ to = "running" => ~(GlobalBudget > 0)
    <3>1. CASE ~Admitted(c)
      BY <1>5, <3>1 DEF ReadUsage
    <3>2. CASE Admitted(c) /\ GlobalBudget > 0
      BY <1>5, <3>2 DEF ReadUsage
    <3>3. CASE Admitted(c) /\ ~(GlobalBudget > 0)
      BY <1>5, <3>3 DEF ReadUsage
    <3>4. QED
      BY <3>1, <3>2, <3>3
  <2>2. sawLimit' \in [Callers -> 0..MaxBudget]
    BY <1>0, <2>1, Bounds
  <2>3. GlobalRoomInv'
    <3>1. CASE to = "running"
      BY <2>1, <3>1 DEF GlobalRoomInv
    <3>2. CASE to # "running"
      <4>1. PassedAll' \subseteq PassedAll
        BY <1>2, <2>1, <3>2
      <4>2. QED
        BY <2>1, <4>1, GlobalRoomStays DEF books
    <3>3. QED
      BY <3>1, <3>2
  <2>4. ASSUME NEW w \in Workspaces, used'[w] # 0 \/ PassedOwn(w)' # {}
        PROVE  used'[w] + 1 + Cardinality(PassedOwn(w)') * MaxCents
                 <= MaxBudget + Cardinality(Guests(w)') * MaxCents
    <3>1. used' = used /\ Guests(w)' = Guests(w)
      BY <1>0, <2>1 DEF books
    <3>2. CASE to # "idle" /\ w = HomeOf[c]
      <4>1. used[w] < MaxBudget
        <5>1. used[w] < sawLimit[c] /\ sawLimit[c] \in 0..MaxBudget /\ used[w] \in Nat
          BY <1>0, <2>1, <3>2 DEF Admitted
        <5>2. QED
          BY <5>1, Bounds
      <4>2. PassedOwn(w)' \subseteq Guests(w)
        BY DEF PassedOwn, Guests
      <4>3. QED
        BY <3>1, <4>1, <4>2, RoomForAdmitted
    <3>3. CASE ~(to # "idle" /\ w = HomeOf[c])
      <4>1. PassedOwn(w)' \subseteq PassedOwn(w)
        BY <1>0, <2>1, <3>3 DEF Move, PassedOwn, Guests
      <4>2. QED
        BY <2>4, <3>1, <4>1, RoomStays
    <3>4. QED
      BY <3>2, <3>3
  <2>5. RoomInv'
    BY <2>4 DEF RoomInv
  <2>6. QED
    BY <1>0, <2>1, <2>2, <2>3, <2>5, CallersKeep DEF books, Move
<1>6. CASE ReadGlobal(c)
  <2>1. PICK to \in {"idle", "running"} :
          /\ Move(c, "readGlobal", to) /\ UNCHANGED <<forms, books, sawLimit, cost>>
          /\ to = "running" => usedByAll < GlobalBudget
    BY <1>6 DEF ReadGlobal
  <2>2. RoomInv'
    BY <1>1, <1>3, <2>1 DEF books
  <2>3. GlobalRoomInv'
    <3>1. CASE to = "running"
      <4>1. PassedAll' \subseteq Callers
        BY DEF PassedAll
      <4>2. QED
        BY <2>1, <3>1, <4>1, GlobalRoomForAdmitted DEF books
    <3>2. CASE to = "idle"
      <4>1. PassedAll' \subseteq PassedAll
        BY <1>2, <2>1, <3>2
      <4>2. QED
        BY <2>1, <4>1, GlobalRoomStays DEF books
    <3>3. QED
      BY <3>1, <3>2
  <2>4. QED
    BY <1>0, <2>1, <2>2, <2>3, CallersKeep DEF books, Move
<1>7. CASE RunCosts(c)
  <2>1. PICK tenths \in Costs :
          /\ Move(c, "running", "record") /\ UNCHANGED <<forms, books, sawLimit>>
          /\ cost' = [cost EXCEPT ![c] = tenths]
    BY <1>7 DEF RunCosts
  <2>2. RoomInv' /\ GlobalRoomInv'
    BY <1>1, <1>2, <1>3, <2>1, GlobalRoomStays DEF books
  <2>3. cost' \in [Callers -> Costs \cup {0}]
    BY <1>0, <2>1
  <2>4. QED
    BY <1>0, <2>1, <2>2, <2>3, CallersKeep DEF books, Move
<1>8. CASE RunRejects(c)
  <2>1. Move(c, "running", "idle") /\ UNCHANGED <<forms, books, sawLimit, cost>>
    BY <1>8 DEF RunRejects
  <2>2. RoomInv' /\ GlobalRoomInv'
    BY <1>1, <1>2, <1>3, <2>1, GlobalRoomStays DEF books
  <2>3. QED
    BY <1>0, <2>1, <2>2, CallersKeep DEF books, Move
<1>9. CASE Record(c)
  <2>1. /\ Move(c, "record", "idle")
        /\ used'      = [used EXCEPT ![HomeOf[c]] = @ + Cents(cost[c])]
        /\ usedByAll' = usedByAll + Cents(cost[c])
        /\ spent'     = [spent EXCEPT ![HomeOf[c]] = @ + cost[c]]
        /\ records'   = records + 1
        /\ cost'      = [cost EXCEPT ![c] = 0]
        /\ UNCHANGED <<forms, sawLimit>>
    BY <1>9 DEF Record
  <2>2. RoomInv' /\ GlobalRoomInv'
    BY <2>1, RoomForRecord DEF Move
  <2>3. cost[c] \in Nat /\ Cents(cost[c]) \in Nat
        /\ cost[c] <= 10 * Cents(cost[c]) + 5 /\ 10 * Cents(cost[c]) <= cost[c] + 5
    <3>1. cost[c] \in Costs \cup {0}
      BY <1>0
    <3>2. cost[c] \in Nat
      BY <3>1, CostsAreTenths
    <3>3. QED
      BY <3>2, CentsRound
  <2>4. /\ used \in [Workspaces -> Nat] /\ spent \in [Workspaces -> Nat]
        /\ records \in Nat /\ usedByAll \in Nat
    BY DEF UsageInv, UsageTypeOK
  <2>5. /\ used' \in [Workspaces -> Nat] /\ spent' \in [Workspaces -> Nat]
        /\ records' \in Nat /\ usedByAll' \in Nat
    <3> DEFINE cents == Cents(cost[c])
               price == cost[c]
               h     == HomeOf[c]
    <3>1. /\ cents \in Nat /\ price \in Nat
          /\ used' = [used EXCEPT ![h] = @ + cents] /\ spent' = [spent EXCEPT ![h] = @ + price]
          /\ usedByAll' = usedByAll + cents /\ records' = records + 1
      BY <2>1, <2>3
    <3> HIDE DEF cents, price, h
    <3>2. \A w \in Workspaces : used[w] + cents \in Nat /\ spent[w] + price \in Nat
      BY <2>4, <3>1
    <3>3. used' \in [Workspaces -> Nat] /\ spent' \in [Workspaces -> Nat]
      BY <2>4, <3>1, <3>2
    <3>4. records' \in Nat /\ usedByAll' \in Nat
      BY <2>4, <3>1
    <3>5. QED
      BY <3>3, <3>4
  <2>6. RecordsTrackSpending'
    <3> SUFFICES ASSUME NEW w \in Workspaces
                 PROVE  /\ 10 * used'[w] <= spent'[w] + 5 * records'
                        /\ spent'[w] <= 10 * used'[w] + 5 * records'
      BY DEF RecordsTrackSpending
    <3>1. 10 * used[w] <= spent[w] + 5 * records /\ spent[w] <= 10 * used[w] + 5 * records
      BY DEF UsageInv, RecordsTrackSpending
    <3>2. /\ used'[w] = used[w] \/ used'[w] = used[w] + Cents(cost[c])
          /\ used'[w] = used[w] + Cents(cost[c]) <=> w = HomeOf[c] \/ Cents(cost[c]) = 0
      BY <2>1, <2>3, <2>4
    <3>3. CASE w = HomeOf[c]
      <4>1. used'[w] = used[w] + Cents(cost[c]) /\ spent'[w] = spent[w] + cost[c]
        BY <2>1, <2>4, <3>3
      <4> DEFINE cents == Cents(cost[c])
                 price == cost[c]
                 u == used[w]
                 s == spent[w]
      <4>2. /\ u \in Nat /\ s \in Nat /\ cents \in Nat /\ price \in Nat
            /\ price <= 10 * cents + 5 /\ 10 * cents <= price + 5
            /\ 10 * u <= s + 5 * records /\ s <= 10 * u + 5 * records
            /\ used'[w] = u + cents /\ spent'[w] = s + price
        BY <2>3, <2>4, <3>1, <4>1
      <4> HIDE DEF cents, price, u, s
      <4>3. QED
        BY <2>1, <2>4, <4>2
    <3>4. CASE w # HomeOf[c]
      BY <2>1, <2>4, <3>1, <3>4
    <3>5. QED
      BY <3>3, <3>4
  <2>7. UsageTypeOK' /\ sawLimit' = sawLimit
    BY <1>0, <2>1, <2>5 DEF UsageInv, UsageTypeOK, forms, Move
  <2>8. DraftInv'
    BY <2>1 DEF UsageInv, DraftInv, forms
  <2>9. QED
    BY <1>0, <2>2, <2>6, <2>7, <2>8 DEF UsageInv
<1>10. CASE RecordFails(c)
  <2>1. /\ Move(c, "record", "idle") /\ UNCHANGED <<forms, books, sawLimit>>
        /\ cost' = [cost EXCEPT ![c] = 0]
    BY <1>10 DEF RecordFails
  <2>2. RoomInv' /\ GlobalRoomInv'
    BY <1>1, <1>2, <1>3, <2>1, GlobalRoomStays DEF books
  <2>3. cost' \in [Callers -> Costs \cup {0}]
    BY <1>0, <2>1
  <2>4. QED
    BY <1>0, <2>1, <2>2, <2>3, CallersKeep DEF books, Move
<1>11. QED
  BY <1>4, <1>5, <1>6, <1>7, <1>8, <1>9, <1>10 DEF CallerStep

\* What SerialSettingsAreKept says of a step.
TakesBackOutdated ==
  \A v \in Workspaces, e, g \in Settings :
    /\ g # e /\ settings'[v][g] # settings[v][g]
    /\ draft[v][e] # {} /\ draft'[v][e] = {}
    => <<v, e>> \in outdated

\* The settings' writers leave the callers and the books alone.
LEMMA SettingsKeep ==
  ASSUME UsageInv, UNCHANGED <<books, usageAt, sawLimit, cost>>, DraftInv',
         settings' \in [Workspaces -> [Settings -> Nat]], outdated' \subseteq Workspaces \X Settings
  PROVE  UsageInv'
<1>1. RoomInv'
  BY DEF UsageInv, RoomInv, PassedOwn, Guests, books
<1>2. GlobalRoomInv' /\ RecordsTrackSpending' /\ UsageTypeOK'
  BY DEF UsageInv, GlobalRoomInv, PassedAll, RecordsTrackSpending, UsageTypeOK, books
<1>3. QED
  BY <1>1, <1>2 DEF UsageInv

LEMMA SettingsStepKeeps ==
  ASSUME UsageInv, NEW w \in Workspaces, NEW f \in Settings,
         ReadSettings(w, f) \/ WriteSettings(w, f)
  PROVE  UsageInv' /\ TakesBackOutdated
<1>0. /\ settings \in [Workspaces -> [Settings -> Nat]] /\ outdated \subseteq Workspaces \X Settings
      /\ draft \in [Workspaces -> [Settings -> SUBSET [Settings -> Nat]]]
  BY DEF UsageInv, UsageTypeOK, DraftInv
<1>1. /\ \A v \in Workspaces : Form(settings[v])
      /\ \A v \in Workspaces, e \in Settings : \A form \in draft[v][e] :
           Form(form) /\ (<<v, e>> \notin outdated => form = settings[v])
  BY DEF UsageInv, DraftInv
<1>2. CASE ReadSettings(w, f)
  <2>1. /\ draft[w][f] = {} /\ draft' = [draft EXCEPT ![w][f] = {settings[w]}]
        /\ outdated' = outdated \ {<<w, f>>}
        /\ UNCHANGED <<settings, books, usageAt, sawLimit, cost>>
    BY <1>2 DEF ReadSettings
  <2>2. /\ draft' \in [Workspaces -> [Settings -> SUBSET [Settings -> Nat]]]
        /\ \A v \in Workspaces, e \in Settings :
             draft'[v][e] = IF v = w /\ e = f THEN {settings[w]} ELSE draft[v][e]
    BY <1>0, <2>1
  <2>3. ASSUME NEW v \in Workspaces, NEW e \in Settings, NEW form \in draft'[v][e]
        PROVE  Form(form) /\ (<<v, e>> \notin outdated' => form = settings'[v])
    BY <1>1, <2>1, <2>2
  <2>4. DraftInv'
    BY <1>1, <2>1, <2>2, <2>3 DEF DraftInv, Form
  <2>5. UsageInv'
    BY <1>0, <2>1, <2>4, SettingsKeep
  <2>6. QED
    BY <2>1, <2>5 DEF TakesBackOutdated
<1>3. CASE WriteSettings(w, f)
  <2>1. PICK form \in draft[w][f], value \in ValuesOf(f) :
          settings' = [settings EXCEPT ![w] = [form EXCEPT ![f] = value]]
    BY <1>3 DEF WriteSettings
  <2>2. /\ draft' = [draft EXCEPT ![w][f] = {}]
        /\ outdated' = (outdated \cup {<<w, g>> : g \in Settings}) \ {<<w, f>>}
        /\ UNCHANGED <<books, usageAt, sawLimit, cost>>
    BY <1>3 DEF WriteSettings
  <2>3. Form(form) /\ (<<w, f>> \notin outdated => form = settings[w])
    BY <1>1, <2>1
  <2>4. value \in Nat /\ (f = "budget" => value - 1 \in Budgets)
    <3>1. CASE f = "budget"
      <4>1. PICK b \in Budgets : value = b + 1
        BY <2>1, <3>1 DEF ValuesOf
      <4>2. b \in Nat
        BY <4>1, UsageAssumption
      <4>3. value \in Nat /\ value - 1 = b
        BY <4>1, <4>2
      <4>4. QED
        BY <4>1, <4>3
    <3>2. CASE f # "budget"
      BY <2>1, <3>2 DEF ValuesOf
    <3>3. QED
      BY <3>1, <3>2
  <2> DEFINE new == [form EXCEPT ![f] = value]
  <2>5. new \in [Settings -> Nat] /\ \A g \in Settings \ {f} : new[g] = form[g] /\ new[f] = value
    BY <2>3, <2>4 DEF Form
  <2>6. Form(new)
    <3> HIDE DEF new
    <3>1. CASE f = "budget"
      <4>1. new["budget"] = value
        BY <2>3, <3>1 DEF new, Form
      <4>2. QED
        BY <2>4, <2>5, <3>1, <4>1 DEF Form
    <3>2. CASE f # "budget"
      BY <2>3, <2>5, <3>2, UsageAssumption DEF Form
    <3>3. QED
      BY <3>1, <3>2
  <2> HIDE DEF new
  <2>7. /\ settings' \in [Workspaces -> [Settings -> Nat]]
        /\ \A v \in Workspaces : settings'[v] = IF v = w THEN new ELSE settings[v]
    BY <1>0, <2>1, <2>5 DEF new
  <2>8. /\ draft' \in [Workspaces -> [Settings -> SUBSET [Settings -> Nat]]]
        /\ \A v \in Workspaces, e \in Settings :
             draft'[v][e] = IF v = w /\ e = f THEN {} ELSE draft[v][e]
    BY <1>0, <2>2
  <2>9. ASSUME NEW v \in Workspaces, NEW e \in Settings, NEW other \in draft'[v][e]
        PROVE  Form(other) /\ (<<v, e>> \notin outdated' => other = settings'[v])
    <3>1. other \in draft[v][e] /\ ~(v = w /\ e = f)
      BY <2>8, <2>9
    <3>2. v = w => <<v, e>> \in outdated'
      BY <2>2, <3>1
    <3>3. v # w /\ <<v, e>> \notin outdated' => <<v, e>> \notin outdated
      BY <2>2
    <3>4. QED
      BY <1>1, <2>7, <3>1, <3>2, <3>3
  <2>10. DraftInv'
    <3>1. ASSUME NEW v \in Workspaces PROVE Form(settings[v])'
      BY <1>1, <2>6, <2>7 DEF Form
    <3>2. QED
      BY <2>8, <2>9, <3>1 DEF DraftInv, Form
  <2>11. outdated' \subseteq Workspaces \X Settings
    BY <1>0, <2>2
  <2>12. UsageInv'
    BY <2>2, <2>7, <2>10, <2>11, SettingsKeep
  <2>13. ASSUME NEW v \in Workspaces, NEW e \in Settings, NEW g \in Settings, g # e,
                settings'[v][g] # settings[v][g], draft[v][e] # {}, draft'[v][e] = {}
         PROVE  <<v, e>> \in outdated
    <3>1. v = w /\ e = f
      BY <2>8, <2>13
    <3>2. form[g] # settings[w][g]
      BY <2>5, <2>7, <2>13, <3>1
    <3>3. QED
      BY <2>3, <3>1, <3>2
  <2>14. QED
    BY <2>12, <2>13 DEF TakesBackOutdated
<1>4. QED
  BY <1>2, <1>3

LEMMA NewMonthKeeps == ASSUME UsageInv, NewMonth PROVE UsageInv'
<1>1. /\ used' = [w \in Workspaces |-> 0] /\ spent' = [w \in Workspaces |-> 0]
      /\ usedByAll' = 0 /\ records' = 0
      /\ UNCHANGED <<forms, usageAt, sawLimit, cost>>
  BY DEF NewMonth
<1>2. UsageTypeOK' /\ RecordsTrackSpending' /\ DraftInv'
  BY <1>1 DEF UsageInv, UsageTypeOK, RecordsTrackSpending, DraftInv, forms
<1>3. ASSUME NEW w \in Workspaces, used'[w] # 0 \/ PassedOwn(w)' # {}
      PROVE  used'[w] + 1 + Cardinality(PassedOwn(w)') * MaxCents
               <= MaxBudget + Cardinality(Guests(w)') * MaxCents
  <2>1. PassedOwn(w)' = PassedOwn(w) /\ Guests(w)' = Guests(w) /\ used'[w] = 0
    BY <1>1 DEF PassedOwn, Guests
  <2> DEFINE room == Cardinality(Guests(w)) * MaxCents
             kept == Cardinality(PassedOwn(w)) * MaxCents
  <2>2. used[w] + 1 + kept <= MaxBudget + room /\ used[w] \in Nat
    BY <1>3, <2>1 DEF UsageInv, RoomInv, UsageTypeOK
  <2>3. room \in Nat /\ kept \in Nat
    BY Reserves
  <2> HIDE DEF room, kept
  <2>4. 0 + 1 + kept <= MaxBudget + room
    BY <2>2, <2>3, Bounds
  <2>5. QED
    BY <2>1, <2>4 DEF room, kept
<1>4. RoomInv'
  BY <1>3 DEF RoomInv
<1>5. GlobalRoomInv'
  <2>1. PassedAll' = PassedAll /\ usedByAll' = 0
    BY <1>1 DEF PassedAll
  <2> DEFINE room == Cardinality(Callers) * MaxCents
             kept == Cardinality(PassedAll) * MaxCents
  <2>2. (GlobalBudget > 0 => usedByAll + 1 + kept <= GlobalBudget + room) /\ usedByAll \in Nat
    BY DEF UsageInv, GlobalRoomInv, UsageTypeOK
  <2>3. room \in Nat /\ kept \in Nat
    BY Reserves
  <2> HIDE DEF room, kept
  <2>4. GlobalBudget > 0 => 0 + 1 + kept <= GlobalBudget + room
    BY <2>2, <2>3, UsageAssumption
  <2>5. QED
    BY <2>1, <2>4 DEF room, kept, GlobalRoomInv
<1>6. QED
  BY <1>1, <1>2, <1>4, <1>5 DEF UsageInv

LEMMA UsageInvStep == UsageInv /\ [UsageNext]_usageVars => UsageInv'
<1> SUFFICES ASSUME UsageInv, [UsageNext]_usageVars PROVE UsageInv'
  OBVIOUS
<1>1. CASE \E c \in Callers : CallerStep(c)
  BY <1>1, CallerStepKeeps
<1>2. CASE \E w \in Edited, f \in Settings : ReadSettings(w, f) \/ WriteSettings(w, f)
  <2>1. Edited \subseteq Workspaces
    BY UsageAssumption
  <2>2. QED
    BY <1>2, <2>1, SettingsStepKeeps
<1>3. CASE NewMonth
  BY <1>3, NewMonthKeeps
<1>4. CASE UNCHANGED usageVars
  BY <1>4 DEF usageVars, UsageInv, UsageTypeOK, DraftInv, RoomInv, PassedOwn, Guests,
       GlobalRoomInv, PassedAll, RecordsTrackSpending
<1>5. QED
  BY <1>1, <1>2, <1>3, <1>4 DEF UsageNext

\* Every variable keeps its type, and a month is overspent by no more than the runs that
\* were let in, for a workspace and for all of them, whatever budgets are set meanwhile;
\* the records are within the error of rounding.  (limiter.ts, tracker.ts)
THEOREM SpendingBounded == UsageSpec => [](UsageTypeOK /\ SpendingIsBounded)
<1>1. UsageInv => UsageTypeOK /\ SpendingIsBounded
  BY UsageInvSuffices DEF UsageInv
<1>2. QED
  BY <1>1, UsageInvInit, UsageInvStep, PTL DEF UsageSpec

\* Settings that are changed one after the other are all kept.  (dashboard-api.ts:402,
\* onboarding.ts:78)
THEOREM SettingsKept == UsageSpec => SerialSettingsAreKept
<1>1. UsageInv /\ [UsageNext]_usageVars => [TakesBackOutdated]_usageVars
  <2> SUFFICES ASSUME UsageInv, UsageNext PROVE TakesBackOutdated
    OBVIOUS
  <2>1. CASE \E c \in Callers : CallerStep(c)
    <3>1. settings' = settings
      BY <2>1 DEF CallerStep, ReadLimit, ReadUsage, ReadGlobal, RunCosts, RunRejects, Record,
           RecordFails, forms
    <3>2. QED
      BY <3>1 DEF TakesBackOutdated
  <2>2. CASE \E w \in Edited, f \in Settings : ReadSettings(w, f) \/ WriteSettings(w, f)
    <3>1. PICK w \in Workspaces, f \in Settings : ReadSettings(w, f) \/ WriteSettings(w, f)
      BY <2>2, UsageAssumption
    <3>2. QED
      BY <3>1, SettingsStepKeeps
  <2>3. CASE NewMonth
    BY <2>3 DEF NewMonth, forms, TakesBackOutdated
  <2>4. QED
    BY <2>1, <2>2, <2>3 DEF UsageNext
<1>2. UsageInv /\ [UsageNext]_usageVars =>
        [\A w \in Workspaces, f, g \in Settings :
           /\ g # f /\ settings'[w][g] # settings[w][g]
           /\ draft[w][f] # {} /\ draft'[w][f] = {}
           => <<w, f>> \in outdated]_usageVars
  BY <1>1 DEF TakesBackOutdated
<1>3. QED
  BY <1>2, UsageInvInit, UsageInvStep, PTL DEF UsageSpec, SerialSettingsAreKept

-----------------------------------------------------------------------------
(* What the dashboard shows: its pages, then its totals.                   *)

\* The rows of the pages that have been read.
RowsRead ==
  IF "rows" \in pending THEN (page - 1) * PageSize(limit) ELSE page * PageSize(limit)

\* The rows the client has yet to see, but for those whose update excuses it.
Unseen == {i \in present \ ToSet(shown) : ~(byUpdate /\ i \in moved)}

TableInv ==
  /\ listing \in Seq(Items) /\ shown \in Seq(Items)
  /\ \A k, l \in 1..Len(listing) : listing[k] = listing[l] => k = l
  /\ limit \in PageSizes /\ page \in Nat /\ total \in Nat
  /\ pending \subseteq {"rows", "total"} /\ (page = 0 => pending = {})
  /\ ledger \in Ledgers

\* What is unseen lies beyond what has been read.
BeyondInv ==
  /\ page > 0 => \A i \in Unseen : \E k \in 1..Len(listing) : listing[k] = i /\ k > RowsRead
  /\ page = 0 => torn \/ Unseen = {}

\* The total promises a page to whoever has not seen all.
TotalInv ==
  ~torn =>
    /\ pending = {"rows"} => total = Len(listing)
    /\ page > 0 /\ pending = {} => Unseen = {} \/ page * PageSize(limit) < total

\* While nothing moves, what has been shown is the beginning of the table.
PrefixInv ==
  moved = {} =>
    /\ Len(shown) <= Len(listing)
    /\ \A k \in 1..Len(shown) : shown[k] = listing[k]
    /\ page > 0 =>
         \/ Len(shown) = RowsRead
         \/ Len(shown) = Len(listing) /\ Len(listing) <= RowsRead

PagesInv == TableInv /\ BeyondInv /\ TotalInv /\ PrefixInv
-----------------------------------------------------------------------------
\* Between one and a hundred rows a page, whatever limit is asked for.
LEMMA PageSizeBounds == ASSUME NEW n \in Int PROVE PageSize(n) \in 1..100
<1> DEFINE a == IF n = 0 THEN 25 ELSE n
           b == Max({1, a})
<1>1. a \in Int
  OBVIOUS
<1> HIDE DEF a
<1>2. b \in Int /\ b >= 1
  <2>1. \E x \in {1, a} : \A y \in {1, a} : x >= y
    <3>1. CASE a >= 1
      BY <1>1, <3>1
    <3>2. CASE a < 1
      BY <1>1, <3>2
    <3>3. QED
      BY <1>1, <3>1, <3>2
  <2>2. b \in {1, a} /\ b >= 1
    BY <2>1 DEF Max
  <2>3. QED
    BY <1>1, <2>2
<1> HIDE DEF b
<1>3. Min({100, b}) \in {100, b} /\ Min({100, b}) <= 100
  <2>1. \E x \in {100, b} : \A y \in {100, b} : x <= y
    <3>1. CASE b <= 100
      BY <1>2, <3>1
    <3>2. CASE b > 100
      BY <1>2, <3>2
    <3>3. QED
      BY <1>2, <3>1, <3>2
  <2>2. QED
    BY <2>1 DEF Min
<1>4. PageSize(n) = Min({100, b})
  BY DEF PageSize, a, b
<1>5. QED
  BY <1>2, <1>3, <1>4

LEMMA MinOfTwo ==
  ASSUME NEW a \in Int, NEW b \in Int
  PROVE  Min({a, b}) = IF a <= b THEN a ELSE b
<1>1. CASE a <= b
  BY <1>1 DEF Min
<1>2. CASE a > b
  BY <1>2 DEF Min
<1>3. QED
  BY <1>1, <1>2

\* A page is the rows after those of the pages before it.
LEMMA PageRows ==
  ASSUME NEW table \in Seq(Items), NEW n \in Nat \ {0}, NEW size \in 1..100
  PROVE  LET from == (n - 1) * size
             upto == n * size
             chunk == PageOf(table, n, size)
         IN  /\ from \in Nat /\ upto \in Nat /\ upto = from + size
             /\ chunk \in Seq(Items)
             /\ Len(table) <= from => chunk = <<>>
             /\ from < Len(table) =>
                  /\ Len(chunk) = (IF Len(table) <= upto THEN Len(table) ELSE upto) - from
                  /\ \A k \in 1..Len(chunk) : chunk[k] = table[from + k]
<1> DEFINE from == (n - 1) * size
           upto == n * size
<1>1. from \in Nat /\ upto \in Nat /\ upto = from + size
  OBVIOUS
<1> DEFINE last == IF Len(table) <= upto THEN Len(table) ELSE upto
<1>2. last \in Nat /\ last <= Len(table)
  BY <1>1
<1>3. PageOf(table, n, size) = SubSeq(table, from + 1, last)
  <2>1. Min({Len(table), upto}) = last
    BY <1>1, MinOfTwo
  <2>2. QED
    BY <2>1 DEF PageOf
<1>4. last = IF Len(table) <= upto THEN Len(table) ELSE upto
  OBVIOUS
<1> HIDE DEF from, upto, last
<1>5. SubSeq(table, from + 1, last) \in Seq(Items)
  BY <1>1, <1>2
<1>6. ASSUME Len(table) <= from PROVE SubSeq(table, from + 1, last) = <<>>
  BY <1>1, <1>2, <1>6
<1>7. ASSUME from < Len(table)
      PROVE  /\ Len(SubSeq(table, from + 1, last)) = last - from
             /\ \A k \in 1..(last - from) : SubSeq(table, from + 1, last)[k] = table[from + k]
  <2>1. from + 1 \in 1..Len(table) /\ last - from \in Nat /\ from + 1 <= last + 1
    BY <1>1, <1>2, <1>4, <1>7
  <2>2. Len(SubSeq(table, from + 1, last)) = last - from
    BY <1>1, <1>2, <2>1
  <2>3. ASSUME NEW k \in 1..(last - from)
        PROVE  SubSeq(table, from + 1, last)[k] = table[from + k]
    <3>1. SubSeq(table, from + 1, last)[k] = table[from + 1 + k - 1]
      BY <1>1, <1>2, <2>1
    <3>2. from + 1 + k - 1 = from + k
      BY <1>1
    <3>3. QED
      BY <3>1, <3>2
  <2>4. QED
    BY <2>2, <2>3
<1> DEFINE chunk == PageOf(table, n, size)
<1>8. /\ chunk \in Seq(Items)
      /\ Len(table) <= from => chunk = <<>>
      /\ from < Len(table) =>
           Len(chunk) = last - from /\ \A k \in 1..Len(chunk) : chunk[k] = table[from + k]
  BY <1>3, <1>5, <1>6, <1>7
<1> HIDE DEF chunk
<1>9. QED
  BY <1>1, <1>4, <1>8, Zenon DEF from, upto, chunk

LEMMA PagesInvInit == DashboardInit => PagesInv
<1> SUFFICES ASSUME DashboardInit PROVE PagesInv
  OBVIOUS
<1>1. PICK n \in 0..(Cardinality(Items) - 1) : listing \in [1..n -> Items]
  BY DEF DashboardInit
<1>2. n \in Nat /\ listing \in Seq(Items) /\ Len(listing) = n
  <2>1. Cardinality(Items) \in Nat
    BY FS_CardinalityType, DashboardAssumption
  <2>2. n \in Nat
    BY <2>1
  <2>3. QED
    BY <2>2, <1>1
<1>3. \A k, l \in 1..Len(listing) : listing[k] = listing[l] => k = l
  <2>1. listing \in Surjection(1..n, ToSet(listing))
    BY <1>1, <1>2 DEF Surjection, ToSet
  <2>2. Cardinality(ToSet(listing)) = Cardinality(1..n) /\ IsFiniteSet(1..n)
    BY <1>2, FS_Interval DEF DashboardInit
  <2>3. listing \in Injection(1..n, ToSet(listing))
    BY <2>1, <2>2, FS_Surjection
  <2>4. QED
    BY <2>3, <1>2 DEF Injection, IsInjective
<1>4. PageSize(limit) \in 1..100
  BY PageSizeBounds, DashboardAssumption DEF DashboardInit
<1>5. "rows" \in pending /\ page = 1 /\ shown = <<>> /\ present = ToSet(listing) /\ moved = {}
      /\ RowsRead = 0
  <2>1. "rows" \in pending /\ page = 1 /\ shown = <<>> /\ present = ToSet(listing) /\ moved = {}
    BY DEF DashboardInit
  <2>2. RowsRead = (1 - 1) * PageSize(limit)
    BY <2>1 DEF RowsRead
  <2>3. (1 - 1) * PageSize(limit) = 0
    BY <1>4
  <2>4. QED
    BY <2>1, <2>2, <2>3
<1>6. TableInv
  BY <1>2, <1>3 DEF DashboardInit, TableInv
<1>7. BeyondInv
  BY <1>2, <1>5 DEF BeyondInv, Unseen, ToSet
<1>8. TotalInv
  BY <1>5 DEF DashboardInit, TotalInv
<1>9. PrefixInv
  BY <1>2, <1>5 DEF PrefixInv
<1>10. QED
  BY <1>6, <1>7, <1>8, <1>9 DEF PagesInv

LEMMA PagesInvReads == ASSUME PagesInv, page > 0 PROVE RowsRead \in Nat
<1>1. PageSize(limit) \in 1..100 /\ page \in Nat
  BY PageSizeBounds, DashboardAssumption DEF PagesInv, TableInv
<1>2. page * PageSize(limit) \in Nat /\ (page - 1) * PageSize(limit) \in Nat
  BY <1>1
<1>3. QED
  BY <1>2 DEF RowsRead

\* The pages of one request.
LEMMA PagesInvRead == ASSUME PagesInv, ReadRows PROVE PagesInv'
<1> DEFINE size == PageSize(limit)
           from == (page - 1) * size
           upto == page * size
           chunk == PageOf(listing, page, size)
<1>1. /\ listing' = listing /\ byUpdate' = byUpdate /\ limit' = limit /\ page' = page
      /\ total' = total /\ torn' = torn /\ present' = present /\ moved' = moved /\ ledger' = ledger
      /\ "rows" \in pending /\ pending' = pending \ {"rows"} /\ shown' = shown \o chunk
  BY DEF ReadRows
<1>2. /\ listing \in Seq(Items) /\ shown \in Seq(Items) /\ page \in Nat \ {0} /\ total \in Nat
      /\ pending \subseteq {"rows", "total"}
  BY <1>1 DEF PagesInv, TableInv
<1>3. size \in 1..100
  BY PageSizeBounds, DashboardAssumption DEF PagesInv, TableInv
<1>4. PageSize(limit)' = size
  BY <1>1
<1> HIDE DEF size
<1>5. /\ from \in Nat /\ upto \in Nat /\ upto = from + size /\ chunk \in Seq(Items)
      /\ Len(listing) <= from => chunk = <<>>
      /\ from < Len(listing) =>
           /\ Len(chunk) = (IF Len(listing) <= upto THEN Len(listing) ELSE upto) - from
           /\ \A k \in 1..Len(chunk) : chunk[k] = listing[from + k]
  BY <1>2, <1>3, PageRows
<1>6. RowsRead = from /\ RowsRead' = upto
  BY <1>1, <1>4 DEF RowsRead, size
<1> HIDE DEF from, upto, chunk
<1>7. /\ shown' \in Seq(Items) /\ Len(shown') = Len(shown) + Len(chunk)
      /\ \A k \in 1..Len(shown) : shown'[k] = shown[k]
      /\ \A k \in 1..Len(chunk) : shown'[Len(shown) + k] = chunk[k]
  BY <1>1, <1>2, <1>5
<1>8. TableInv'
  BY <1>1, <1>7 DEF PagesInv, TableInv
<1>9. ToSet(shown) \subseteq ToSet(shown') /\ \A k \in 1..Len(chunk) : chunk[k] \in ToSet(shown')
  <2>1. /\ Len(shown) \in Nat /\ Len(chunk) \in Nat /\ DOMAIN shown = 1..Len(shown)
        /\ DOMAIN shown' = 1..(Len(shown) + Len(chunk))
    BY <1>2, <1>5, <1>7
  <2>2. ASSUME NEW k \in 1..Len(shown) PROVE shown[k] \in ToSet(shown')
    <3>1. k \in DOMAIN shown' /\ shown'[k] = shown[k]
      BY <1>7, <2>1
    <3>2. QED
      BY <3>1 DEF ToSet
  <2>3. ASSUME NEW k \in 1..Len(chunk) PROVE chunk[k] \in ToSet(shown')
    <3>1. Len(shown) + k \in DOMAIN shown' /\ shown'[Len(shown) + k] = chunk[k]
      BY <1>7, <2>1
    <3>2. QED
      BY <3>1 DEF ToSet
  <2>4. QED
    BY <2>1, <2>2, <2>3 DEF ToSet
<1>10. ASSUME NEW i \in Unseen'
       PROVE  \E k \in 1..Len(listing) : listing[k] = i /\ k > upto
  <2>0. i \in Unseen /\ i \notin ToSet(shown')
    BY <1>1, <1>9, <1>10 DEF Unseen
  <2>1. PICK k \in 1..Len(listing) : listing[k] = i /\ k > from
    BY <1>2, <1>6, <2>0 DEF PagesInv, BeyondInv
  <2>2. ASSUME k <= upto PROVE FALSE
    <3>1. k - from \in 1..Len(chunk)
      <4>1. Len(listing) \in Nat /\ k \in Nat /\ from < Len(listing)
        BY <1>2, <1>5, <2>1
      <4>2. Len(chunk) = (IF Len(listing) <= upto THEN Len(listing) ELSE upto) - from
        BY <1>5, <4>1
      <4>3. QED
        BY <1>5, <2>1, <2>2, <4>1, <4>2
    <3>2. chunk[k - from] = listing[k]
      <4>1. chunk[k - from] = listing[from + (k - from)]
        BY <1>2, <1>5, <2>1, <3>1
      <4>2. from + (k - from) = k
        BY <1>5
      <4>3. QED
        BY <4>1, <4>2
    <3>3. QED
      BY <3>1, <3>2, <2>0, <2>1, <1>9
  <2>3. QED
    BY <2>1, <2>2, <1>2, <1>5
<1>11. BeyondInv'
  BY <1>1, <1>2, <1>6, <1>10 DEF BeyondInv
<1>12. TotalInv'
  <2>1. pending' # {"rows"}
    BY <1>1
  <2>2. ASSUME ~torn, pending' = {}, NEW i \in Unseen'
        PROVE  upto < total
    <3>1. pending = {"rows"}
      BY <1>1, <1>2, <2>2
    <3>2. total = Len(listing)
      BY <3>1, <2>2 DEF PagesInv, TotalInv
    <3>3. PICK k \in 1..Len(listing) : listing[k] = i /\ k > upto
      BY <1>10, <2>2
    <3>4. QED
      BY <3>2, <3>3, <1>2, <1>5
  <2>3. upto = (page * PageSize(limit))'
    BY <1>1, <1>4 DEF upto
  <2>4. QED
    BY <1>1, <2>1, <2>2, <2>3 DEF TotalInv
<1>13. PrefixInv'
  <2> SUFFICES ASSUME moved = {}
               PROVE  /\ Len(shown') <= Len(listing)
                      /\ \A k \in 1..Len(shown') : shown'[k] = listing[k]
                      /\ Len(shown') = upto \/ (Len(shown') = Len(listing) /\ Len(listing) <= upto)
    BY <1>1, <1>6 DEF PrefixInv
  <2>1. /\ Len(shown) <= Len(listing)
        /\ \A k \in 1..Len(shown) : shown[k] = listing[k]
        /\ Len(shown) = from \/ (Len(shown) = Len(listing) /\ Len(listing) <= from)
    <3>1. page > 0 /\ PrefixInv
      BY <1>2 DEF PagesInv
    <3>2. /\ Len(shown) <= Len(listing)
          /\ \A k \in 1..Len(shown) : shown[k] = listing[k]
      BY <3>1 DEF PrefixInv
    <3>3. \/ Len(shown) = RowsRead
          \/ Len(shown) = Len(listing) /\ Len(listing) <= RowsRead
      BY <3>1, Zenon DEF PrefixInv
    <3>4. QED
      BY <1>6, <3>2, <3>3
  <2>2. CASE Len(listing) <= from
    <3>1. chunk = <<>> /\ Len(shown) = Len(listing)
      BY <1>5, <2>1, <2>2, <1>2
    <3>2. Len(shown') = Len(shown) /\ \A k \in 1..Len(shown') : shown'[k] = listing[k]
      BY <1>2, <1>7, <2>1, <3>1
    <3>3. QED
      BY <3>1, <3>2, <2>2, <1>2, <1>3, <1>5
  <2>3. CASE from < Len(listing)
    <3>1. /\ Len(shown) = from
          /\ Len(chunk) = (IF Len(listing) <= upto THEN Len(listing) ELSE upto) - from
          /\ \A k \in 1..Len(chunk) : chunk[k] = listing[from + k]
      BY <1>2, <1>5, <2>1, <2>3
    <3>2. Len(shown') = IF Len(listing) <= upto THEN Len(listing) ELSE upto
      BY <1>2, <1>5, <1>7, <3>1
    <3>3. ASSUME NEW k \in 1..Len(shown') PROVE shown'[k] = listing[k]
      <4>1. CASE k <= from
        <5>1. k \in 1..Len(shown)
          BY <4>1, <3>1, <1>5
        <5>2. QED
          BY <5>1, <1>7, <2>1
      <4>2. CASE k > from
        <5>1. Len(shown') = from + Len(chunk) /\ Len(chunk) \in Nat
          BY <3>1, <1>5, <1>7
        <5>2. k - from \in 1..Len(chunk) /\ k = from + (k - from)
          BY <4>2, <5>1, <1>5
        <5>3. shown'[from + (k - from)] = chunk[k - from]
          BY <5>2, <3>1, <1>7
        <5>4. QED
          BY <5>2, <5>3, <3>1
      <4>3. QED
        BY <4>1, <4>2, <1>5
    <3>4. QED
      BY <3>2, <3>3, <1>2, <1>5
  <2>4. QED
    BY <2>2, <2>3, <1>2, <1>5
<1>14. QED
  BY <1>8, <1>11, <1>12, <1>13 DEF PagesInv

LEMMA PagesInvTotal == ASSUME PagesInv, ReadTotal PROVE PagesInv'
<1>1. /\ listing' = listing /\ byUpdate' = byUpdate /\ limit' = limit /\ page' = page
      /\ shown' = shown /\ torn' = torn /\ present' = present /\ moved' = moved /\ ledger' = ledger
      /\ "total" \in pending /\ pending' = pending \ {"total"} /\ total' = Len(listing)
  BY DEF ReadTotal
<1>2. /\ listing \in Seq(Items) /\ page \in Nat \ {0} /\ pending \subseteq {"rows", "total"}
  BY <1>1 DEF PagesInv, TableInv
<1>3. Len(listing) \in Nat
  BY <1>2
<1>4. PageSize(limit)' = PageSize(limit) /\ Unseen' = Unseen
  BY <1>1 DEF Unseen
<1>5. RowsRead' = RowsRead
  BY <1>1, <1>4 DEF RowsRead
<1>6. TableInv'
  BY <1>1, <1>2, <1>3 DEF PagesInv, TableInv
<1>7. BeyondInv'
  BY <1>1, <1>4, <1>5 DEF PagesInv, BeyondInv
<1>8. TotalInv'
  <2>1. ASSUME pending' = {}, NEW i \in Unseen
        PROVE  page * PageSize(limit) < Len(listing)
    <3>1. RowsRead = page * PageSize(limit)
      BY <1>1, <2>1 DEF RowsRead
    <3>2. PICK k \in 1..Len(listing) : listing[k] = i /\ k > RowsRead
      BY <1>2, <2>1 DEF PagesInv, BeyondInv
    <3>3. PageSize(limit) \in 1..100
      BY PageSizeBounds, DashboardAssumption DEF PagesInv, TableInv
    <3>4. QED
      BY <1>2, <1>3, <3>1, <3>2, <3>3
  <2>2. QED
    BY <1>1, <1>4, <2>1 DEF TotalInv
<1>9. PrefixInv'
  BY <1>1, <1>4, <1>5, Zenon DEF PagesInv, PrefixInv
<1>10. QED
  BY <1>6, <1>7, <1>8, <1>9 DEF PagesInv

LEMMA PagesInvNext == ASSUME PagesInv, NextPage PROVE PagesInv'
<1>1. /\ listing' = listing /\ byUpdate' = byUpdate /\ limit' = limit /\ total' = total
      /\ shown' = shown /\ torn' = torn /\ present' = present /\ moved' = moved /\ ledger' = ledger
      /\ page > 0 /\ pending = {}
  BY DEF NextPage
<1>2. /\ page \in Nat \ {0} /\ total \in Nat /\ listing \in Seq(Items) /\ shown \in Seq(Items)
  BY <1>1 DEF PagesInv, TableInv
<1>3. PageSize(limit) \in 1..100
  BY PageSizeBounds, DashboardAssumption DEF PagesInv, TableInv
<1>4. PageSize(limit)' = PageSize(limit) /\ Unseen' = Unseen
  BY <1>1 DEF Unseen
<1>5. RowsRead = page * PageSize(limit)
  BY <1>1 DEF RowsRead
<1>6. CASE page * PageSize(limit) < total
  <2>1. page' = page + 1 /\ pending' = {"rows", "total"}
    BY <1>6 DEF NextPage
  <2>2. RowsRead' = RowsRead
    <3>1. "rows" \in pending'
      BY <2>1
    <3>2. RowsRead' = (page' - 1) * PageSize(limit)
      BY <1>4, <3>1 DEF RowsRead
    <3>3. page' - 1 = page
      BY <1>2, <2>1
    <3>4. QED
      BY <1>5, <3>2, <3>3
  <2>3. TableInv'
    BY <1>1, <1>2, <2>1 DEF PagesInv, TableInv
  <2>4. page' > 0 /\ page' # 0 /\ pending' # {} /\ pending' # {"rows"}
    <3>1. "total" \in pending' /\ "total" \notin {"rows"}
      BY <2>1
    <3>2. pending' # {} /\ pending' # {"rows"}
      BY <3>1, Zenon
    <3>3. page' > 0 /\ page' # 0
      BY <1>2, <2>1
    <3>4. QED
      BY <3>2, <3>3
  <2>5. BeyondInv'
    BY <1>1, <1>4, <2>2, <2>4 DEF PagesInv, BeyondInv
  <2>6. TotalInv'
    BY <2>4 DEF TotalInv
  <2>7. PrefixInv'
    BY <1>1, <1>4, <2>2, <2>4, Zenon DEF PagesInv, PrefixInv
  <2>8. QED
    BY <2>3, <2>5, <2>6, <2>7 DEF PagesInv
<1>7. CASE ~(page * PageSize(limit) < total)
  <2>1. page' = 0 /\ pending' = {}
    BY <1>7 DEF NextPage
  <2>2. TableInv'
    BY <1>1, <2>1 DEF PagesInv, TableInv
  <2>3. ~(page' > 0) /\ pending' # {"rows"}
    BY <2>1
  <2>4. BeyondInv'
    <3>1. torn \/ Unseen = {}
      BY <1>1, <1>7 DEF PagesInv, TotalInv
    <3>2. QED
      BY <1>1, <1>4, <2>3, <3>1 DEF BeyondInv
  <2>5. TotalInv'
    BY <2>3 DEF TotalInv
  <2>6. PrefixInv'
    BY <1>1, <2>3 DEF PagesInv, PrefixInv
  <2>7. QED
    BY <2>2, <2>4, <2>5, <2>6 DEF PagesInv
<1>8. QED
  BY <1>6, <1>7

\* Rows before the first: every other row moves one place on.
LEMMA PagesInvInsert ==
  ASSUME PagesInv, page > 0, NEW i \in Items, InsertRow(i)
  PROVE  PagesInv'
<1>1. /\ byUpdate' = byUpdate /\ limit' = limit /\ page' = page /\ pending' = pending
      /\ total' = total /\ shown' = shown /\ present' = present /\ ledger' = ledger
      /\ i \notin ToSet(listing) /\ listing' = <<i>> \o listing /\ moved' = moved \cup {i}
      /\ torn' = (torn \/ pending = {"rows"})
  BY DEF InsertRow, client
<1>2. /\ page \in Nat \ {0} /\ listing \in Seq(Items)
      /\ \A k, l \in 1..Len(listing) : listing[k] = listing[l] => k = l
  BY DEF PagesInv, TableInv
<1>3. /\ listing' \in Seq(Items) /\ Len(listing) \in Nat /\ Len(listing') = Len(listing) + 1
      /\ listing'[1] = i
      /\ \A k \in 1..Len(listing) : listing'[k + 1] = listing[k]
  BY <1>1, <1>2
<1>4. PageSize(limit)' = PageSize(limit) /\ Unseen' \subseteq Unseen
  BY <1>1 DEF Unseen
<1>5. RowsRead' = RowsRead
  BY <1>1, <1>4 DEF RowsRead
<1>6. TableInv'
  <2>1. ASSUME NEW k \in 1..Len(listing'), k # 1
        PROVE  k - 1 \in 1..Len(listing) /\ listing'[k] = listing[k - 1] /\ listing'[k] # i
    <3>1. k - 1 \in 1..Len(listing)
      BY <1>3, <2>1
    <3>2. listing'[k - 1 + 1] = listing[k - 1] /\ k - 1 + 1 = k
      BY <1>3, <3>1
    <3>3. listing[k - 1] \in ToSet(listing)
      BY <1>2, <3>1 DEF ToSet
    <3>4. QED
      BY <1>1, <3>1, <3>2, <3>3
  <2>2. ASSUME NEW k \in 1..Len(listing'), NEW l \in 1..Len(listing'), listing'[k] = listing'[l]
        PROVE  k = l
    <3>1. CASE k = 1 \/ l = 1
      BY <3>1, <2>1, <2>2, <1>3
    <3>2. CASE k # 1 /\ l # 1
      <4>1. k - 1 = l - 1
        BY <3>2, <2>1, <2>2, <1>2
      <4>2. QED
        BY <4>1, <1>3
    <3>3. QED
      BY <3>1, <3>2
  <2>3. QED
    BY <1>1, <1>3, <2>2 DEF PagesInv, TableInv
<1>7. BeyondInv'
  <2>1. ASSUME NEW j \in Unseen'
        PROVE  \E k \in 1..Len(listing') :
                 listing'[k] = j /\ k > RowsRead
    <3>1. PICK k \in 1..Len(listing) : listing[k] = j /\ k > RowsRead
      BY <1>2, <1>4, <2>1 DEF PagesInv, BeyondInv
    <3>2. RowsRead \in Int
      BY PagesInvReads
    <3>3. k + 1 \in 1..Len(listing') /\ listing'[k + 1] = j /\ k + 1 > RowsRead
      BY <1>3, <3>1, <3>2
    <3>4. QED
      BY <3>3
  <2>2. page' # 0
    BY <1>1, <1>2
  <2>3. QED
    BY <1>5, <2>1, <2>2 DEF BeyondInv
<1>8. TotalInv'
  <2>1. SUFFICES ASSUME ~torn' PROVE TotalInv'
    BY DEF TotalInv
  <2>2. ~torn /\ pending # {"rows"}
    BY <1>1, <2>1
  <2>3. QED
    BY <1>1, <1>4, <2>2 DEF PagesInv, TotalInv
<1>9. PrefixInv'
  <2>1. moved' # {}
    BY <1>1
  <2>2. QED
    BY <2>1 DEF PrefixInv
<1>10. QED
  BY <1>6, <1>7, <1>8, <1>9 DEF PagesInv

\* The row that was at place p is the first, and those before it move one place on.
LEMMA MovedToFront ==
  ASSUME NEW p \in 1..Len(listing), listing \in Seq(Items),
         \A k, l \in 1..Len(listing) : listing[k] = listing[l] => k = l
  PROVE  LET after == <<listing[p]>> \o RemoveAt(listing, p)
         IN  /\ after \in Seq(Items) /\ Len(after) = Len(listing)
             /\ \A k, l \in 1..Len(after) : after[k] = after[l] => k = l
             /\ \A k \in 1..Len(listing) :
                  k # p => \E l \in 1..Len(listing) : after[l] = listing[k] /\ l >= k
<1> DEFINE after == <<listing[p]>> \o RemoveAt(listing, p)
           From(l) == IF l = 1 THEN p ELSE IF l <= p THEN l - 1 ELSE l
<1>1. Len(listing) \in Nat /\ p \in Nat /\ p >= 1 /\ p <= Len(listing)
  OBVIOUS
<1> DEFINE front == SubSeq(listing, 1, p - 1)
           back  == SubSeq(listing, p + 1, Len(listing))
<1>2. /\ front \in Seq(Items) /\ Len(front) = p - 1
      /\ \A k \in 1..(p - 1) : front[k] = listing[k]
  BY <1>1
<1>3. /\ back \in Seq(Items) /\ Len(back) = Len(listing) - p
      /\ \A k \in 1..(Len(listing) - p) : back[k] = listing[p + k]
  <2>1. back \in Seq(Items) /\ Len(back) = Len(listing) - p
    BY <1>1
  <2>2. ASSUME NEW k \in 1..(Len(listing) - p) PROVE back[k] = listing[p + k]
    <3>1. back[k] = listing[p + 1 + k - 1] /\ p + 1 + k - 1 = p + k
      BY <1>1, <2>1
    <3>2. QED
      BY <3>1
  <2>3. QED
    BY <2>1, <2>2
<1>4. after = <<listing[p]>> \o (front \o back)
  BY DEF RemoveAt
<1> HIDE DEF front, back, after
<1>5. /\ front \o back \in Seq(Items) /\ Len(front \o back) = Len(listing) - 1
      /\ \A k \in 1..(p - 1) : (front \o back)[k] = listing[k]
      /\ \A k \in p..(Len(listing) - 1) : (front \o back)[k] = listing[k + 1]
  <2>1. front \o back \in Seq(Items) /\ Len(front \o back) = Len(listing) - 1
    <3>1. front \in Seq(Items) /\ back \in Seq(Items)
      BY <1>2, <1>3
    <3>2. front \o back \in Seq(Items) /\ Len(front \o back) = Len(front) + Len(back)
      BY <3>1
    <3>3. QED
      BY <1>1, <1>2, <1>3, <3>2
  <2>2. ASSUME NEW k \in 1..(p - 1) PROVE (front \o back)[k] = listing[k]
    BY <1>1, <1>2, <1>3
  <2>3. ASSUME NEW k \in p..(Len(listing) - 1) PROVE (front \o back)[k] = listing[k + 1]
    <3>1. (front \o back)[k] = back[k - (p - 1)]
      BY <1>1, <1>2, <1>3
    <3>2. k - (p - 1) \in 1..(Len(listing) - p) /\ p + (k - (p - 1)) = k + 1
      BY <1>1
    <3>3. QED
      BY <1>3, <3>1, <3>2
  <2>4. QED
    BY <2>1, <2>2, <2>3
<1> DEFINE rest == front \o back
<1>6. listing[p] \in Items
  BY <1>1
<1>7. after = <<listing[p]>> \o rest /\ rest \in Seq(Items) /\ Len(rest) = Len(listing) - 1
  BY <1>4, <1>5
<1>8. /\ \A k \in 1..(p - 1) : rest[k] = listing[k]
      /\ \A k \in p..(Len(listing) - 1) : rest[k] = listing[k + 1]
  BY <1>5
<1> HIDE DEF rest
<1>9. /\ after \in Seq(Items) /\ Len(after) = Len(listing) /\ after[1] = listing[p]
      /\ \A k \in 2..Len(listing) : after[k] = rest[k - 1]
  BY <1>1, <1>6, <1>7
<1>10. ASSUME NEW l \in 1..Len(listing)
       PROVE  From(l) \in 1..Len(listing) /\ after[l] = listing[From(l)]
  <2>1. CASE l = 1
    BY <1>1, <1>9, <2>1
  <2>2. CASE l # 1 /\ l <= p
    <3>1. after[l] = rest[l - 1] /\ l - 1 \in 1..(p - 1)
      BY <1>1, <1>9, <2>2
    <3>2. From(l) = l - 1 /\ l - 1 \in 1..Len(listing)
      BY <1>1, <2>2
    <3>3. QED
      BY <1>8, <3>1, <3>2
  <2>3. CASE l > p
    <3>1. after[l] = rest[l - 1] /\ l - 1 \in p..(Len(listing) - 1) /\ l - 1 + 1 = l
      BY <1>1, <1>9, <2>3
    <3>2. From(l) = l
      BY <1>1, <2>3
    <3>3. QED
      BY <1>8, <3>1, <3>2
  <2>4. QED
    BY <1>1, <2>1, <2>2, <2>3
<1>11. ASSUME NEW k \in 1..Len(listing), NEW l \in 1..Len(listing), From(k) = From(l) PROVE k = l
  BY <1>1, <1>11
<1>12. ASSUME NEW k \in 1..Len(listing), k # p
       PROVE  \E l \in 1..Len(listing) : From(l) = k /\ l >= k
  <2>1. CASE k < p
    <3>1. k + 1 \in 1..Len(listing) /\ From(k + 1) = k /\ k + 1 >= k
      BY <1>1, <2>1
    <3>2. QED
      BY <3>1
  <2>2. CASE k > p
    <3>1. From(k) = k /\ k >= k
      BY <1>1, <2>2
    <3>2. QED
      BY <3>1
  <2>3. QED
    BY <1>1, <1>12, <2>1, <2>2
<1> HIDE DEF From
<1>13. ASSUME NEW k \in 1..Len(listing), NEW l \in 1..Len(listing), after[k] = after[l]
       PROVE  k = l
  <2>1. From(k) = From(l)
    BY <1>10, <1>13
  <2>2. QED
    BY <1>11, <2>1
<1>14. ASSUME NEW k \in 1..Len(listing), k # p
       PROVE  \E l \in 1..Len(listing) : after[l] = listing[k] /\ l >= k
  BY <1>10, <1>12, <1>14
<1>15. /\ after \in Seq(Items) /\ Len(after) = Len(listing)
       /\ \A k, l \in 1..Len(after) : after[k] = after[l] => k = l
       /\ \A k \in 1..Len(listing) :
            k # p => \E l \in 1..Len(listing) : after[l] = listing[k] /\ l >= k
  BY <1>9, <1>13, <1>14
<1>16. QED
  BY <1>15, Zenon DEF after

LEMMA PagesInvUpdate ==
  ASSUME PagesInv, page > 0, NEW i \in Items, UpdateRow(i)
  PROVE  PagesInv'
<1>1. /\ byUpdate' = byUpdate /\ limit' = limit /\ page' = page /\ pending' = pending
      /\ total' = total /\ shown' = shown /\ torn' = torn /\ present' = present
      /\ ledger' = ledger /\ moved' = moved \cup {i}
  BY DEF UpdateRow, client
<1>2. PICK p \in DOMAIN listing :
        /\ listing[p] = i
        /\ listing' = IF byUpdate THEN <<i>> \o RemoveAt(listing, p) ELSE listing
  BY DEF UpdateRow
<1>3. /\ page \in Nat \ {0} /\ listing \in Seq(Items) /\ p \in 1..Len(listing)
      /\ \A k, l \in 1..Len(listing) : listing[k] = listing[l] => k = l
  BY <1>2 DEF PagesInv, TableInv
<1>4. /\ listing' \in Seq(Items) /\ Len(listing') = Len(listing)
      /\ \A k, l \in 1..Len(listing') : listing'[k] = listing'[l] => k = l
      /\ \A k \in 1..Len(listing) :
           byUpdate /\ k # p => \E l \in 1..Len(listing) : listing'[l] = listing[k] /\ l >= k
      /\ ~byUpdate => listing' = listing
  <2>1. CASE byUpdate
    <3>1. listing' = <<listing[p]>> \o RemoveAt(listing, p)
      BY <1>2, <2>1
    <3>2. QED
      BY <1>3, <2>1, <3>1, MovedToFront
  <2>2. CASE ~byUpdate
    BY <1>2, <1>3, <2>2
  <2>3. QED
    BY <2>1, <2>2
<1>5. PageSize(limit)' = PageSize(limit) /\ Unseen' \subseteq Unseen
  BY <1>1 DEF Unseen
<1>6. RowsRead' = RowsRead
  BY <1>1, <1>5 DEF RowsRead
<1>7. TableInv'
  BY <1>1, <1>4 DEF PagesInv, TableInv
<1>8. BeyondInv'
  <2>1. ASSUME NEW j \in Unseen'
        PROVE  \E k \in 1..Len(listing') :
                 listing'[k] = j /\ k > RowsRead
    <3>1. PICK k \in 1..Len(listing) : listing[k] = j /\ k > RowsRead
      BY <1>3, <1>5, <2>1 DEF PagesInv, BeyondInv
    <3>2. RowsRead \in Int
      BY PagesInvReads
    <3>3. CASE byUpdate
      <4>1. k # p
        BY <1>1, <1>2, <2>1, <3>1, <3>3 DEF Unseen
      <4>2. PICK l \in 1..Len(listing) : listing'[l] = listing[k] /\ l >= k
        BY <1>4, <3>3, <4>1
      <4>3. l > RowsRead
        BY <1>3, <3>1, <3>2, <4>2
      <4>4. QED
        BY <1>4, <3>1, <4>2, <4>3
    <3>4. CASE ~byUpdate
      BY <1>4, <3>1, <3>4
    <3>5. QED
      BY <3>3, <3>4
  <2>2. page' # 0
    BY <1>1, <1>3
  <2>3. QED
    BY <1>6, <2>1, <2>2 DEF BeyondInv
<1>9. TotalInv'
  BY <1>1, <1>4, <1>5 DEF PagesInv, TotalInv
<1>10. PrefixInv'
  <2>1. moved' # {}
    BY <1>1
  <2>2. QED
    BY <2>1 DEF PrefixInv
<1>11. QED
  BY <1>7, <1>8, <1>9, <1>10 DEF PagesInv

LEMMA PagesInvStep == PagesInv /\ [DashboardNext]_dashboardVars => PagesInv'
<1> SUFFICES ASSUME PagesInv, [DashboardNext]_dashboardVars PROVE PagesInv'
  OBVIOUS
<1>1. CASE ReadRows
  BY <1>1, PagesInvRead
<1>2. CASE ReadTotal
  BY <1>2, PagesInvTotal
<1>3. CASE NextPage
  BY <1>3, PagesInvNext
<1>4. ASSUME page > 0, NEW i \in Items, InsertRow(i) PROVE PagesInv'
  BY <1>4, PagesInvInsert
<1>5. ASSUME page > 0, NEW i \in Items, UpdateRow(i) PROVE PagesInv'
  BY <1>5, PagesInvUpdate
<1>6. CASE UNCHANGED dashboardVars
  <2>1. UNCHANGED <<listing, byUpdate, limit, page, pending, total, torn, shown, present, moved,
                    ledger>>
    BY <1>6 DEF dashboardVars
  <2>2. RowsRead' = RowsRead
        /\ PageSize(limit)' = PageSize(limit) /\ Unseen' = Unseen
    BY <2>1 DEF RowsRead, Unseen
  <2>3. TableInv'
    BY <2>1 DEF PagesInv, TableInv
  <2>4. BeyondInv'
    BY <2>1, <2>2 DEF PagesInv, BeyondInv
  <2>5. TotalInv'
    BY <2>1, <2>2 DEF PagesInv, TotalInv
  <2>6. PrefixInv'
    BY <2>1, <2>2, Zenon DEF PagesInv, PrefixInv
  <2>7. QED
    BY <2>3, <2>4, <2>5, <2>6 DEF PagesInv
<1>7. QED
  BY <1>1, <1>2, <1>3, <1>4, <1>5, <1>6 DEF DashboardNext

LEMMA PagesInvSuffices == PagesInv => PagesMissNothing /\ PagesRepeatNothing
<1> SUFFICES ASSUME PagesInv PROVE PagesMissNothing /\ PagesRepeatNothing
  OBVIOUS
<1>1. PagesMissNothing
  BY DEF PagesMissNothing, PagesInv, BeyondInv, Unseen
<1>2. PagesRepeatNothing
  <2> SUFFICES ASSUME moved = {} PROVE Cardinality(ToSet(shown)) = Len(shown)
    BY DEF PagesRepeatNothing
  <2>1. /\ shown \in Seq(Items) /\ listing \in Seq(Items) /\ Len(shown) <= Len(listing)
        /\ \A k \in 1..Len(shown) : shown[k] = listing[k]
        /\ \A k, l \in 1..Len(listing) : listing[k] = listing[l] => k = l
    BY DEF PagesInv, TableInv, PrefixInv
  <2>2. Len(shown) \in Nat /\ DOMAIN shown = 1..Len(shown)
    BY <2>1
  <2>3. \A k, l \in 1..Len(shown) : shown[k] = shown[l] => k = l
    BY <2>1, <2>2
  <2>4. shown \in Bijection(1..Len(shown), ToSet(shown))
    BY <2>1, <2>2, <2>3 DEF Bijection, Injection, Surjection, IsInjective, ToSet
  <2>5. IsFiniteSet(1..Len(shown)) /\ Cardinality(1..Len(shown)) = Len(shown)
    <3>1. Len(shown) \in Int /\ 1 \in Int
      BY <2>2
    <3>2. /\ IsFiniteSet(1..Len(shown))
          /\ Cardinality(1..Len(shown)) = IF 1 > Len(shown) THEN 0 ELSE Len(shown) - 1 + 1
      BY <3>1, FS_Interval
    <3>3. QED
      BY <2>2, <3>2
  <2>6. QED
    BY <2>4, <2>5, FS_Bijection DEF ExistsBijection
<1>3. QED
  BY <1>1, <1>2
-----------------------------------------------------------------------------
(* Totals.                                                                 *)

LEMMA UnitsAre ==
  ASSUME NEW D, NEW f \in [D -> Nat]
  PROVE  \A p : p \in Units(f) <=> \E x \in D : \E k \in 1..f[x] : p = <<x, k>>
<1>1. DOMAIN f = D
  OBVIOUS
<1>2. ASSUME NEW p, p \in Units(f) PROVE \E x \in D : \E k \in 1..f[x] : p = <<x, k>>
  <2>1. PICK x \in D : p \in {x} \X (1..f[x])
    BY <1>1, <1>2, Zenon DEF Units
  <2>2. p[2] \in 1..f[x] /\ p = <<x, p[2]>>
    BY <2>1
  <2>3. QED
    BY <2>2
<1>3. ASSUME NEW p, NEW x \in D, NEW k \in 1..f[x], p = <<x, k>> PROVE p \in Units(f)
  <2>1. p \in {x} \X (1..f[x])
    BY <1>3
  <2>2. QED
    BY <1>1, <2>1, Zenon DEF Units
<1>4. QED
  BY <1>2, <1>3

LEMMA UnitsFinite ==
  ASSUME NEW D, IsFiniteSet(D), NEW f \in [D -> Nat]
  PROVE  IsFiniteSet(Units(f))
<1> DEFINE Block == [x \in D |-> {x} \X (1..f[x])]
           blocks == {Block[x] : x \in D}
<1>1. Block \in Surjection(D, blocks)
  BY DEF Surjection
<1>2. IsFiniteSet(blocks)
  BY <1>1, FS_Surjection
<1>3. ASSUME NEW B \in blocks PROVE IsFiniteSet(B)
  <2>1. PICK x \in D : B = {x} \X (1..f[x])
    OBVIOUS
  <2>2. IsFiniteSet({x}) /\ IsFiniteSet(1..f[x])
    <3>1. IsFiniteSet({x})
      BY FS_Singleton
    <3>2. f[x] \in Int /\ 1 \in Int
      OBVIOUS
    <3>3. QED
      BY <3>1, <3>2, FS_Interval
  <2>3. QED
    BY <2>1, <2>2, FS_Product
<1>4. IsFiniteSet(UNION blocks)
  BY <1>2, <1>3, FS_UNION
<1>5. Units(f) = UNION blocks
  <2>1. blocks = {{x} \X (1..f[x]) : x \in D}
    BY Zenon
  <2>2. DOMAIN f = D
    OBVIOUS
  <2>3. QED
    BY <2>1, <2>2 DEF Units
<1>6. QED
  BY <1>4, <1>5

\* The sizes of the parts of a set add up to its size.
LEMMA PartsAddUp ==
  ASSUME NEW D, NEW U, IsFiniteSet(U), NEW g \in [U -> D], NEW f \in [D -> Nat],
         \A d \in D : f[d] = Cardinality({u \in U : g[u] = d})
  PROVE  SumOf(f) = Cardinality(U)
<1> DEFINE Part(d) == {u \in U : g[u] = d}
           Order(d) == CHOOSE h : h \in Bijection(1..f[d], Part(d))
           Number == [p \in Units(f) |-> Order(p[1])[p[2]]]
<1>1. ASSUME NEW d \in D
      PROVE  /\ Order(d) \in [1..f[d] -> Part(d)]
             /\ \A k, l \in 1..f[d] : Order(d)[k] = Order(d)[l] => k = l
             /\ \A u \in Part(d) : \E k \in 1..f[d] : Order(d)[k] = u
  <2>1. Part(d) \in SUBSET U
    OBVIOUS
  <2>2. IsFiniteSet(Part(d))
    BY <2>1, FS_Subset, Zenon
  <2>3. ExistsBijection(1..f[d], Part(d))
    <3>1. f[d] = Cardinality(Part(d))
      OBVIOUS
    <3>2. ExistsBijection(1..Cardinality(Part(d)), Part(d))
      BY <2>2, FS_CardinalityType
    <3>3. QED
      BY <3>1, <3>2, Zenon
  <2>4. \E h : h \in Bijection(1..f[d], Part(d))
    BY <2>3 DEF ExistsBijection
  <2>5. Order(d) \in Bijection(1..f[d], Part(d))
    BY <2>4, Zenon
  <2> HIDE DEF Order, Part
  <2>6. QED
    BY <2>5 DEF Bijection, Injection, Surjection, IsInjective
<1>2. \A p : p \in Units(f) <=> \E x \in D : \E k \in 1..f[x] : p = <<x, k>>
  BY UnitsAre
<1> HIDE DEF Order
<1>3. ASSUME NEW p \in Units(f)
      PROVE  /\ p[1] \in D /\ p[2] \in 1..f[p[1]] /\ p = <<p[1], p[2]>>
             /\ Number[p] \in U /\ g[Number[p]] = p[1]
  <2>1. PICK x \in D : \E k \in 1..f[x] : p = <<x, k>>
    BY <1>2
  <2>2. PICK k \in 1..f[x] : p = <<x, k>>
    BY <2>1
  <2>3. Order(x)[k] \in Part(x)
    BY <1>1
  <2>4. Number[p] = Order(x)[k] /\ p[1] = x /\ p[2] = k
    BY <2>2
  <2>5. QED
    BY <2>2, <2>3, <2>4
<1>4. Number \in [Units(f) -> U]
  <2>1. Number = [p \in Units(f) |-> Number[p]]
    OBVIOUS
  <2> HIDE DEF Number
  <2>2. QED
    BY <1>3, <2>1
<1>5. ASSUME NEW p \in Units(f), NEW q \in Units(f), Number[p] = Number[q] PROVE p = q
  <2>1. p[1] = q[1]
    BY <1>3, <1>5
  <2>2. Order(p[1])[p[2]] = Order(p[1])[q[2]]
    BY <1>5, <2>1
  <2>3. p[2] = q[2]
    <3>1. p[1] \in D /\ p[2] \in 1..f[p[1]] /\ q[2] \in 1..f[p[1]]
      BY <1>3, <2>1
    <3>2. QED
      BY <1>1, <2>2, <3>1
  <2>4. p = <<p[1], p[2]>> /\ q = <<q[1], q[2]>>
    BY <1>3
  <2>5. QED
    BY <2>1, <2>3, <2>4
<1>6. ASSUME NEW u \in U PROVE \E p \in Units(f) : Number[p] = u
  <2>1. g[u] \in D /\ u \in Part(g[u])
    OBVIOUS
  <2>2. PICK k \in 1..f[g[u]] : Order(g[u])[k] = u
    BY <1>1, <2>1
  <2>3. <<g[u], k>> \in Units(f)
    BY <1>2, <2>1
  <2>4. Number[<<g[u], k>>] = u
    BY <2>2, <2>3
  <2>5. QED
    BY <2>3, <2>4
<1> HIDE DEF Number
<1>7. Number \in Bijection(Units(f), U)
  BY <1>4, <1>5, <1>6 DEF Bijection, Injection, Surjection, IsInjective
<1>8. ExistsBijection(U, Units(f))
  <2>1. ExistsBijection(Units(f), U)
    BY <1>7 DEF ExistsBijection
  <2>2. QED
    BY <2>1, Fun_ExistsBijSymmetric
<1>9. QED
  BY <1>8, FS_Bijection DEF SumOf

CostsKnown(runs) == IsFiniteSet(runs) /\ \A r \in runs : r.cost \in Nat

\* The cents of some of the runs are cents of all of them.
LEMMA CostOfSome ==
  ASSUME NEW runs, CostsKnown(runs), NEW some \in SUBSET runs
  PROVE  LET cents == Units([r \in runs |-> r.cost])
         IN  /\ IsFiniteSet(cents)
             /\ \A u \in cents : u[1] \in runs
             /\ Units([r \in some |-> r.cost]) = {u \in cents : u[1] \in some}
             /\ CostOf(some) = Cardinality({u \in cents : u[1] \in some})
             /\ CostOf(some) \in Nat
<1> DEFINE price  == [r \in runs |-> r.cost]
           costs == [r \in some |-> r.cost]
<1>1. price \in [runs -> Nat] /\ costs \in [some -> Nat] /\ \A r \in some : costs[r] = price[r]
  BY DEF CostsKnown
<1> HIDE DEF price, costs
<1>2. /\ \A p : p \in Units(price) <=> \E x \in runs : \E k \in 1..price[x] : p = <<x, k>>
      /\ \A p : p \in Units(costs) <=> \E x \in some : \E k \in 1..costs[x] : p = <<x, k>>
  BY <1>1, UnitsAre
<1>3. IsFiniteSet(Units(price))
  BY <1>1, UnitsFinite DEF CostsKnown
<1>4. \A u \in Units(price) : u[1] \in runs
  BY <1>2
<1>5. Units(costs) = {u \in Units(price) : u[1] \in some}
  <2>1. ASSUME NEW p \in Units(costs) PROVE p \in Units(price) /\ p[1] \in some
    <3>1. PICK x \in some : \E k \in 1..costs[x] : p = <<x, k>>
      BY <1>2
    <3>2. PICK k \in 1..costs[x] : p = <<x, k>>
      BY <3>1
    <3>3. x \in runs /\ k \in 1..price[x] /\ p[1] = x
      BY <1>1, <3>2
    <3>4. QED
      BY <1>2, <3>2, <3>3
  <2>2. ASSUME NEW p \in Units(price), p[1] \in some PROVE p \in Units(costs)
    <3>1. PICK x \in runs : \E k \in 1..price[x] : p = <<x, k>>
      BY <1>2
    <3>2. PICK k \in 1..price[x] : p = <<x, k>>
      BY <3>1
    <3>3. x \in some /\ k \in 1..costs[x]
      BY <1>1, <2>2, <3>2
    <3>4. QED
      BY <1>2, <3>2, <3>3
  <2>3. QED
    BY <2>1, <2>2
<1>6. CostOf(some) = Cardinality(Units(costs))
  BY DEF CostOf, SumOf, costs
<1>7. IsFiniteSet(Units(costs))
  <2>1. Units(costs) \in SUBSET Units(price)
    BY <1>5
  <2>2. QED
    BY <1>3, <2>1, FS_Subset
<1>8. CostOf(some) \in Nat
  BY <1>6, <1>7, FS_CardinalityType
<1>9. QED
  BY <1>3, <1>4, <1>5, <1>6, <1>8, Zenon DEF price, costs

\* The costs of groups of runs add up to the cost of all.
LEMMA CostsAddUp ==
  ASSUME NEW runs, CostsKnown(runs), NEW D, NEW g \in [runs -> D], NEW f \in [D -> Nat],
         \A d \in D : f[d] = CostOf({r \in runs : g[r] = d})
  PROVE  SumOf(f) = CostOf(runs)
<1> DEFINE cents == Units([r \in runs |-> r.cost])
           owner == [u \in cents |-> g[u[1]]]
           Group(d) == {r \in runs : g[r] = d}
<1>1. /\ IsFiniteSet(cents) /\ \A u \in cents : u[1] \in runs
      /\ CostOf(runs) = Cardinality({u \in cents : u[1] \in runs})
  BY CostOfSome
<1>2. {u \in cents : u[1] \in runs} = cents
  BY <1>1
<1>3. ASSUME NEW d \in D PROVE f[d] = Cardinality({u \in cents : owner[u] = d})
  <2>1. Group(d) \in SUBSET runs
    OBVIOUS
  <2>2. CostOf(Group(d)) = Cardinality({u \in cents : u[1] \in Group(d)})
    BY <2>1, CostOfSome
  <2>3. {u \in cents : u[1] \in Group(d)} = {u \in cents : owner[u] = d}
    BY <1>1
  <2>4. f[d] = CostOf(Group(d))
    BY Zenon
  <2>5. QED
    BY <2>2, <2>3, <2>4, Zenon
<1>4. owner \in [cents -> D]
  BY <1>1
<1> HIDE DEF cents, owner
<1>5. SumOf(f) = Cardinality(cents)
  <2>1. \A d \in D : f[d] = Cardinality({u \in cents : owner[u] = d})
    BY <1>3
  <2>2. IsFiniteSet(cents) /\ f \in [D -> Nat]
    BY <1>1
  <2>3. QED
    BY <1>4, <2>1, <2>2, PartsAddUp
<1>6. QED
  BY <1>1, <1>2, <1>5

LEMMA CostOfBoth ==
  ASSUME NEW runs, CostsKnown(runs), NEW a \in SUBSET runs, NEW b \in SUBSET runs, a \cap b = {}
  PROVE  CostOf(a) + CostOf(b) = CostOf(a \cup b)
<1> DEFINE cents  == Units([r \in runs |-> r.cost])
           Of(s)  == {u \in cents : u[1] \in s}
<1>1. /\ IsFiniteSet(cents)
      /\ CostOf(a) = Cardinality(Of(a)) /\ CostOf(b) = Cardinality(Of(b))
      /\ CostOf(a) \in Nat /\ CostOf(b) \in Nat
      /\ CostOf(a \cup b) = Cardinality(Of(a \cup b))
  <2>1. a \cup b \in SUBSET runs
    OBVIOUS
  <2>2. ASSUME NEW s \in SUBSET runs
        PROVE  IsFiniteSet(cents) /\ CostOf(s) = Cardinality(Of(s)) /\ CostOf(s) \in Nat
    <3>1. IsFiniteSet(cents) /\ CostOf(s) \in Nat
      BY CostOfSome
    <3>2. CostOf(s) = Cardinality({u \in Units([r \in runs |-> r.cost]) : u[1] \in s})
      BY CostOfSome
    <3>3. QED
      BY <3>1, <3>2, Zenon
  <2> HIDE DEF Of, cents
  <2>3. QED
    BY <2>1, <2>2
<1> HIDE DEF cents
<1>2. Of(a) \cup Of(b) = Of(a \cup b) /\ Of(a) \cap Of(b) = {}
  OBVIOUS
<1>3. IsFiniteSet(Of(a)) /\ IsFiniteSet(Of(b))
  BY <1>1, FS_Subset
<1> HIDE DEF Of
<1>4. Cardinality(Of(a) \cup Of(b)) = Cardinality(Of(a)) + Cardinality(Of(b)) - 0
  BY <1>2, <1>3, FS_Union, FS_EmptySet
<1>5. Cardinality(Of(a) \cup Of(b)) = Cardinality(Of(a \cup b))
  BY <1>2
<1>6. Cardinality(Of(a)) \in Nat /\ Cardinality(Of(b)) \in Nat
  BY <1>1
<1>7. Cardinality(Of(a)) + Cardinality(Of(b)) - 0 = Cardinality(Of(a)) + Cardinality(Of(b))
  BY <1>6
<1>8. QED
  BY <1>1, <1>4, <1>5, <1>7

LEMMA CostTyped ==
  ASSUME NEW runs, CostsKnown(runs), NEW some \in SUBSET runs
  PROVE  CostOf(some) \in Nat
BY CostOfSome

\* handleOverview: any field of a run divides the runs and their cost.
LEMMA PartitionsAddUp ==
  ASSUME NEW runs, CostsKnown(runs), NEW field
  PROVE  Partitions(By(runs, field), runs)
<1> DEFINE view     == By(runs, field)
           D        == {r[field] : r \in runs}
           g        == [r \in runs |-> r[field]]
           Group(v) == {r \in runs : r[field] = v}
           counts   == [v \in DOMAIN view |-> view[v].count]
           costs    == [v \in DOMAIN view |-> view[v].cost]
<1>1. DOMAIN view = D
  BY DEF By
<1>2. ASSUME NEW v \in D
      PROVE view[v].count = Cardinality(Group(v)) /\ view[v].cost = CostOf(Group(v))
  <2>1. view[v] = [count |-> Cardinality(Group(v)), cost |-> CostOf(Group(v))]
    BY DEF By
  <2> HIDE DEF Group
  <2>2. QED
    BY <2>1
<1> HIDE DEF view
<1>3. ASSUME NEW v \in D
      PROVE  /\ counts[v] = Cardinality(Group(v)) /\ costs[v] = CostOf(Group(v))
             /\ counts[v] \in Nat /\ costs[v] \in Nat
  <2>1. Group(v) \in SUBSET runs
    OBVIOUS
  <2>2. IsFiniteSet(Group(v))
    BY <2>1, FS_Subset, Zenon DEF CostsKnown
  <2>3. Cardinality(Group(v)) \in Nat
    BY <2>2, FS_CardinalityType, Zenon
  <2>4. CostOf(Group(v)) \in Nat
    BY <2>1, CostTyped, Zenon
  <2>5. counts[v] = Cardinality(Group(v)) /\ costs[v] = CostOf(Group(v))
    <3> HIDE DEF Group, D
    <3>1. QED
      BY <1>1, <1>2
  <2>6. QED
    BY <2>3, <2>4, <2>5, Zenon
<1>4. g \in [runs -> D] /\ \A r \in runs : g[r] = r[field]
  OBVIOUS
<1>5. \A v \in D : Group(v) = {r \in runs : g[r] = v}
  OBVIOUS
<1>6. counts \in [D -> Nat] /\ costs \in [D -> Nat]
  BY <1>1, <1>3, Zenon
<1> HIDE DEF g, D, counts, costs, Group
<1>7. SumOf(counts) = Cardinality(runs)
  <2>1. \A v \in D : counts[v] = Cardinality({r \in runs : g[r] = v})
    BY <1>3, <1>5
  <2>2. IsFiniteSet(runs)
    BY DEF CostsKnown
  <2>3. QED
    BY <1>4, <1>6, <2>1, <2>2, PartsAddUp
<1>8. SumOf(costs) = CostOf(runs)
  <2>1. \A v \in D : costs[v] = CostOf({r \in runs : g[r] = v})
    BY <1>3, <1>5
  <2>2. QED
    BY <1>4, <1>6, <2>1, CostsAddUp
<1>9. QED
  BY <1>7, <1>8 DEF Partitions, counts, costs, view

LEMMA RateIsAPercentage ==
  ASSUME NEW runs, IsFiniteSet(runs)
  PROVE  SuccessRate(runs) \in 0..1000
<1> DEFINE all  == Cardinality(runs)
           good == Cardinality({r \in runs : r.status = "COMPLETED"})
<1>1. all \in Nat /\ good \in Nat /\ good <= all
  <2>1. {r \in runs : r.status = "COMPLETED"} \in SUBSET runs
    OBVIOUS
  <2>2. IsFiniteSet({r \in runs : r.status = "COMPLETED"}) /\ good <= all
    BY <2>1, FS_Subset
  <2>3. QED
    BY <2>2, FS_CardinalityType
<1>2. SuccessRate(runs) = IF all = 0 THEN 0 ELSE (2000 * good + all) \div (2 * all)
  BY DEF SuccessRate
<1> HIDE DEF all, good
<1>3. ASSUME all # 0 PROVE (2000 * good + all) \div (2 * all) \in 0..1000
  <2> DEFINE n == 2000 * good + all
             d == 2 * all
  <2>1. n \in Nat /\ d \in Nat /\ d > 0 /\ n < 1001 * d
    BY <1>1, <1>3
  <2> HIDE DEF n, d
  <2>2. n \div d \in 0..1000
    BY <2>1
  <2>3. QED
    BY <2>2 DEF n, d
<1>4. QED
  BY <1>2, <1>3

\* handleUsage: the bars of the chart and the costs of the threads.
LEMMA UsageOf ==
  ASSUME ledger \in Ledgers
  PROVE  UsageAddsUp
<1> DEFINE chart   == Chart(ledger)
           threads == ThreadCosts(ledger)
           Day(d)  == {r \in ledger : r.day = d}
           One(d)  == {r \in ledger : r.day = d /\ (r.trigger \in Scheduled <=> FALSE)}
           Cron(d) == {r \in ledger : r.day = d /\ (r.trigger \in Scheduled <=> TRUE)}
<1>1. CostsKnown(ledger) /\ \A r \in ledger : r.day \in 1..Today
  BY DashboardAssumption DEF CostsKnown
<1>2. Today \in 1..Today
  BY DashboardAssumption
<1>3. ASSUME NEW d \in 1..Today
      PROVE  chart[d].oneOff = CostOf(One(d)) /\ chart[d].scheduled = CostOf(Cron(d))
  <2>1. chart[d] = [oneOff |-> Bar(ledger, d, FALSE), scheduled |-> Bar(ledger, d, TRUE)]
    BY Zenon DEF Chart
  <2>2. chart[d].oneOff = Bar(ledger, d, FALSE) /\ chart[d].scheduled = Bar(ledger, d, TRUE)
    <3> DEFINE x == Bar(ledger, d, FALSE)
               y == Bar(ledger, d, TRUE)
    <3>1. chart[d] = [oneOff |-> x, scheduled |-> y]
      BY <2>1, Zenon
    <3> HIDE DEF x, y, chart
    <3>2. chart[d].oneOff = x /\ chart[d].scheduled = y
      BY <3>1
    <3>3. QED
      BY <3>2, Zenon DEF x, y
  <2>3. Bar(ledger, d, FALSE) = CostOf(One(d)) /\ Bar(ledger, d, TRUE) = CostOf(Cron(d))
    BY Zenon DEF Bar
  <2>4. QED
    BY <2>2, <2>3, Zenon
<1>4. ASSUME NEW d \in 1..Today
      PROVE  /\ CostOf(One(d)) + CostOf(Cron(d)) = CostOf(Day(d))
             /\ CostOf(Day(d)) \in Nat
  <2>1. One(d) \in SUBSET ledger /\ Cron(d) \in SUBSET ledger /\ Day(d) \in SUBSET ledger
    BY Zenon
  <2>2. One(d) \cap Cron(d) = {} /\ One(d) \cup Cron(d) = Day(d)
    <3>1. ASSUME NEW r \in ledger PROVE ~(r \in One(d) /\ r \in Cron(d))
      BY Zenon
    <3>2. ASSUME NEW r \in ledger PROVE r \in One(d) \/ r \in Cron(d) <=> r \in Day(d)
      BY Zenon
    <3> HIDE DEF One, Cron, Day
    <3>3. QED
      BY <2>1, <3>1, <3>2
  <2> HIDE DEF One, Cron, Day
  <2>3. CostOf(One(d)) + CostOf(Cron(d)) = CostOf(One(d) \cup Cron(d))
    BY <1>1, <2>1, <2>2, CostOfBoth
  <2>4. CostOf(Day(d)) \in Nat
    BY <1>1, <2>1, CostTyped
  <2>5. QED
    BY <2>2, <2>3, <2>4, Zenon
<1> HIDE DEF One, Cron, chart
<1>5. SumOf([d \in 1..Today |-> chart[d].oneOff + chart[d].scheduled]) = CostOf(ledger)
  <2> DEFINE bars == [d \in 1..Today |-> chart[d].oneOff + chart[d].scheduled]
             dayOf == [r \in ledger |-> r.day]
  <2>1. ASSUME NEW d \in 1..Today PROVE bars[d] = CostOf(Day(d)) /\ bars[d] \in Nat
    BY <1>3, <1>4
  <2>2. bars \in [1..Today -> Nat]
    BY <2>1
  <2>3. dayOf \in [ledger -> 1..Today]
    BY <1>1
  <2>4. \A d \in 1..Today : Day(d) = {r \in ledger : dayOf[r] = d}
    OBVIOUS
  <2> HIDE DEF bars, dayOf, Day
  <2>5. \A d \in 1..Today : bars[d] = CostOf({r \in ledger : dayOf[r] = d})
    BY <2>1, <2>4
  <2>6. SumOf(bars) = CostOf(ledger)
    <3> DEFINE days == 1..Today
    <3>1. /\ CostsKnown(ledger) /\ dayOf \in [ledger -> days] /\ bars \in [days -> Nat]
          /\ \A d \in days : bars[d] = CostOf({r \in ledger : dayOf[r] = d})
      BY <1>1, <2>2, <2>3, <2>5, Zenon
    <3> HIDE DEF days
    <3>2. QED
      BY <3>1, CostsAddUp
  <2>7. QED
    BY <2>6, Zenon DEF bars
<1>6. chart[Today].oneOff + chart[Today].scheduled = TodaysCost(ledger)
  <2>1. TodaysCost(ledger) = CostOf(Day(Today))
    BY Zenon DEF TodaysCost
  <2> HIDE DEF Day
  <2>2. QED
    BY <1>2, <1>3, <1>4, <2>1
<1>7. SumOf(threads) = CostOf({r \in ledger : r.thread # "none"})
  <2> DEFINE runs   == {r \in ledger : r.thread # "none"}
             D      == {r.thread : r \in ledger} \ {"none"}
             of     == [r \in runs |-> r.thread]
             In(t)  == {r \in ledger : r.thread = t}
  <2>1. runs \in SUBSET ledger /\ CostsKnown(runs)
    <3>1. runs \in SUBSET ledger
      OBVIOUS
    <3>2. IsFiniteSet(runs)
      BY <1>1, <3>1, FS_Subset DEF CostsKnown
    <3>3. QED
      BY <1>1, <3>1, <3>2 DEF CostsKnown
  <2>2. of \in [runs -> D]
    OBVIOUS
  <2>3. \A t \in D : In(t) = {r \in runs : of[r] = t} /\ In(t) \in SUBSET ledger
    OBVIOUS
  <2>4. threads = [t \in D |-> CostOf(In(t))]
    BY Zenon DEF ThreadCosts
  <2> HIDE DEF runs, D, of, In, threads
  <2>5. \A t \in D : threads[t] = CostOf({r \in runs : of[r] = t}) /\ threads[t] \in Nat
    <3>1. ASSUME NEW t \in D PROVE CostOf(In(t)) \in Nat
      BY <1>1, <2>3, CostTyped
    <3>2. QED
      BY <2>3, <2>4, <3>1
  <2>6. threads \in [D -> Nat]
    BY <2>4, <2>5
  <2>7. SumOf(threads) = CostOf(runs)
    BY <2>1, <2>2, <2>5, <2>6, CostsAddUp
  <2>8. QED
    BY <2>7, Zenon DEF runs
<1>8. QED
  BY <1>5, <1>6, <1>7, Zenon DEF UsageAddsUp, chart, threads

LEMMA OverviewOf == ASSUME ledger \in Ledgers PROVE OverviewAddsUp
<1>1. CostsKnown(ledger) /\ IsFiniteSet(ledger)
  BY DashboardAssumption DEF CostsKnown
<1>2. QED
  BY <1>1, PartitionsAddUp, RateIsAPercentage DEF OverviewAddsUp, ByDay, ByModel, ByTrigger

\* A client that reads page after page misses no row but one whose update moved it, unless
\* the table grew between a count and its rows; it is shown none twice while nothing moves;
\* and the totals agree with each other, for every table, page size and set of runs.
\* (dashboard-api.ts)
THEOREM DashboardShows == DashboardSpec => []DashboardShowsAll
<1>1. PagesInv => DashboardShowsAll
  BY PagesInvSuffices, UsageOf, OverviewOf DEF PagesInv, TableInv, DashboardShowsAll
<1>2. QED
  BY <1>1, PagesInvInit, PagesInvStep, PTL DEF DashboardSpec
-----------------------------------------------------------------------------
(* All of them together: a behaviour of MCSlack is one of every module.    *)

\* The composition implements each of the modules it is made of: its steps are theirs,
\* or leave their variables alone.
LEMMA SlackPartsFollow ==
  MCSpec => /\ IngressSpec /\ LinkSpec /\ PostSpec /\ SpawnSpec
            /\ ConversationSpec /\ GatewaySpec /\ UsageSpec /\ DashboardSpec
<1>1. MCInit => /\ IngressInit /\ LinkInit /\ PostInit /\ SpawnInit
                /\ ConversationInit /\ GatewayInit /\ UsageInit /\ DashboardInit
  BY DEF MCInit
<1>2. [MCNext]_mcVars => [IngressNext]_ingressVars
  BY DEF MCNext, Only, mcVars
<1>3. [MCNext]_mcVars => [LinkNext]_linkVars
  BY DEF MCNext, Only, mcVars
<1>4. [MCNext]_mcVars => [PostNext]_postVars
  BY DEF MCNext, Only, mcVars
<1>5. [MCNext]_mcVars => [SpawnNext]_spawnVars
  BY DEF MCNext, Only, mcVars
<1>6. [MCNext]_mcVars => [ConversationNext]_conversationVars
  BY DEF MCNext, Only, mcVars
<1>7. [MCNext]_mcVars => [GatewayNext]_gatewayVars
  BY DEF MCNext, Only, mcVars
<1>8. [MCNext]_mcVars => [UsageNext]_usageVars
  BY DEF MCNext, Only, mcVars
<1>9. [MCNext]_mcVars => [DashboardNext]_dashboardVars
  BY DEF MCNext, Only, mcVars
<1>10. QED
  BY <1>1, <1>2, <1>3, <1>4, <1>5, <1>6, <1>7, <1>8, <1>9, PTL
     DEF MCSpec, IngressSpec, LinkSpec, PostSpec, SpawnSpec, ConversationSpec, GatewaySpec,
         UsageSpec, DashboardSpec

\* The variables of every module keep their types.
THEOREM SlackTyped == MCSpec => []SlackTypeOK
<1>1. /\ IngressTypeOK /\ LinkTypeOK /\ PostTypeOK /\ SpawnTypeOK /\ ConversationTypeOK
      /\ GatewayTypeOK /\ UsageTypeOK
      => SlackTypeOK
  BY DEF SlackTypeOK
<1>2. QED
  BY <1>1, SlackPartsFollow, MessagesAnswered, ConnectionsFollow, LogFollows,
     SpawnsAccountedFor, RequestsComplete, CallsSettled, SpendingBounded, PTL

\* What no step may do, whatever happens at the same time: an event of Slack is dropped
\* only for a reason that is named, a wait for a thread returns within its time, the
\* latest results are sent whole, and settings that are written one after the other stay.
THEOREM SlackStepsHold == MCSpec => SlackSteps
<1>1. DroppedEventExplained /\ WaitReturnsInTime /\ LatestResultsAreWhole
      /\ SerialSettingsAreKept => SlackSteps
  BY DEF SlackSteps
<1>2. QED
  BY <1>1, SlackPartsFollow, DropsAreExplained, WaitsReturn, ResultsWhole, SettingsKept
=============================================================================
