---------------------------- MODULE ModelGateway ----------------------------
(***************************************************************************)
(* One call of the model: LLMGateway.chat and the provider it has created  *)
(* (apps/bot/src/agent/gateway.ts, providers/), the repetition of requests *)
(* (retry.ts), what the response is turned into for the tool loop of the   *)
(* runner, and its price (pricing.ts).  The provider is chosen once, from  *)
(* DEFAULT_MODEL; a job may name another model for its runs.               *)
(*                                                                         *)
(* A model is the tuple of the parts of its name: <<"gpt-", "4o", "-mini">>*)
(* is gpt-4o-mini, <<"ollama/", "llama3">> is served locally.              *)
(***************************************************************************)
EXTENDS Naturals, SequencesExt

CONSTANTS
  DefaultModels,  \* values of DEFAULT_MODEL
  JobModels,      \* models that are named for a job
  SdkRetries      \* how often the Anthropic client repeats a request by itself

\* A sequence of at least one part.
Name(model) == model # <<>> /\ model \in Seq({model[i] : i \in 1..Len(model)})

ASSUME GatewayAssumption ==
  SdkRetries \in Nat /\ \A model \in DefaultModels \cup JobModels : Name(model)

None == <<>>

VARIABLES
  defaultModel, apiKeys,  \* DEFAULT_MODEL and the providers a key is configured for
  gatewayAt,  \* "down", "up" or "refused"
  askedModel, \* the model of the call
  chosen,     \* it was named for the job
  tooLong,    \* the prompt exceeds the model's context
  chatAt,     \* "idle", "asking", "pausing" between two attempts, or "settled"
  attempt,    \* of withRetry
  sdkTry,     \* of the Anthropic client within the attempt
  requests,   \* sent in this call
  reply,      \* the last one of the provider's API
  chatResult  \* what chat returns or throws

gatewayVars == <<defaultModel, apiKeys, gatewayAt, askedModel, chosen, tooLong, chatAt,
                 attempt, sdkTry, requests, reply, chatResult>>
-----------------------------------------------------------------------------
(* Models, providers and prices.                                           *)

ProviderOf(model) ==
  CASE Head(model) = "ollama/" -> "ollama"
    [] Head(model) = "claude-" -> "anthropic"
    [] Head(model) = "gpt-"    -> "openai"
    [] Head(model) = "gemini-" -> "google"
    [] OTHER -> "none"

provider == ProviderOf(defaultModel)

\* superRefine of the configuration: the key that the model's name asks for, and
\* Anthropic's for a name of no family.
KeyNeeded(model) ==
  CASE ProviderOf(model) \in {"openai", "google"} -> {ProviderOf(model)}
    [] ProviderOf(model) = "ollama" -> {}
    [] OTHER -> {"anthropic"}

Sonnet     == <<"claude-", "sonnet-4">>
TierModels == <<<<"claude-", "haiku-4", "-5">>, Sonnet, Sonnet>>

ModelForTier(tier, override) == IF override = None THEN TierModels[tier] ELSE override

PriceKeys ==
  {<<"claude-", "opus-4">>, <<"claude-", "sonnet-4">>, <<"claude-", "haiku-4">>,
   <<"gemini-", "3.1-pro">>, <<"gemini-", "2.5-flash">>, <<"gemini-", "2.5-pro">>,
   <<"gemini-", "2.0-flash">>, <<"gemini-", "1.5-flash">>,
   <<"gpt-", "4.1">>, <<"gpt-", "4o">>, <<"gpt-", "4o", "-mini">>}

Free == <<"free">>

\* findPricing: the entry with the longest name the model's begins with.
FindPricing(model) ==
  LET fits == {key \in PriceKeys : IsPrefix(key, model)} IN
  CASE Head(model) = "ollama/" -> Free
    [] Head(model) # "ollama/" /\ fits # {} ->
         CHOOSE key \in fits : \A other \in fits : Len(other) <= Len(key)
    [] Head(model) = "gemini-" /\ fits = {} -> <<"gemini-", "2.0-flash">>
    [] Head(model) = "gpt-" /\ fits = {} -> <<"gpt-", "4o">>
    [] OTHER -> Sonnet
-----------------------------------------------------------------------------
(* The APIs of the providers, of which the code knows this much.           *)

\* stripModelPrefix of the OpenAI form; the others are sent the name as it is.
WireName(model) ==
  IF provider \in {"openai", "ollama"} /\ Head(model) = "ollama/" THEN Tail(model) ELSE model

\* What an API serves: its family, and a local server the model it was set up with.
Serves(model) ==
  IF provider = "ollama" THEN WireName(model) = Tail(defaultModel)
  ELSE ProviderOf(WireName(model)) = provider

\* "limit" is status 429, also as an error in the body of a Gemini response,
\* "overloaded" 529, "down" 500 or 503, "dropped" a failed connection.
Troubles ==
  {"limit", "down", "dropped", "timeout", "badKey"}
    \cup (IF provider = "anthropic" THEN {"overloaded"} ELSE {})
    \cup (IF provider = "google" THEN {"limitInBody"} ELSE {})
Replies ==
  IF chatAt # "asking" THEN {}
  ELSE IF ~Serves(askedModel) THEN {"unknownModel"}
  ELSE Troubles \cup {IF tooLong THEN "tooLong" ELSE "answer"}

\* The words of a provider that say that a prompt is too long.
Wording ==
  CASE provider = "anthropic" -> "prompt is too long"
    [] provider = "google" -> "exceeds the maximum"
    [] OTHER -> "context length"

\* Why a response ended.
ClaudeFinishes == {"end_turn", "tool_use", "max_tokens", "refusal"}
OpenAIFinishes == {"stop", "length", "tool_calls", "content_filter"}
GeminiFinishes == {"STOP", "MAX_TOKENS", "SAFETY", "MALFORMED_FUNCTION_CALL"}
-----------------------------------------------------------------------------
(* Repetition and errors.                                                  *)

MaxRetries == IF provider = "anthropic" THEN 3 ELSE 2

\* Mutant: only the status is looked at.
RetryableByStatus(r) == r \in {"limit", "overloaded"}

\* isRetryable.  The Anthropic client's connection error has no status, but has the
\* property, and its message is "Connection error.".
Retryable(r) == r \in {"limit", "overloaded"} \/ (r = "dropped" /\ provider # "anthropic")

\* What the Anthropic client repeats by itself.
SdkRepeats(r) ==
  /\ provider = "anthropic" /\ sdkTry < SdkRetries
  /\ r \in {"limit", "overloaded", "down", "dropped", "timeout"}

\* The messages of what chat throws, as far as anybody reads them.
Spoken(r, known) ==
  CASE r = "tooLong" -> {"Bad request", Wording} \cup
                        (IF Wording \in known THEN {"prompt is too long"} ELSE {})
    [] r \in {"limit", "limitInBody"} -> {"Rate limit exceeded after retries"}
    [] OTHER -> {r}

MapProviderError(r) == Spoken(r, {})
MapOpenAIError(r)   == Spoken(r, {"context length", "too long"})
MapGeminiError(r)   == Spoken(r, {"prompt is too long", "exceeds the maximum"})

MessageOf(r) ==
  CASE provider = "anthropic" -> MapProviderError(r)
    [] provider = "google" -> MapGeminiError(r)
    [] OTHER -> MapOpenAIError(r)

IsContextOverflow(message) == "prompt is too long" \in message

NoResult == [kind |-> "none"]
Failure(message) == [kind |-> "failure", message |-> message]

\* mapFinishReason of the two providers; Anthropic's reasons are the runner's.
OpenAIStop(finish) ==
  CASE finish = "tool_calls" -> "tool_use"
    [] finish = "length" -> "max_tokens"
    [] finish = "content_filter" -> "refusal"
    [] OTHER -> "end_turn"
GeminiStop(finish, calls) ==
  CASE calls # "none" -> "tool_use"
    [] calls = "none" /\ finish = "MAX_TOKENS" -> "max_tokens"
    [] calls = "none" /\ finish = "SAFETY" -> "refusal"
    [] OTHER -> "end_turn"

Answered(calls, finish, stop) ==
  [kind |-> "answer", calls |-> calls, finish |-> finish, stop |-> stop,
   price |-> FindPricing(askedModel)]

\* parseResponseContent of openai.ts: calls whose arguments are no JSON object throw.
OpenAIParsed(calls, finish) ==
  IF calls = "malformed" THEN Failure({"malformed"})
  ELSE Answered(calls, finish, OpenAIStop(finish))
-----------------------------------------------------------------------------
GatewayInit ==
  /\ defaultModel \in DefaultModels
  /\ apiKeys \in SUBSET {"anthropic", "openai", "google"}
  /\ gatewayAt = "down"
  /\ askedModel = None /\ chosen = FALSE /\ tooLong = FALSE
  /\ chatAt = "idle" /\ attempt = 0 /\ sdkTry = 0 /\ requests = 0
  /\ reply = "none" /\ chatResult = NoResult

\* createProvider; OpenAI's key it leaves to the configuration.
CanCreate == provider \in {"openai", "ollama"} \cup (apiKeys \cap {"anthropic", "google"})

\* The configuration is read and the gateway constructed.
StartGateway ==
  /\ gatewayAt = "down"
  /\ gatewayAt' = IF KeyNeeded(defaultModel) \subseteq apiKeys /\ CanCreate
                    THEN "up" ELSE "refused"
  /\ UNCHANGED <<defaultModel, apiKeys, askedModel, chosen, tooLong, chatAt, attempt, sdkTry,
                 requests, reply, chatResult>>

AskModel(model, byPerson) ==
  /\ gatewayAt = "up" /\ chatAt = "idle"
  /\ askedModel' = model /\ chosen' = byPerson
  /\ tooLong' \in BOOLEAN
  /\ chatAt' = "asking"
  /\ UNCHANGED <<defaultModel, apiKeys, gatewayAt, attempt, sdkTry, requests, reply,
                 chatResult>>

\* A run that somebody started: no model is passed.
ChatOfThread == AskModel(defaultModel, FALSE)

\* A run of a cron job.
ChatOfJob ==
  \E tier \in 1..3, override \in JobModels \cup {None} :
    AskModel(ModelForTier(tier, override), override # None)

ReceiveReply(r) ==
  /\ r \in Replies
  /\ reply' = r /\ requests' = requests + 1
  /\ UNCHANGED <<defaultModel, apiKeys, gatewayAt, askedModel, chosen, tooLong>>

SdkTriesAgain ==
  \E r \in Replies :
    /\ ReceiveReply(r) /\ SdkRepeats(r)
    /\ sdkTry' = sdkTry + 1
    /\ UNCHANGED <<chatAt, attempt, chatResult>>

Fails ==
  \E r \in Replies \ {"answer"} :
    /\ ReceiveReply(r) /\ ~SdkRepeats(r)
    /\ IF Retryable(r) /\ attempt < MaxRetries
         THEN chatAt' = "pausing" /\ UNCHANGED chatResult
         ELSE chatAt' = "settled" /\ chatResult' = Failure(MessageOf(r))
    /\ UNCHANGED <<attempt, sdkTry>>

Responds(found) ==
  /\ ReceiveReply("answer")
  /\ chatAt' = "settled"
  /\ chatResult' = found
  /\ UNCHANGED <<attempt, sdkTry>>

ClaudeAnswers ==
  /\ provider = "anthropic"
  /\ \E finish \in ClaudeFinishes, calls \in {"none", "some"} :
       Responds(Answered(calls, finish, finish))

\* "No response choices returned", or a choice.
OpenAIAnswers ==
  /\ provider \in {"openai", "ollama"}
  /\ \/ Responds(Failure({"nothing"}))
     \/ \E finish \in OpenAIFinishes, calls \in {"none", "some", "malformed"} :
          Responds(OpenAIParsed(calls, finish))

\* No candidate, or one without parts, which safety filters may have blocked; or parts.
GeminiAnswers ==
  /\ provider = "google"
  /\ \/ Responds(Failure({"nothing"}))
     \/ \E finish \in GeminiFinishes, calls \in {"none", "some"} :
          Responds(Answered(calls, finish, GeminiStop(finish, calls)))

\* The delay of withRetry, or the one of the retry-after header, is over.
TryAgain ==
  /\ chatAt = "pausing"
  /\ chatAt' = "asking"
  /\ attempt' = attempt + 1 /\ sdkTry' = 0
  /\ UNCHANGED <<defaultModel, apiKeys, gatewayAt, askedModel, chosen, tooLong, requests,
                 reply, chatResult>>

\* The runner goes on with what it got.
ChatReturns ==
  /\ chatAt = "settled"
  /\ chatAt' = "idle" /\ attempt' = 0 /\ sdkTry' = 0 /\ requests' = 0
  /\ askedModel' = None /\ chosen' = FALSE /\ tooLong' = FALSE
  /\ reply' = "none" /\ chatResult' = NoResult
  /\ UNCHANGED <<defaultModel, apiKeys, gatewayAt>>

GatewayNext ==
  \/ StartGateway
  \/ ChatOfThread \/ ChatOfJob
  \/ SdkTriesAgain \/ Fails \/ TryAgain
  \/ ClaudeAnswers \/ OpenAIAnswers \/ GeminiAnswers
  \/ ChatReturns

GatewaySpec == GatewayInit /\ [][GatewayNext]_gatewayVars
-----------------------------------------------------------------------------
\* What the runner does with it: chatWithRecovery and execute (runner.ts 489-609).
RunnerTurn ==
  IF chatResult.kind = "failure"
    THEN IF IsContextOverflow(chatResult.message) THEN "compress" ELSE "fail"
    ELSE CASE chatResult.stop # "tool_use" -> "reply"
           [] chatResult.stop = "tool_use" /\ chatResult.calls = "none" -> "apologize"
           [] OTHER -> "tools"
-----------------------------------------------------------------------------
(* Properties.                                                             *)

GatewayTypeOK ==
  /\ defaultModel \in DefaultModels /\ apiKeys \subseteq {"anthropic", "openai", "google"}
  /\ gatewayAt \in {"down", "up", "refused"}
  /\ {chosen, tooLong} \subseteq BOOLEAN
  /\ chatAt \in {"idle", "asking", "pausing", "settled"}
  /\ attempt \in 0..MaxRetries /\ sdkTry \in 0..SdkRetries
  /\ chatResult.kind \in {"none", "failure", "answer"}

\* A gateway that is up has the key of the provider it calls, although createProvider
\* does not ask for OpenAI's (providers/index.ts:25).
UpHasItsKey == gatewayAt = "up" => provider \in apiKeys \cup {"ollama"}

\* A prompt that the provider found too long is compressed by the runner, and nothing
\* else is: three providers say it in three ways.  (retry.ts 90-98, openai.ts 206-210,
\* google.ts 270-274)
OverflowIsRecognised ==
  chatAt = "settled" => (reply = "tooLong" <=> RunnerTurn = "compress")

\* A run fails for a limit, an overload or a lost connection only after every request
\* its provider is granted, and no call sends more: of Anthropic's, which two layers
\* repeat, twelve for a status and three for a connection; a limit that Gemini reports in
\* a body is final, although its message says "after retries".  (retry.ts 64-88)
GivesUpLast ==
  chatAt = "settled" =>
    LET repeats == IF provider = "anthropic" THEN SdkRetries + 1 ELSE 1 IN
    /\ requests <= (MaxRetries + 1) * repeats
    /\ chatResult.kind = "failure" /\ reply \in {"limit", "overloaded", "dropped"} =>
         IF provider = "anthropic" /\ reply = "dropped"
           THEN requests >= repeats
           ELSE requests = (MaxRetries + 1) * repeats

\* The tool calls of a response are executed, unless its provider gives another reason
\* for its end; Gemini gives none, and google.ts:218 looks at the calls.  (runner.ts:590)
CallsAreExecuted ==
  chatAt = "settled" /\ chatResult.kind = "answer" /\ chatResult.calls = "some"
    => \/ RunnerTurn = "tools"
       \/ provider # "google" /\ chatResult.finish \notin {"tool_use", "tool_calls"}

\* An answer has the price of the most specific entry for its model; where its name says
\* who serves it, a local one is free, whatever its name, and any other has the price of
\* its family.  (pricing.ts 84-94)
PriceIsTheModels ==
  chatResult.kind = "answer" =>
    /\ \A key \in PriceKeys : Head(askedModel) # "ollama/" /\ IsPrefix(key, askedModel)
         => IsPrefix(key, chatResult.price)
    /\ ProviderOf(askedModel) = provider =>
         IF provider = "ollama" THEN chatResult.price = Free
         ELSE Head(chatResult.price) = Head(askedModel)

ModelCallsAreSettled ==
  UpHasItsKey /\ OverflowIsRecognised /\ GivesUpLast /\ CallsAreExecuted /\ PriceIsTheModels

\* A run whose model nobody named asks the provider that serves it: a deployment
\* needs one provider, and with Ollama no key at all.  (docs/self-hosting.md 137-151)
DefaultRunsAreServed == chatAt = "asking" /\ ~chosen => Serves(askedModel)
=============================================================================
