# A formal model of llmapimux

llmapimux is a Go library that serves four LLM wire protocols (Anthropic Messages, OpenAI
Chat, OpenAI Responses, Gemini) and forwards each request, through one intermediate
representation (IR), to an upstream that may speak any of the four. This directory holds
TLA+ modules translated from its source, the TLC configurations that check them on small
instances, and TLAPS proofs of the main results for every instance.

## 1. The system

| Component | Source | State | Operations |
|---|---|---|---|
| Circuit-breaker router | `circuit_breaker.go` | one circuit per key (state, two counters, time of the last failure, half-open slots taken), one attempt record per request id, a call counter | `Route`, `OnError`, `OnSuccess`, the lazy cleanup |
| Handler | `handler.go`, `attempt_controller.go` | per request: target, attempt number, retries, the IR request all attempts share, the attempt's permit | `ServeHTTP`: authenticate, decode, route, the fallback loop, in it the retry loop, the answer, `OnComplete` |
| Streaming pipeline | `handler.go` (`wrapStreamForStats`, `handleStreaming`), `outbound_*.go` (`SendStream`) | two unbuffered channels, a stop channel, a summary | three goroutines: upstream reader, statistics wrapper, codec |
| Upstream readers | `outbound_*.go` (`SendStream`), `convert_*.go` (stream decoders) | per stream: the event kept back, index maps, suppressed items | one goroutine per stream: read, decode, re-map, split, drain |
| Streaming codecs | `codec_*.go`, `convert_*.go` (stream encoders) | per stream: open block or items, index maps, buffered tool calls, usage | one `WriteStreamingResponse` per protocol |
| Message converters | `convert_*.go` | none; the client keeps the conversation and sends all of it with every request | decode to and encode from the IR, requests and responses |
| Request options | `convert_*.go`, `tool_helpers.go`, `model_defaults.go` | none | which tools are sent, the choice among them, max_tokens, thinking |
| RawExtra, SSE, HTTP client cache | `rawextra.go`, `sse.go`, `outbound.go` | a line reader; a map of clients by proxy | |
| Mux, providers, statistics and wire types | `mux.go`, `provider.go`, `stats.go`, `message.go`, `protocol/` | none that changes | |

How they interact. Every HTTP request is a goroutine in `ServeHTTP`. It calls the router, which
all requests share; the user's attempt controller, which admits attempts and grants retries;
the outbound client; and the user's `StatsReporter`. A streamed response adds two goroutines
joined by channels. The request's context may be canceled at any time by the client, and is
canceled by `net/http` when the handler returns.

What is hard about it:

* *Interleaving.* `OnError` is three critical sections under two kinds of mutexes; other requests
  run between any two of them. A circuit may open, recover and close between the admission of a
  request and its report.
* *Resources that go round.* Half-open slots, attempt records and permits are taken in one call
  and given back in another, on some but not all of the ways out of the handler.
* *Shared request.* All attempts of a request re-use one IR request: what one target needed in
  it must not reach the next.
* *Cancellation and time.* The client may leave at every step of the retry loop; records age.
* *Channels.* The codec may stop reading before the stream ends, the stream may fail or end
  before the codec is done, and the choice among ready cases is random.
* *Four protocols with each other.* One sends blocks with starts and stops, one items, one
  chunks with several things in one, one whole parts. Fragments of tool calls may be interleaved,
  the reason and the usage come before or after the content, an index may be skipped.
* *Conversations.* The gateway forgets everything between two requests. What a conversion loses or
  renames in an answer comes back so with the next request, and ids that a protocol does not have
  are made up anew each time.

What makes each component right: slots and records balance and a request is never routed twice
to the same upstream (router); one answer, one completion event, a permit exactly while an
upstream is in use, a body that fits its target (handler); no event lost or reordered, callbacks
serialized, a completion status that follows the `Err` of the stream and the context whoever ends first, and no
goroutine left behind (pipeline); a well-formed
stream of the client's protocol, with the provider's content, calls, reason and usage, whatever the
upstream's protocol was (readers and codecs); the same conversation on both sides, results with
their calls, a beginning that does not change, and requests that the provider accepts (converters).

## 2. The modules

| Module | Models | Companion modules |
|---|---|---|
| `CircuitBreaker` | the router, all requests | `CircuitContract` (abstract circuit), `MCCircuitBreaker`, `CircuitBreakerProofs` |
| `Handler` | one call of `ServeHTTP` | `RequestLifecycle` (what client and reporter see), `MCHandler`, `HandlerProofs` |
| `StreamPipeline` | one streamed response, three goroutines | `StreamPipelineProofs` |
| `Translation` | a streamed answer from a provider of any protocol to a client of any protocol | composes the eight modules below; `StreamEvents` (the IR events); `TranslationInvariants`, `FeedProofs`, `TranslationProofs`, `WellFormedProofs` |
| `AnthropicUpstream`, `ChatUpstream`, `ResponsesUpstream`, `GeminiUpstream` | the reading goroutine of each outbound client, and its provider | |
| `AnthropicStream`, `ChatStream`, `ResponsesStream`, `GeminiStream` | the codec of each inbound protocol, and its client | `AnthropicStreamProofs` |
| `Conversation` | a conversation over several requests, each converted there and back | composes the five modules below; `MCConversation`, `ConversationProofs` |
| `AnthropicMessages`, `ChatMessages`, `ResponsesMessages`, `GeminiMessages` | the requests and responses of each protocol | `Messages` (the IR messages) |
| `RequestOptions` | tools, tool choice, max_tokens, thinking | |

### CircuitBreaker

A goroutine of request `r` is at `pc[r]`. One action is one critical section: `Route` and
`ReportError` are the calls' beginnings with `lazyCleanup`; `TryClosed`, `TryCooling`,
`TryRecovered` and `TryHalfOpen` are the cases of `tryCandidate` under the circuit's mutex;
`RecordAdmitted`, `RecordFailed`, `ReadAttempted` and `DeleteRecord` are sections under
`attemptMu`; `CountFailure`, `CountHarmless` and `ReportSuccess` are the circuit sections of
`OnError` and `OnSuccess`. Between calls the request is in `"sending"`, in the handler's hands,
which may also `Abandon` it: `ServeHTTP` returns without a report when the context is done or
`Acquire` fails. The candidates are any list a `CandidateFunc` may return.

Time is a `Tick` that lowers the cooldown of open circuits and ages the records; `StaleAge` stands
for the five minutes of the cleanup. `LongRequests = FALSE` is the assumption that a request ends
within that time, `ClientsMayCancel = FALSE` the assumption that none is given up without a
report; the runs that show what happens without them set them to `TRUE`. `probes`, `stale` and
`tried` are history variables: they record who was admitted and are read by no guard.

`CircuitContract` is a circuit as its users understand it: closed until enough failures in a row,
open for a time, half-open until one failure or enough successes. `CircuitBreaker` implements it
(`KeepsContract`), key by key.

### Handler

A call of `ServeHTTP` walks over the labels of `pc`. `RouteTo`, `FallBackTo` and `OutOfTargets` are the
answers of the router; `Admitted` and `NotAdmitted` those of the controller; `RetrySameTarget` and
`NoRetry` its advice; `SendFails`, `SendSucceeds` and `StreamOpens` the upstream's. These parties are
interfaces of the user or external, so each may answer anything. With no controller configured,
every attempt is admitted and no retry granted, which is a special case. `Cancel` may come
between any two steps. `encoded` is what the next send carries: whose model, whose
`OutboundExtra`, and whether the inbound body's unknown fields are merged in.

`RequestLifecycle` says what is visible: refused, or started and then failed, delivered, or
committed and finished. `Handler` implements it (`FollowsLifecycle`).

### StreamPipeline

Begins where `SendStream` has returned its channel. A send on an unbuffered channel and its receive are
one step (`Take`, `Forward`); a `select` is one action per case. `Take` also counts the event, and the
state `"reporting"` lasts while `OnFirstByte` and `OnStreamChunk` run. The wrapper's summary goes into a
channel with room for it, so handing it in and closing `wrappedCh` are one step. The four outbound
clients differ in what they do after a stop: Chat and Gemini drain the body (`"draining"`) before
they pass it on. Events are numbers and kinds; what codecs make of them is abstracted to "it writes,
and goes on or returns". A failure may reach the client in two ways: as the `Err` of a `StreamResult`, or in an event
(`"told"`, a `StreamEventError`), which the wrapper passes on like any other. Only the first is an error for `OnComplete`,
and `StatusFollowsErr` says so (section 5). The Responses client may still pass on events decoded from the same SSE
message after its stop; the model ends there.

### Translation

The pipeline between reader and codec passes events on in order (`StreamPipeline` shows that), so here it is
a queue. The sixteen pairs of protocols are one specification: `upstream` and `inbound` are chosen in the
initial state and never change, and an action of `Translation` is the action of the module that was chosen.

*Content* is abstracted to numbered pieces: a fragment of a text, a thought, a refusal or the arguments of a
call. `said` is what the provider has said, `client.answer` what the client's SDK has put together; the
properties compare the two. Token counts are two numbers, that of the prompt and that of the completion.

*Readers.* A module `...Upstream` has one action for everything the provider may send next (`ContentBlockDelta`,
`CallChunk`, `OutputItemAdded`, ...), which are external, and in each of them the program's part: `Decode...` is the
stream decoder of `convert_*.go`, `Reads` the body of the loop in `SendStream`. `ReadsUnsplit`, `Mapped`,
`Send`, `Drained` and `TrailingUsage` are the rules of single readers: the split of a Gemini chunk with content and a
reason, the re-mapping of Responses indices, the stop that is kept back while trailing usage is awaited.
A provider may speak badly only where its API allows it: interleaved calls of Chat, chunks without choices,
a failure or a closed connection at any point. A failure told in band is an event of its own for Anthropic and Responses. The
decoders of Chat and Gemini do not know it: `ErrorPayload` is decoded as a start, and `said.end` becomes `"unheard"`, so that
`ErrorTold` can demand at least that such a stream never looks complete.

*Codecs.* A module `...Stream` has one action per kind of event, whose result is the iteration of the loop
over it: what is noted of usage and reason, what is closed and opened, what is buffered. `codec` is a record of the
variables of `WriteStreamingResponse` under the names of the source. The flush of buffered calls of the Anthropic
codec is one step per call. `Sees...` is what the client's SDK, external, makes of each thing it is sent; it sets
`broken` when its protocol does not allow it. About a second `message_start` it is lenient, and
`SecondStart` shows why it has to be. Of the client of Chat two things are kept: `answer.pieces` is what came in
choice 0, the candidate that finishes, and `shown` what came in any choice. `ContentKept` is about `shown` where the provider
speaks another protocol, since the encoder spreads the blocks of such an answer over choices; `SplitChoices` shows that choice 0
alone does not have the text.

`AnthropicStream` has a `Spec` of its own, with any events at all from upstream but for what `Admissible`
excludes. That is the assumption of its theorem; `EventsAdmissible` states it of the four readers.

### Conversation

Client and provider are external, the gateway is between them in `Send` and `Answer`:
`EncodeRequest(to, DecodeRequest(history))` and `EncodeResponse(DecodeResponse(resp))`. `history` is in the client's
protocol and is kept by the client; `sent` is what the provider was sent. `said` lists who said what, in
order; `Heard(sent)` is what the provider reads. Everything said has a number of its own, so a text that is
lost, repeated, moved or given to the other side is told from all others.

`Decode...` and `Encode...` are the functions of `convert_*.go` as far as the conversation goes: which parts a
protocol can express and what becomes of the others, which messages are taken apart, hoisted or merged, and what is
put in place of an empty content. `geminiToolCorrelator` is a record that is folded over the messages.
An id is a sequence: a number for a provider's, `<<name, args, ordinal>>` for one that is made up.

`RequestOptions` is `Convert(from, to, asked)`, what becomes of the options of the client. `BudgetForEffort`,
`Fitted` and `Sanitized` are the rules between them.

## 3. The runs

| Run | Result | Shows |
|---|---|---|
| `BreakerSafety` | pass | slots, records and targets, three requests, two upstreams |
| `BreakerContract` | pass | refinement of `CircuitContract`, three requests with cancellations, one upstream; every request ends |
| `BreakerLostSlot` | violation | a half-open slot is lost when the handler returns without a report |
| `BreakerStaleReport` | violation | stale reports give away slots of running probes |
| `HandlerAllPaths` | pass | permits, bodies, late sends, accounts, reports, refinement of `RequestLifecycle`; what was started is completed |
| `StreamAllEndings` | pass | order, completeness, serialized callbacks, counts, status; everything ends |
| `StreamEarlyRelease` | violation | a permit is released while the upstream still streams |
| `Translation` | pass | all sixteen pairs: a well-formed stream with the content, calls, reason and usage of the provider, which comes to its end |
| `SecondStart` | violation | a chunk without choices becomes a second `message_start` |
| `SplitChoices` | violation | the text of another protocol's answer comes in another choice than its `finish_reason` |
| `Conversation` | pass | all pairs, and changes of the provider: nothing lost, moved or renamed, results with their calls, a stable beginning, acceptable requests, outcome and cost told |
| `SignatureLost` | violation | a signed thought comes back unsigned from a Chat client |

Each passing property also has a variant of a definition, next to the definition and headed "What a
bug would do", under which it fails.

Bounds and why they are enough.

* *Router.* Three requests are what a stale report, a probe and a bystander need; two upstreams give a
  fallback and an exhausted list; `FailureThreshold = 1` reaches every transition with the fewest
  failures and `SuccessThreshold = 2` separates giving a slot back from closing. `CleanupInterval = 2`
  makes the cleanup run between any two calls or not. `Request` is a symmetry set where no liveness is
  checked. In `BreakerContract` both thresholds and `HalfOpenMax` are 2, so that failures add up, are forgotten
  and two probes run at once; one upstream suffices because the contract speaks of each key alone.
* *Handler.* One target of each kind (inbound protocol, another, no client) in every order up to three,
  repetitions included; two retries separate first, middle and last.
* *Pipeline.* At most one event is in flight per channel, so five events put every pair of places
  ahead of and behind a full pipeline.
* *Translation.* `MaxPieces = 3`: two fragments of one call with one of another in between, or a text, a
  thought and a text. `MaxBlocks = 3` blocks or items, so one can be closed, open and to come. Two calls,
  three reasons (complete, calls, cut off). The counts of usage are distinct, so a count that is left
  out or put in the place of another is seen. `server_tool_use` blocks are left out of the runs, since
  the Anthropic codec takes them apart whenever they come (section 5), and Chat and Gemini clients get a call without an id;
  the theorems about Anthropic and Responses clients cover them. The
  reason of a Responses answer is its status, so that `HonestEnd` does not ask for a reason that the
  provider did not give (section 5).
* *Conversation.* `MaxAnswers = 2`, so that what came back from one answer is sent with the next
  request and another answer follows upon it; `MaxSwitch = 1`: the provider may be another after the first answer. An answer
  makes two calls, of one function with different arguments or of two functions (`MCCallLists`): these are the
  two cases that matching by name tells apart. The same call is not made twice in one answer (section 5). A
  provider gives thoughts, then text, then calls. Results come in any order in which the client
  can say what they answer, the first of them an error or not. Options and media come with the first request, media once. `Limits`
  and `Budgets` lie around 1024, the least budget, and the default limit 4096. One tool of each sort: a function,
  a server tool that Responses has, too, one that only Anthropic has.

Deadlock is checked in every run but `Conversation` and `SignatureLost`: a client may stop at any point of a
conversation, and the last answer is the last step. In the others the only state without another step is the
end, which each specification allows explicitly (`Finished`, `Returned`, `Terminated`).

Fairness. `BreakerContract`: a goroutine inside the router proceeds (Go mutexes are starvation free) and a
request is not kept in the handler for ever (upstream calls end by an answer, a failure or the
client). `HandlerAllPaths`: the goroutine proceeds; what it waits for (the controller, the upstream, the
timer, the stream) answers, and retries and targets run out, as the bounds say. `StreamAllEndings`:
goroutines proceed, a write to the client ends or fails, and an aborted body read fails; no
fairness makes a silent upstream speak, which is why the property starts from an ending. `Translation`: the
codec receives what is there, goes on with a flush and sees the channel closed (`Received`, `Flush`,
`SeesEnd`: goroutines proceed), and the body is closed in the end, by the provider or by the
deadline of the context (`UpstreamEnds`). Again nothing makes a provider speak: `EndReaches` starts from an
answer that it has ended.

## 4. The proofs

All for any values of the constants that satisfy the named assumptions of the module.

* `CircuitBreakerProofs`. `TypeCorrect` from `TypeInv` (with `TargetKnown`: a request that is being sent
  has a key). `SlotsCounted` from `SlotInv`: the equation *slots taken = probes in flight − stale
  reports* is not inductive without `ProbesOutstanding`, that a probe is a request still on its way with that
  key as its target. It gives `SlotsReturn` (assuming no cancellations) and `LimitUpToStale`, which bounds the
  excess of probes by the stale reports. `RecordsReleased` from `RecordInv`. `NeverRepeats` (assuming
  no request outlives `StaleAge`) from `TriedInv`: what a request has tried is in its record, or in the
  copy its call works on. `ImplementsContract` maps every section to a step of the contract or a
  stutter, with `ClosedBelowThreshold`.
* `HandlerProofs`. `IInv` joins what is known at each control point: of the answer (`AnswerInv`), the account
  of attempts (`AttemptInv`), the body (`BodyInv`: RawExtra fits the current target whatever came before) and late sends
  (`LateInv`). From it the six invariants and `ImplementsLifecycle`.
* `StreamPipelineProofs`. `IInv` says for each place which events are in flight (`UpstreamInv`, `WrapperInv`), what the
  summary holds (`SummaryInv`) and what the codec has seen (`HandlerInv`). `NoEventLost` follows by adding up, and
  `StatusFollowsErr` (`StatusIsOfTheErr`) since an `Err` that the wrapper has taken is in the summary before the codec can see it.
* `AnthropicStreamProofs`. `BlocksAreSequential`: for any number of indices, calls and fragments and any
  admissible events in any order, the client is sent blocks one after the other, numbered without gaps, and nothing
  after the end. "Not broken" alone is not inductive. `CodecInv` adds `Follows`, that the client has open what the codec takes
  for open, under the same index and type; `OrderListsPending`, that `toolOrder` lists the buffered calls once each,
  without which the flush could write a block of no type; and `FlushBeforeStop`. There is a lemma for
  everything the client may see and one for every branch of the loop. The theorem assumes `Admissible` events: a reason comes
  when no block is open, and nothing comes after the stop. `ReadersAreAdmissible` shows it of the four readers.
* `FeedProofs`, of the four readers. `FeedHolds` is the inductive invariant `Feed` of provider, reader
  and the events between reader and codec (`TranslationInvariants`): for every place in the answer of a provider, which events
  may be on their way. For Chat and Gemini that is the stop that is kept back while usage is awaited, which bears the reason that was
  given and all usage that was told since; for Responses the batch of events that one SSE message was decoded to and what of it
  has been sent, re-mapped or suppressed; for Anthropic the block that is open. There is one lemma for every action of every provider
  (`ChatFinishChunk`, `ResponsesSendsDone`, ...), each of which shows two things: that `Feed` is kept, and `Quiet`, that the codec has *heard*
  nothing by it. For the other side, `FeedPassOn` shows `Passed(ev)`: by how much an event that the codec receives advances
  what it has heard of reason, usage, end and blocks. `Heard...` are functions of the state, not variables.
* `TranslationProofs`. `EndToldHolds` is the inductive invariant `Feed /\ EndTold`: in every one of the sixteen pairs, the codec's reason and
  usage are those that have been heard, and the client has been told of the end just what the codec has written. `HonestEnd`
  or `UsageKept` by itself is not inductive, since it says nothing before the end; and what codec and client agree about is
  not inductive without `Feed`, since a reader might then pass on a stop with another reason. Since codecs depend on readers by `Quiet`
  and `Passed` only, there are four proofs for codecs and four for readers, not sixteen. The Anthropic codec needs more: it writes
  the reason and the usage of a `message_delta` as they come, so that a block must not be open then (`NoBlockLeftOpen`), and for what its client sees
  it rests on `CodecInv` of `AnthropicStreamProofs`. From the invariant follow `EndIsHonest`, `UsageIsKept`, `ReadersAreAdmissible`
  and `ErrorIsTold`, all three parts of it: a failure heard of or met is told, no other is, and after an unheard one the end is not clean. The last of them is the assumption of `BlocksAreSequential`, so that the two together say that an Anthropic
  client is sent blocks in sequence by any of the four readers.
* `WellFormedProofs`. `StreamIsWellFormed`: the client of any protocol is sent a well-formed stream from a provider of any
  protocol, for any number of blocks, calls and fragments. "Not broken" says nothing of the tables that codec and client keep,
  so it is not inductive; `BlocksToldHolds` is the inductive invariant, on top of `Feed /\ EndTold`. `BlocksHeard`: at an index at
  which content may still come no item is closed, at one at which a call may begin there is none, and a call whose arguments
  may come without an id has begun, for the codec and its client; and between the blocks of an Anthropic provider nothing is
  buffered. `BufferedAreKnown`, for Gemini: each buffered call has its id, and none is buffered when the reason has been heard.
  `ItemsAgree`, for Responses: the client has the items that the codec has, open where they are not closed, by ascending output
  and no two of one index and kind, without which a delta might be written for an item that the client has seen done. For every codec
  there is one lemma on all that may come of an event (`ChatTold`, `GeminiTold`, `ResponsesTold`), which rests on `Passed` only; for Anthropic
  the invariant follows from `CodecInv`. The hypothesis of the theorem excepts `server_tool_use` blocks where clients of Chat or Gemini are
  served: the deltas of such a block bear the type of a client tool, and TLC finds both clients given arguments of no call when these blocks
  are let in. For Anthropic and Responses clients there is no such exception. The web searches of a Responses provider
  have no deltas, and are included for all four.
* `ConversationProofs`. `ChosenToolIsSent` and `BudgetFitsLimit` are about the conversion of any options between any two
  protocols: one lemma for the choice that Anthropic is sent, one for `Sanitized`, and a case for each of the wires. `OptionsInv`
  says that what is offered to the provider is the conversion of what a client of this protocol may ask for; from it, in every
  conversation, `ChoiceIsOffered`, `BudgetAlwaysFits` and `OffStaysOff`. Of an answer: `CostIsKept` is about any counts of tokens between
  any two protocols (`Counts`: the cached ones are among those of the prompt where the protocol counts so), `ReasonMeansTheSame` about every
  reason that a provider gives with calls or without, by way of the unified one (`ReasonRead`, `ReasonTold`). Two of Gemini's, `OTHER` and
  `MALFORMED_FUNCTION_CALL`, are in the runs but excepted there: they mean none of complete, cut off, refused and calls. `ReasonsStayInEnum` is about
  any value whatever, also one that no API has: Chat, Responses and Gemini clients are told one of the list that the gateway takes for that of
  the API (`Statuses`, `FinishReasons`). From these, in every conversation, `CostIsTold` and `ReasonIsDocumented`, the last and the second
  part of `OutcomeTold`. The first part, that the reason given agrees with the calls *as they arrive*, needs that calls arrive, and is
  model-checked.

Model-checked only:

* The liveness properties, which need fairness and ENABLED, and the violations, which are single behaviours.
* `ContentKept` and `CallsKept`, that content and calls arrive whole and in order, and `ConversationKept`, `ResultsPaired`, `EveryMessageSays`,
  `PrefixStable`, and of `Conversation` also `TypeOK` and the first part of `OutcomeTold`: they compare results of filters, folds and flattenings of sequences of any
  length (`SelectSeq`, `FoldLeft`, `FlattenSeq`), of which the provers know nothing, and a proof of what these return would be by
  induction over the sequence.

## 5. Where code and words differ

With a run:

1. *A half-open slot can be lost* (`BreakerLostSlot`). The handler returns without a report on cancellation
   and on a refused attempt; the slot stays taken and, with `halfOpenMax = 1`, the circuit refuses everyone
   from then on.
2. *More probes than `halfOpenMax`* (`BreakerStaleReport`). Any report in a half-open period gives a slot
   back, also that of a request admitted before the circuit opened.
3. *Early release* (`StreamEarlyRelease`). A codec that returns by itself ends the permit before the stream.
4. *Two `message_start`s* (`SecondStart`). A Chat chunk without choices and usage is decoded as a start, and the
   Anthropic codec writes each start it receives.
5. *Text in another choice* (`SplitChoices`). The Chat encoder writes the index of a block as that of a choice, but calls and
   the `finish_reason` in choice 0. After a thought, a client that reads `choices[0]` has no text. The tests' own client merges
   all choices.
6. *Signatures* (`SignatureLost`). The fields that should bring a thought's signature through a Chat history are
   read from requests and never written to responses.

Met while modelling, without a run:

* *Router and handler.* The cleanup drops attempt records by age (`circuit_breaker.go:355`), so a request longer than five minutes
  may be routed to a target it has tried; `LongRequests = TRUE` shows it. A canceled send is not answered with the
  499 of `docs/TECHNICAL_DOC.md:550-554` (`handler.go:230`). A failure that the provider tells in an event is written to the client
  as an error, but is no `Err` for the wrapper (`handler.go:600-661`): `OnComplete` reports a success, as `docs/TECHNICAL_DOC.md:811-814`
  has it for a stream without `err`. On a fallback to the inbound protocol RawExtra is
  extracted, where `docs/TECHNICAL_DOC.md` says that it is nil; the code does the better one (`handler.go:267`).
* *Streams from a provider.* Of a Gemini provider that calls a function without a finishReason, what follows is dropped
  by the draining reader, also a finishReason such as `MAX_TOKENS`, although the decoder says that an explicit one
  always wins (`convert_gemini.go:1535-1539`). A read that fails in that draining, or an error payload in it, is swallowed as well, and the client
  is given a clean end (`outbound_gemini.go:69-94`): for `said` the answer has ended by then, so this is outside of `ErrorTold`. An error payload in a Chat
  stream (`convert_openai_chat.go:1334`) or a Gemini stream (`convert_gemini.go:1600-1608`) is decoded as a start, and lost: the client sees a
  stream that is cut off, and no error. The stream decoder of Responses makes `end_turn` of every completed response
  (`convert_openai_responses.go:1489-1492`), that of a whole response `tool_use` of one with calls (1189-1195, and
  `convert_openai_responses_test.go:1369`), so that a streamed answer with calls ends for an Anthropic or Chat client as one without.
  The last line of an SSE stream is lost when it is not terminated.
* *Streams to a client.* The input deltas of an Anthropic server tool are decoded as those of a client tool
  (`convert_anthropic.go:1024-1035`); the Anthropic codec then closes their block, which stays empty, and opens one without id and
  name for them (`codec_anthropic.go:372`), where `codec_anthropic.go:79-81` says that deltas with a real block
  start are streamed untouched. The payload of an opaque block (redacted thinking, a search result) is not rebuilt by
  `blockStartPart`, where `message.go:183` says that it must round-trip exactly. Refusals are lost for Gemini. Buffered
  calls are lost for Anthropic when the stream ends without a stop. A block stop with an unknown index closes the
  block that is open. The Responses codec closes
  several items in a random order and may leave gaps in the output indices.
* *Conversations, history.* The same Gemini call made twice in one answer gets one id (`convert_gemini.go:599-601`, and 362-364 of
  made-up ids says that parallel calls differ): responses are decoded without a correlator. Text beside a function response is dropped for Chat
  and Responses. The Responses encoder puts tool results before the text they are interleaved with, which
  `convert_cache_fidelity_test.go:16` rules out for the other direction. Parallel calls of a Responses client become one assistant
  message each for Chat and Gemini. A refusal in the history is lost, or becomes an empty text. Pictures in an
  assistant's message are dropped for Chat and Responses. Thoughts of other providers are sent to Anthropic unsigned
  after a change of provider.
* *Conversations, options and outcome.* A named tool choice is sent to Gemini as the mode `TOOL`, which it does not have
  (`convert_gemini.go:902-912`), and allowed names are sent also when the tool was dropped. A Responses list of
  allowed tools of which none is left fails the request. OpenAI cannot be told that thinking is off.
  Reasons of other APIs reach an Anthropic client as they are (`content_filter`, `RECITATION`, `OTHER`), though
  `conformance_streaming_test.go:377-383` has a closed list for it: `ReasonDocumented` says of this client only that Anthropic's own reasons
  are kept. `MALFORMED_FUNCTION_CALL` becomes `tool_calls` without a call for Chat, and `OTHER` becomes `stop` or `completed`. The list of
  Gemini's reasons (`convert_gemini.go:1406-1415`) has `STOP_SEQUENCE`, which Gemini's documentation does not have.

## 6. Not modelled

* *Gateway*, the composition of handler, router and permit pool: each side is checked against an environment that may do
  everything the other does, and more.
* *The creation of a circuit* in `getOrCreateCircuit`, and the *HTTP client cache*: both look up under a read lock and again
  under the write lock; two values for one key would need a defect of the lock.
* *RawExtra and OutboundExtra, field by field*: functions on JSON objects without a state. When they are taken and
  reset is part of `Handler`.
* *The SSE reader and writer*: lines and bytes; the modules start from whole events.
* *In the converters*: JSON schemas, citations, `cache_control` and other extra fields, the encoding of pictures, sampling
  parameters, names of tools by type. They do not move what was said from one place to another.
* *In the streams*: more than one choice of a Chat stream, audio, citations; `EncodeOpenAIResponsesStreamEvent`, which only
  tests call.
* *Wire and IR types, the Mux, providers, statistics interfaces, request helpers*: declarations, dispatch and pure inspection.
* HTTP and JSON themselves, the wording of messages, latencies and throughput.
* Integer widths: the counters of the circuit are bounded by the thresholds and the requests in flight, token counts
  are only copied and added.

Were the project extended, the next steps would be several choices of a Chat stream in `ChatUpstream`, and the `Gateway`,
with a bounded pool of permits shared by several `Handler`s.
