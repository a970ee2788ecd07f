----------------------------- MODULE Translation -----------------------------
(***************************************************************************)
(* A streamed answer on its way through the program: a provider of any of  *)
(* the four protocols speaks, the client of that protocol reads and decodes*)
(* what it says, and the codec of the inbound protocol, which may be any   *)
(* other, writes it for the client that asked.  Between the two an event is*)
(* passed on in order and at once; StreamPipeline shows that the goroutines*)
(* and channels in between do so.                                          *)
(***************************************************************************)
EXTENDS StreamEvents, SequencesExt

CONSTANTS
    Upstreams,       \* the protocols of providers
    Inbounds,        \* the protocols of clients
    Kinds,           \* the kinds of content a provider may give
    Calls,           \* the ids of the tool calls it may make
    Reasons,         \* the stop reasons it may give
    WebSearch,       \* whether a Responses provider may search the web
    MaxPieces,       \* bound: fragments in an answer
    MaxBlocks        \* bound: blocks, tool calls or output items in an answer

Protocols == {"anthropic", "chat", "responses", "gemini"}

ASSUME ProtocolsAssumption == Upstreams \cup Inbounds \subseteq Protocols

\* Real ids and reasons differ from what stands for their absence.  The reader of
\* a Gemini answer infers "tool_use" by itself.
ASSUME ContentAssumption ==
    /\ Kinds \subseteq StartKinds
    /\ NoId \notin Calls
    /\ "none" \notin Reasons /\ "tool_use" \in Reasons

\* The offset of webSearchToolResultStreamIndex is above every output index.
ASSUME BoundsAssumption ==
    /\ MaxPieces \in Nat /\ MaxBlocks \in Nat
    /\ 1 <= MaxBlocks /\ MaxBlocks <= 1000000

VARIABLES
    upstream,        \* the protocol of the provider, chosen once
    inbound,         \* the protocol of the client, chosen once
    up,              \* the provider and the program's reader
    queue,           \* events that are on their way to the codec
    said,            \* history: the answer the provider has given
    codec,           \* the codec
    client           \* the client's SDK

vars == <<upstream, inbound, up, queue, said, codec, client>>

\* The indices events may have: of choices, parts, calls, blocks and items.
Indices == 0..(2 * MaxBlocks)

AnthropicUp == INSTANCE AnthropicUpstream
ChatUp      == INSTANCE ChatUpstream
ResponsesUp == INSTANCE ResponsesUpstream
GeminiUp    == INSTANCE GeminiUpstream

AnthropicCodec == INSTANCE AnthropicStream
ChatCodec      == INSTANCE ChatStream
ResponsesCodec == INSTANCE ResponsesStream
GeminiCodec    == INSTANCE GeminiStream

-----------------------------------------------------------------------------

Init ==
    /\ upstream \in Upstreams
    /\ inbound \in Inbounds
    /\ queue = <<>>
    /\ said = Answer
    /\ up = CASE upstream = "anthropic" -> AnthropicUp!UpInit
              [] upstream = "chat"      -> ChatUp!UpInit
              [] upstream = "responses" -> ResponsesUp!UpInit
              [] upstream = "gemini"    -> GeminiUp!UpInit
    /\ codec = CASE inbound = "anthropic" -> AnthropicCodec!CodecInit
                 [] inbound = "chat"      -> ChatCodec!CodecInit
                 [] inbound = "responses" -> ResponsesCodec!CodecInit
                 [] inbound = "gemini"    -> GeminiCodec!CodecInit
    /\ client = CASE inbound = "anthropic" -> AnthropicCodec!ClientInit
                  [] inbound = "chat"      -> ChatCodec!ClientInit
                  [] inbound = "responses" -> ResponsesCodec!ClientInit
                  [] inbound = "gemini"    -> GeminiCodec!ClientInit

\* The provider speaks, and the program's reader reads.
Upstream ==
    /\ codec.pc # "returned"
    /\ \/ upstream = "anthropic" /\ AnthropicUp!Next
       \/ upstream = "chat" /\ ChatUp!Next
       \/ upstream = "responses" /\ ResponsesUp!Next
       \/ upstream = "gemini" /\ GeminiUp!Next
    /\ UNCHANGED <<upstream, inbound, codec, client>>

\* The provider, or the program's reader, closes the connection.
UpstreamEnds ==
    /\ codec.pc # "returned"
    /\ \/ upstream = "anthropic" /\ AnthropicUp!Ends
       \/ upstream = "chat" /\ ChatUp!Ends
       \/ upstream = "responses" /\ ResponsesUp!Ends
       \/ upstream = "gemini" /\ GeminiUp!Ends
    /\ UNCHANGED <<upstream, inbound, codec, client>>

\* The codec receives the oldest event and writes what it has to.
PassOn ==
    /\ queue # <<>>
    /\ queue' = Tail(queue)
    /\ \/ inbound = "anthropic" /\ AnthropicCodec!Receive(Head(queue))
       \/ inbound = "chat" /\ ChatCodec!Receive(Head(queue))
       \/ inbound = "responses" /\ ResponsesCodec!Receive(Head(queue))
       \/ inbound = "gemini" /\ GeminiCodec!Receive(Head(queue))
    /\ UNCHANGED <<upstream, inbound, up, said>>

\* The codec goes on with a flush that has begun.
Flush ==
    /\ inbound = "anthropic"
    /\ AnthropicCodec!FlushTool \/ AnthropicCodec!Finish
    /\ UNCHANGED <<upstream, inbound, up, queue, said>>

\* The reader has closed the channel, and the codec has had every event.
SeesEnd ==
    /\ queue = <<>> /\ up.phase = "closed"
    /\ \/ inbound = "anthropic" /\ AnthropicCodec!SeesEnd
       \/ inbound = "chat" /\ ChatCodec!SeesEnd
       \/ inbound = "responses" /\ ResponsesCodec!SeesEnd
       \/ inbound = "gemini" /\ GeminiCodec!SeesEnd
    /\ UNCHANGED <<upstream, inbound, up, queue, said>>

\* The client leaves: a write fails.
ClientLeaves ==
    /\ queue # <<>>
    /\ \/ inbound = "anthropic" /\ AnthropicCodec!WriteFails
       \/ inbound = "chat" /\ ChatCodec!WriteFails
       \/ inbound = "responses" /\ ResponsesCodec!WriteFails
       \/ inbound = "gemini" /\ GeminiCodec!WriteFails
    /\ UNCHANGED <<upstream, inbound, up, queue, said>>

Terminated == codec.pc = "returned" /\ UNCHANGED vars

Next == Upstream \/ PassOn \/ Flush \/ SeesEnd \/ ClientLeaves \/ Terminated

\* That the codec receives an event, as its fairness needs to know it: of the
\* steps of Next, those of PassOn and no others shorten the queue.
Received == codec.pc = "ranging" /\ queue # <<>> /\ queue' = Tail(queue)

\* The codec goes on when it can, and so does the reader.  The provider closes the
\* connection in the end, or the deadline of the request's context does.
Spec ==
    /\ Init /\ [][Next]_vars
    /\ WF_queue(Received)
    /\ WF_vars(Flush \/ SeesEnd)
    /\ WF_vars(UpstreamEnds)

-----------------------------------------------------------------------------
(* What the translation promises.                                          *)

\* The client receives a well-formed stream of its protocol, whatever the order
\* and the indices of the upstream's events: blocks are strictly sequential,
\* items are opened before and closed after their content, and once.
WellFormed == ~client.broken

Told(kinds) == Numbers(OfKinds(said.pieces, kinds))

\* What the client has heard; of another protocol's blocks a Chat client has it on
\* several choices, and is taken to read them all (SplitChoices is about one that
\* reads the first).
Heard(kinds) ==
    IF inbound = "chat" /\ upstream # "chat"
    THEN Numbers(OfKinds(client.shown, kinds))
    ELSE Numbers(OfKinds(client.answer.pieces, kinds))

\* The kinds that the inbound protocol shows as text; Gemini has no refusals.
ShownAsText == IF inbound = "anthropic" THEN {"text", "refusal"} ELSE {"text"}

Follows(heard, told) ==
    /\ IsPrefix(heard, told)
    /\ client.answer.end = "clean" => heard = told

\* Texts, thoughts and refusals arrive fragment by fragment in their order, none
\* twice and none of another kind, and all of them before a clean end.
ContentKept ==
    /\ Follows(Heard({"text"}), Told(ShownAsText))
    /\ Follows(Heard({"thinking"}), Told({"thinking"}))
    /\ inbound \in {"chat", "responses"} => Follows(Heard({"refusal"}), Told({"refusal"}))

\* Tool calls arrive once each, in their order, under their ids and with their
\* own arguments in order, however the fragments were interleaved.
CallsKept ==
    /\ Follows(client.answer.calls, said.calls)
    /\ \A call \in Calls :
         Follows(OfCall(client.answer.pieces, call),
                 OfKinds(OfCall(said.pieces, call), {"tool_use"}))

\* The reason as the inbound protocol can tell it.
Shown(reason) ==
    CASE inbound = "anthropic" -> reason
      [] inbound = "chat"      -> ChatCodec!FinishReason(reason)
      [] inbound = "responses" -> ResponsesCodec!Status(reason)
      [] inbound = "gemini"    -> GeminiCodec!FinishReason(reason)

\* A stream ends cleanly only when the provider ended it so, with the provider's
\* own stop reason.  A Gemini client sees no other end than the reason.
HonestEnd ==
    client.answer.end = "clean" =>
        /\ said.end = "clean" \/ inbound = "gemini"
        /\ said.reason # "none"
        /\ client.answer.reason = Shown(said.reason)

\* The counts that the client ends up with are the provider's, in whatever events
\* they came.
UsageKept ==
    client.answer.end = "clean" /\ said.end = "clean" => client.answer.usage = said.usage

\* A failure that the reader hears of or meets is told in band to a client that is
\* still there, and no other failure is.  The error payload of a Chat or a Gemini
\* provider is not heard of: then the stream is cut, and does not end cleanly.  What
\* a reader meets while it only drains, once it has the stop, is no failure here.
ErrorTold ==
    /\ codec.pc = "returned" /\ said.end = "error" => client.answer.end \in {"error", "gone"}
    /\ client.answer.end = "error" => said.end = "error"
    /\ said.end = "unheard" => client.answer.end \in {"none", "cut", "gone"}

\* An answer that the provider ends comes to its end for the client.
EndReaches == said.end = "clean" ~> client.answer.end \in {"clean", "gone"}

\* The readers give the Anthropic codec only such events as the theorem about it,
\* BlocksAreSequential of AnthropicStreamProofs, assumes of any upstream.
EventsAdmissible ==
    inbound = "anthropic" /\ queue # <<>> /\ codec.pc = "ranging"
        => /\ Head(queue) \in AnthropicCodec!AnyEvent
           /\ AnthropicCodec!Admissible(Head(queue))

-----------------------------------------------------------------------------
(* What comments of the source say and the code does not do.               *)

\* convert_openai_chat.go: a choice is one of several candidates; the one candidate of
\* an answer that ends in choice 0 has all of its text there.
OneCandidate ==
    inbound = "chat" /\ client.answer.end = "clean"
        => Numbers(OfKinds(client.answer.pieces, {"text"})) = Told({"text"})

\* codec_anthropic.go: "Normalise arbitrary IR streams into a well-formed Anthropic
\* SSE stream": a message has one message_start.
OneMessageStart == inbound = "anthropic" => ~client.restarted
=============================================================================
