------------------------ MODULE StreamPipelineProofs ------------------------
(***************************************************************************)
(* Proofs about StreamPipeline, for any number of events.  IInv, the       *)
(* inductive invariant, says for each place a goroutine may be at which    *)
(* events are in flight there and what the summary holds.                  *)
(***************************************************************************)
EXTENDS StreamPipeline, TLAPS

\* Between the upstream's body and the wrapper: at most one event, and an event
\* is lost there only when the context is done.
UpstreamInv ==
    /\ up = "reading" => produced = chunks /\ IsEvent(upItem)
    /\ up = "draining" => IsEvent(upItem)
    /\ up \in {"draining", "sending"} =>
           IF IsEvent(upItem) THEN upItem.n = produced /\ produced = chunks + 1
                              ELSE produced = chunks
    /\ up = "closed" => /\ produced \in {chunks, chunks + 1}
                        /\ ~ctxDone => produced = chunks

\* Between the wrapper and the codec: at most one event, and it is lost there
\* only when the codec has given up.
WrapperInv ==
    /\ wr = "select" => chunks = received
    /\ wr = "reporting" => IsEvent(wItem)
    /\ wr \in {"reporting", "forwarding"} =>
           IF IsEvent(wItem) THEN wItem.n = chunks /\ chunks = received + 1
                             ELSE chunks = received
    /\ wr = "ended" => /\ chunks \in {received, received + 1}
                       /\ ~stopForwarding \/ sawEnd \/ sawFailure => chunks = received

\* The summary's error is the one that was forwarded, or the context's.
SummaryInv ==
    /\ wr \in {"select", "reporting"} => streamErr = "none"
    /\ wr = "forwarding" =>
           streamErr = IF IsEvent(wItem) THEN "none" ELSE wItem.kind
    /\ streamErr = "ctx" => ctxDone
    /\ streamErr \in Failures => up = "closed" /\ upItem.kind = streamErr
    /\ sawFailure => streamErr \in Failures /\ wr = "ended"
    /\ wr = "ended" /\ ~stopForwarding => sawFailure \/ streamErr \notin Failures

\* How far the handler has come, and what it has seen.
HandlerInv ==
    /\ stopForwarding <=> hd \in {"waiting", "completing", "done"}
    /\ hd = "ranging" => ~sawEnd /\ ~sawFailure
    /\ hd = "writing" => ~sawEnd /\ (sawFailure <=> ~IsEvent(hItem))
    /\ wr = "forwarding" /\ ~IsEvent(wItem) => up = "closed"
    /\ wr = "ended" /\ ~stopForwarding /\ ~ctxDone => up = "closed"
    /\ sawEnd => /\ wr = "ended" /\ streamErr \notin Failures
                 /\ ctxDone \/ up = "closed"
    /\ IsEvent(hItem) => hItem.n = received
    /\ outcome # "none" <=> hd \in {"completing", "done"}

IInv ==
    /\ TypeOK
    /\ UpstreamInv
    /\ WrapperInv
    /\ SummaryInv
    /\ HandlerInv
    /\ CallbacksSerialized
    /\ StatusFollowsErr

-----------------------------------------------------------------------------

\* Every step of the three goroutines, of the client and of net/http keeps IInv.
LEMMA StepKeeps == ASSUME IInv, [Next]_vars PROVE IInv'
<1> USE MaxEventsAssumption
<1> USE DEF IInv, TypeOK, UpstreamInv, WrapperInv, SummaryInv, HandlerInv,
            CallbacksSerialized, StatusFollowsErr, Items, Events, Failures, IsEvent,
            StreamStatus, ctxVars, upVars, wrapperVars, handlerVars, vars
<1>1. CASE ReadEvent
  <2>1. up = "reading" /\ up' \in {"sending", "draining"}
        /\ produced < MaxEvents /\ produced' = produced + 1
        /\ UNCHANGED <<ctxVars, wrapperVars, handlerVars>>
    BY <1>1 DEF ReadEvent
  <2>2. \E kind \in Events : upItem' = [n |-> produced', kind |-> kind]
    BY <1>1 DEF ReadEvent
  <2>3. upItem' \in Items /\ IsEvent(upItem)' /\ upItem'.n = produced'
    BY <2>1, <2>2
  <2>4. streamErr \notin Failures /\ IsEvent(upItem) /\ outcome # "error"
    BY <2>1
  <2>5. TypeOK'
    BY <2>1, <2>3
  <2>6. UpstreamInv' /\ WrapperInv' /\ SummaryInv'
    BY <2>1, <2>3, <2>4
  <2>7. HandlerInv' /\ CallbacksSerialized'
    BY <2>1, <2>3
  <2>8. StatusFollowsErr'
    BY <2>1, <2>3, <2>4
  <2> QED BY <2>5, <2>6, <2>7, <2>8
<1>2. CASE ReadFails
  <2>1. up = "reading" /\ up' = "sending"
        /\ UNCHANGED <<ctxVars, produced, wrapperVars, handlerVars>>
    BY <1>2 DEF ReadFails
  <2>2. upItem' \in Items /\ ~IsEvent(upItem)'
    BY <1>2 DEF ReadFails
  <2>3. streamErr \notin Failures /\ IsEvent(upItem) /\ outcome # "error"
    BY <2>1
  <2>4. TypeOK' /\ UpstreamInv' /\ WrapperInv' /\ SummaryInv'
    BY <2>1, <2>2, <2>3
  <2>5. HandlerInv' /\ CallbacksSerialized' /\ StatusFollowsErr'
    BY <2>1, <2>2, <2>3
  <2> QED BY <2>4, <2>5
<1>3. CASE ReadEnd BY <1>3 DEF ReadEnd
<1>4. CASE Drained BY <1>4 DEF Drained
<1>5. CASE AbandonSend BY <1>5 DEF AbandonSend
<1>6. CASE Take BY <1>6 DEF Take
<1>7. CASE Reported BY <1>7 DEF Reported
<1>8. CASE Forward
  <2> USE <1>8 DEF Forward
  <2>1. CASE IsEvent(wItem)
    <3>1. TypeOK' BY <2>1
    <3>2. UpstreamInv' BY <2>1
    <3>3. WrapperInv' BY <2>1
    <3>4. SummaryInv' BY <2>1
    <3>5. HandlerInv' BY <2>1
    <3>6. CallbacksSerialized' /\ StatusFollowsErr' BY <2>1
    <3> QED BY <3>1, <3>2, <3>3, <3>4, <3>5, <3>6
  <2>2. CASE ~IsEvent(wItem)
    <3>1. TypeOK' BY <2>2
    <3>2. UpstreamInv' BY <2>2
    <3>3. WrapperInv' BY <2>2
    <3>4. SummaryInv' BY <2>2
    <3>5. HandlerInv' BY <2>2
    <3>6. CallbacksSerialized' /\ StatusFollowsErr' BY <2>2
    <3> QED BY <3>1, <3>2, <3>3, <3>4, <3>5, <3>6
  <2> QED BY <2>1, <2>2
<1>9. CASE WrapperStops BY <1>9 DEF WrapperStops
<1>10. CASE WrapperCanceled BY <1>10 DEF WrapperCanceled
<1>11. CASE WrapperSeesEnd BY <1>11 DEF WrapperSeesEnd
<1>12. CASE CodecWrites
  <2>1. hd = "writing" /\ hd' \in {"ranging", "returned"}
        /\ (hd' = "ranging" => IsEvent(hItem))
    BY <1>12 DEF CodecWrites
  <2>2. UNCHANGED <<ctxVars, upVars, wrapperVars, stopForwarding, hItem, received,
                   sawEnd, sawFailure, permit, outcome>>
    BY <1>12 DEF CodecWrites
  <2>3. hd' = "ranging" => ~sawFailure
    BY <2>1, <2>2
  <2>4. TypeOK'
    <3>1. upItem' \in Items /\ wItem' \in Items /\ hItem' \in Items BY <2>2
    <3> QED BY <2>1, <2>2, <3>1
  <2>5. UpstreamInv' /\ WrapperInv' /\ SummaryInv' BY <2>1, <2>2
  <2>6. HandlerInv'
    <3>1. CASE hd' = "ranging" BY <2>1, <2>2, <2>3, <3>1
    <3>2. CASE hd' = "returned" BY <2>1, <2>2, <3>2
    <3> QED BY <2>1, <3>1, <3>2
  <2>7. CallbacksSerialized' /\ StatusFollowsErr' BY <2>1, <2>2
  <2> QED BY <2>4, <2>5, <2>6, <2>7
<1>13. CASE CodecSeesEnd BY <1>13 DEF CodecSeesEnd
<1>14. CASE CloseStopForwarding BY <1>14 DEF CloseStopForwarding
<1>15. CASE Complete BY <1>15 DEF Complete
<1>16. CASE Release
  <2>1. hd = "completing" /\ hd' = "done" /\ permit' = FALSE
        /\ UNCHANGED <<ctxVars, upVars, wrapperVars, stopForwarding, hItem,
                       received, sawEnd, sawFailure, outcome>>
    BY <1>16 DEF Release
  <2>2. TypeOK'
    <3>1. upItem' \in Items /\ wItem' \in Items /\ hItem' \in Items BY <2>1
    <3> QED BY <2>1, <3>1
  <2>3. UpstreamInv' /\ WrapperInv' /\ SummaryInv' BY <2>1
  <2>4. HandlerInv' BY <2>1
  <2>5. CallbacksSerialized' /\ StatusFollowsErr' BY <2>1
  <2> QED BY <2>2, <2>3, <2>4, <2>5
<1>17. CASE ClientLeaves BY <1>17 DEF ClientLeaves
<1>18. CASE ServerCancels BY <1>18 DEF ServerCancels
<1>19. CASE Terminated BY <1>19 DEF Terminated
<1>20. CASE UNCHANGED vars BY <1>20
<1> QED BY <1>1, <1>2, <1>3, <1>4, <1>5, <1>6, <1>7, <1>8, <1>9, <1>10, <1>11,
            <1>12, <1>13, <1>14, <1>15, <1>16, <1>17, <1>18, <1>19, <1>20
       DEF Next, Wrapper, HandlerStep

\* A stream that has just been opened satisfies IInv.
LEMMA InitHolds == Init => IInv
<1> SUFFICES ASSUME Init PROVE IInv OBVIOUS
<1> USE DEF Init
<1>1. NoItem \in Items /\ IsEvent(NoItem) /\ NoItem.n = 0
  BY DEF NoItem, Items, Events, IsEvent, Failures
<1>2. TypeOK
  <2>1. 0 \in 0..MaxEvents BY MaxEventsAssumption
  <2> QED BY <1>1, <2>1 DEF TypeOK
<1>3. UpstreamInv /\ WrapperInv BY <1>1 DEF UpstreamInv, WrapperInv
<1>4. SummaryInv BY DEF SummaryInv, Failures
<1>5. HandlerInv BY <1>1 DEF HandlerInv
<1>6. CallbacksSerialized /\ StatusFollowsErr BY DEF CallbacksSerialized, StatusFollowsErr
<1> QED BY <1>2, <1>3, <1>4, <1>5, <1>6 DEF IInv

\* IInv holds throughout every stream.
THEOREM Invariance == Spec => []IInv
<1>1. Init => IInv BY InitHolds
<1>2. IInv /\ [Next]_vars => IInv' BY StepKeeps
<1> QED BY <1>1, <1>2, PTL DEF Spec

\* Every variable of the pipeline keeps its type.
THEOREM TypeCorrect == Spec => []TypeOK
<1>1. IInv => TypeOK BY DEF IInv
<1> QED BY <1>1, Invariance, PTL

\* The codec receives the events in order, without a gap, and all of them when
\* it sees the stream end.
THEOREM LosesNoEvent == Spec => []NoEventLost
<1>1. IInv => NoEventLost
  <2> SUFFICES ASSUME IInv PROVE NoEventLost OBVIOUS
  <2>1. IsEvent(hItem) => hItem.n = received BY DEF IInv, HandlerInv
  <2>2. ASSUME sawEnd, ~ctxDone PROVE received = produced
    <3>1. wr = "ended" /\ up = "closed" BY <2>2 DEF IInv, HandlerInv
    <3>2. produced = chunks BY <2>2, <3>1 DEF IInv, UpstreamInv
    <3>3. chunks = received BY <2>2, <3>1 DEF IInv, WrapperInv
    <3> QED BY <3>2, <3>3
  <2> QED BY <2>1, <2>2 DEF NoEventLost
<1> QED BY <1>1, Invariance, PTL

\* No callback of the wrapper comes after OnComplete.
THEOREM SerializesCallbacks == Spec => []CallbacksSerialized
<1>1. IInv => CallbacksSerialized BY DEF IInv
<1> QED BY <1>1, Invariance, PTL

\* The chunk count OnComplete reports is that of the events the client was sent,
\* and at most one more.
THEOREM CountsChunks == Spec => []ChunksCounted
<1>1. IInv => ChunksCounted
  BY DEF IInv, TypeOK, WrapperInv, HandlerInv, CallbacksSerialized, ChunksCounted
<1> QED BY <1>1, Invariance, PTL

\* The Status of OnComplete is that of the Err of the stream and of the context,
\* in whatever order codec, wrapper and upstream end.
THEOREM StatusIsOfTheErr == Spec => []StatusFollowsErr
<1>1. IInv => StatusFollowsErr BY DEF IInv
<1> QED BY <1>1, Invariance, PTL
=============================================================================
