--------------------------- MODULE HandlerProofs ---------------------------
(***************************************************************************)
(* Proofs about Handler, for any set of targets, any protocols and any     *)
(* bounds.  IInv is the inductive invariant: TypeOK and, for each control  *)
(* point of ServeHTTP, what is known there of the answer, of the account   *)
(* of attempts, of the body to send and of the permit.                     *)
(***************************************************************************)
EXTENDS Handler, TLAPS

\* Before the first target and after the last answer, no target is in work.
Working == Labels \ {"received", "done"}

\* What has been told to the client and to the StatsReporter at each point.
AnswerInv ==
    /\ pc = "received" => /\ target = NoTarget /\ ~started
                          /\ unreported = NoTarget
    /\ pc \in Working => started /\ target \in Target
    /\ pc \notin {"streamed", "done"} => outcome = "none"
    /\ pc \notin {"streaming", "streamed", "done"} => response = "none"
    /\ pc \in {"streaming", "streamed"} => response = "200" /\ unreported = NoTarget
    /\ pc = "streamed" => outcome # "none"
    /\ pc \in {"failed", "terminal"} => sendErr # "none"

\* The account of attempts at each point.
AttemptInv ==
    /\ pc = "received" => attemptNum = 0 /\ totalRetries = 0
                          /\ prepared = 0 /\ skipped = 0
    /\ pc \in {"target", "prepare"} =>
           prepared + skipped + 1 = attemptNum + totalRetries
    /\ (pc \in Working \ {"target", "prepare"}) =>
           prepared + skipped = attemptNum + totalRetries
    /\ pc \in {"sleeping", "retry"} => retryAttempt < MaxRetries

\* RawExtra fits the current target whatever the targets before it were.
BodyInv == pc \in Working => (rawExtra <=> (SameProtocol(target) /\ unknownFields))

\* Nothing was sent late, except by an attempt that is still in flight or that
\* was the last one.
LateInv ==
    /\ ~canceled => lateSends = 0
    /\ pc \notin {"sending", "failed", "streaming", "streamed", "done"} => lateSends = 0

IInv ==
    /\ TypeOK
    /\ AnswerInv
    /\ AttemptInv
    /\ BodyInv
    /\ LateInv
    /\ PermitDiscipline
    /\ SentBodyMatchesTarget
    /\ LastSendAfterCancel
    /\ AttemptsAddUp
    /\ RouterIsTold

-----------------------------------------------------------------------------
\* Every step of the goroutine, and a cancellation at any point, keeps IInv.
LEMMA StepKeeps == ASSUME IInv, [Next]_vars PROVE IInv'
<1> USE BoundAssumption, ProtocolAssumption, TargetAssumption
<1> USE DEF IInv, TypeOK, Labels, Working, AnswerInv, AttemptInv, BodyInv,
            LateInv, PermitDiscipline, SentBodyMatchesTarget,
            LastSendAfterCancel, AttemptsAddUp, RouterIsTold,
            SameProtocol, SendErr, Fresh, WriteErrorAndComplete,
            UpstreamStatus, CompletionStatus, vars, requestVars, loopVars,
            bodyVars, clientVars, historyVars
<1>1. CASE Refuse BY <1>1 DEF Refuse
<1>2. CASE RouteFails BY <1>2 DEF RouteFails
<1>3. ASSUME NEW t \in Target, RouteTo(t) PROVE IInv'
  BY <1>3 DEF RouteTo
<1>4. CASE BeginTarget BY <1>4 DEF BeginTarget
<1>5. CASE SkipTarget BY <1>5 DEF SkipTarget
<1>6. CASE Prepare BY <1>6 DEF Prepare
<1>7. CASE Admitted BY <1>7 DEF Admitted
<1>8. CASE NotAdmitted
  <2>1. /\ pc = "acquire" /\ pc' = "done" /\ UNCHANGED started
        /\ UNCHANGED <<canceled, requestVars, loopVars, bodyVars, permit, sendErr,
                       historyVars>>
    BY <1>8 DEF NotAdmitted
  <2>2. response' \in {"499", "503"} /\ outcome' \in {"canceled", "error"}
    BY <1>8 DEF NotAdmitted
  <2>3. TypeOK' /\ AnswerInv' /\ AttemptInv' /\ BodyInv'
    BY <2>1, <2>2
  <2>4. LateInv' /\ PermitDiscipline' /\ SentBodyMatchesTarget'
    BY <2>1, <2>2
  <2>5. LastSendAfterCancel' /\ AttemptsAddUp' /\ RouterIsTold'
    BY <2>1, <2>2
  <2> QED BY <2>3, <2>4, <2>5
<1>9. CASE SendFails BY <1>9 DEF SendFails
<1>10. CASE GiveUp BY <1>10 DEF GiveUp
<1>11. CASE RetrySameTarget BY <1>11 DEF RetrySameTarget
<1>12. CASE WakeUp BY <1>12 DEF WakeUp
<1>13. CASE InterruptSleep BY <1>13 DEF InterruptSleep
<1>14. CASE CountRetry BY <1>14 DEF CountRetry
<1>15. CASE NoRetry BY <1>15 DEF NoRetry
<1>16. ASSUME NEW t \in Target, FallBackTo(t) PROVE IInv'
  BY <1>16 DEF FallBackTo
<1>17. CASE OutOfTargets BY <1>17 DEF OutOfTargets
<1>18. CASE SendSucceeds BY <1>18 DEF SendSucceeds
<1>19. CASE StreamOpens BY <1>19 DEF StreamOpens
<1>20. CASE StreamEnds BY <1>20 DEF StreamEnds
<1>21. CASE ReleaseStream BY <1>21 DEF ReleaseStream
<1>22. CASE Cancel BY <1>22 DEF Cancel
<1>23. CASE Returned BY <1>23 DEF Returned
<1>90. CASE UNCHANGED vars BY <1>90
<1> QED BY <1>1, <1>2, <1>3, <1>4, <1>5, <1>6, <1>7, <1>8, <1>9, <1>10, <1>11,
            <1>12, <1>13, <1>14, <1>15, <1>16, <1>17, <1>18, <1>19, <1>20,
            <1>21, <1>22, <1>23, <1>90 DEF Next, Step

\* A call that has just been received satisfies IInv.
LEMMA InitHolds == Init => IInv
<1> SUFFICES ASSUME Init PROVE IInv OBVIOUS
<1> USE DEF Init
<1>1. pc \notin Working BY DEF Working
<1>2. TypeOK
  <2>1. Fresh \in [model : Target \cup {NoTarget}, extra : Target \cup {NoTarget},
                   raw : BOOLEAN]
    BY DEF Fresh
  <2>2. 0 \in 0..MaxTargets /\ 0 \in 0..MaxRetries
    BY BoundAssumption
  <2> QED BY <2>1, <2>2 DEF TypeOK, Labels
<1>3. AnswerInv BY <1>1 DEF AnswerInv
<1>4. AttemptInv BY <1>1 DEF AttemptInv
<1>5. BodyInv /\ LateInv BY <1>1 DEF BodyInv, LateInv
<1>6. PermitDiscipline /\ SentBodyMatchesTarget
  BY DEF PermitDiscipline, SentBodyMatchesTarget
<1>7. LastSendAfterCancel /\ AttemptsAddUp /\ RouterIsTold
  BY DEF LastSendAfterCancel, AttemptsAddUp, RouterIsTold
<1> QED BY <1>2, <1>3, <1>4, <1>5, <1>6, <1>7 DEF IInv

\* IInv holds throughout every call of ServeHTTP.
THEOREM Invariance == Spec => []IInv
<1>1. Init => IInv BY InitHolds
<1>2. IInv /\ [Next]_vars => IInv' BY StepKeeps
<1> QED BY <1>1, <1>2, PTL DEF Spec

\* Every variable of the handler keeps its type.
THEOREM TypeCorrect == Spec => []TypeOK
<1>1. IInv => TypeOK BY DEF IInv
<1> QED BY <1>1, Invariance, PTL

\* The goroutine holds the permit of its current target while it uses that
\* target's upstream, and none at any other time.
THEOREM PermitsDisciplined == Spec => []PermitDiscipline
<1>1. IInv => PermitDiscipline BY DEF IInv
<1> QED BY <1>1, Invariance, PTL

\* What is sent belongs to the target it is sent to, along every chain of
\* fallbacks.
THEOREM SendsWhatItShould == Spec => []SentBodyMatchesTarget
<1>1. IInv => SentBodyMatchesTarget BY DEF IInv
<1> QED BY <1>1, Invariance, PTL

\* At most one attempt reaches an upstream after the context is done.
THEOREM OneLateSend == Spec => []LastSendAfterCancel
<1>1. IInv => LastSendAfterCancel BY DEF IInv
<1> QED BY <1>1, Invariance, PTL

\* The CompleteEvent's AttemptNum and RetryAttempts account for every attempt.
THEOREM AccountBalances == Spec => []AttemptsAddUp
<1>1. IInv => AttemptsAddUp BY DEF IInv
<1> QED BY <1>1, Invariance, PTL

\* A request neither canceled nor refused has told the router how it ended.
THEOREM RouterHearsBack == Spec => []RouterIsTold
<1>1. IInv => RouterIsTold BY DEF IInv
<1> QED BY <1>1, Invariance, PTL

-----------------------------------------------------------------------------
(* Refinement.                                                             *)

\* Every step is a step of the life of a request, or changes nothing that the
\* client or the StatsReporter sees.
LEMMA StepRefines ==
    ASSUME IInv, [Next]_vars
    PROVE  [Lifecycle!Next]_(Lifecycle!lifecycleVars)
<1> USE DEF IInv, TypeOK, Labels, Working, AnswerInv, Phase,
            Lifecycle!lifecycleVars, vars, requestVars, loopVars, bodyVars,
            clientVars, historyVars
<1> USE DEF Lifecycle!Next, Lifecycle!Refuse, Lifecycle!Start, Lifecycle!Fail,
            Lifecycle!Deliver, Lifecycle!Commit, Lifecycle!Finish,
            Lifecycle!Errors
<1>1. CASE Refuse \/ RouteFails
  BY <1>1 DEF Refuse, RouteFails
<1>2. ASSUME NEW t \in Target, RouteTo(t)
      PROVE  Lifecycle!Start
  BY <1>2 DEF RouteTo
<1>3. CASE BeginTarget \/ SkipTarget \/ Prepare \/ Admitted \/ SendFails
  BY <1>3 DEF BeginTarget, SkipTarget, Prepare, Admitted, SendFails
<1>4. CASE RetrySameTarget \/ WakeUp \/ CountRetry \/ NoRetry
  BY <1>4 DEF RetrySameTarget, WakeUp, CountRetry, NoRetry
<1>5. ASSUME NEW t \in Target, FallBackTo(t)
      PROVE  UNCHANGED Lifecycle!lifecycleVars
  BY <1>5 DEF FallBackTo
<1>6. CASE NotAdmitted \/ GiveUp \/ InterruptSleep \/ OutOfTargets
  <2>1. pc \in {"acquire", "failed", "terminal", "sleeping"} /\ pc' = "done"
    BY <1>6 DEF NotAdmitted, GiveUp, InterruptSleep, OutOfTargets,
                WriteErrorAndComplete
  <2>2. response' \in Lifecycle!Errors
    BY <1>6 DEF NotAdmitted, GiveUp, InterruptSleep, OutOfTargets,
                WriteErrorAndComplete, UpstreamStatus
  <2>3. outcome' \in {"error", "canceled"}
    BY <1>6 DEF NotAdmitted, GiveUp, InterruptSleep, OutOfTargets,
                WriteErrorAndComplete, CompletionStatus
  <2>4. Lifecycle!Fail
    BY <2>1, <2>2, <2>3
  <2> QED BY <2>4
<1>7. CASE SendSucceeds
  BY <1>7 DEF SendSucceeds
<1>8. CASE StreamOpens
  BY <1>8 DEF StreamOpens
<1>9. CASE StreamEnds
  BY <1>9 DEF StreamEnds, CompletionStatus
<1>10. CASE ReleaseStream \/ Cancel \/ Returned \/ UNCHANGED vars
  BY <1>10 DEF ReleaseStream, Cancel, Returned
<1> QED
  BY <1>1, <1>2, <1>3, <1>4, <1>5, <1>6, <1>7, <1>8, <1>9, <1>10
  DEF Next, Step

\* The handler implements the life of a request: one answer, one OnComplete
\* after one OnRequestStart, no error told as a success.
THEOREM ImplementsLifecycle == Spec => FollowsLifecycle
<1>1. Init => Lifecycle!Init
  BY DEF Init, Lifecycle!Init, Phase
<1>2. IInv /\ [Next]_vars => [Lifecycle!Next]_(Lifecycle!lifecycleVars)
  BY StepRefines
<1> QED BY <1>1, <1>2, Invariance, PTL DEF Spec, Lifecycle!Spec, FollowsLifecycle
=============================================================================
