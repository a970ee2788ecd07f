--------------------------- MODULE CircuitBreaker ---------------------------
(***************************************************************************)
(* CircuitBreakerRouter (circuit_breaker.go): the router shared by every   *)
(* request goroutine of the handler.  It keeps one circuit per key, and    *)
(* one attempt record per request identifier.                              *)
(*                                                                         *)
(* Every section that runs under one mutex (a circuit's mu, or attemptMu)  *)
(* is one action; a call of the router is the sequence of its sections, so *)
(* that the calls of different requests interleave between the sections.   *)
(* pc[r] is the section the goroutine of request r executes next; in       *)
(* "sending" the request is in the hands of the handler, between calls of  *)
(* the router.                                                             *)
(***************************************************************************)
EXTENDS Integers, Sequences, FiniteSets

CONSTANTS
    Request,           \* requests, each with a RequestID of its own
    Key,               \* circuit keys: cfg.keyFunc of a candidate
    NoTarget,          \* target of a request that has none yet
    CandidateLists,    \* what the CandidateFunc may return, as sequences of keys
    FailureThreshold,
    SuccessThreshold,
    HalfOpenMax,
    RecoveryTimeout,   \* in ticks
    CleanupInterval,
    StaleAge,          \* the five minutes of lazyCleanup, in ticks
    ClientsMayCancel,  \* may the handler give a request up without a report?
    LongRequests       \* may a live request outlive StaleAge?

ASSUME RequestAssumption   == IsFiniteSet(Request)
ASSUME KeyAssumption       == NoTarget \notin Key
ASSUME ListsAssumption     == CandidateLists \subseteq Seq(Key)
ASSUME ThresholdAssumption == /\ FailureThreshold \in Nat \ {0}
                              /\ SuccessThreshold \in Nat \ {0}
                              /\ HalfOpenMax \in Nat \ {0}
ASSUME TimeAssumption      == /\ RecoveryTimeout \in Nat
                              /\ StaleAge \in Nat
                              /\ CleanupInterval \in Nat \ {0}
ASSUME SwitchAssumption    == /\ ClientsMayCancel \in BOOLEAN
                              /\ LongRequests \in BOOLEAN

VARIABLES
    state,             \* circuitBreaker.state, per key
    consecutiveFails,
    consecutiveSuccs,
    cooldown,          \* ticks until lastFailTime + recoveryTimeout
    halfOpenInFlight,
    attempts,          \* attempts[r]: keys of r's attemptRecord, {} for no record
    recordAge,         \* ticks since createdAt; it stops at StaleAge + 1
    cleanupCount,      \* modulo CleanupInterval
    pc,
    todo,              \* candidates the running call has not tried yet
    attempted,         \* OnError's copy of the attempt record
    target,            \* the circuit key of the target the request was sent to
    probes,            \* history: requests admitted by the current half-open
                       \* period of a circuit and not yet reported
    stale,             \* history: reports the current half-open period took
                       \* from requests that are not its probes
    tried              \* history: keys the request was ever admitted to

circuitVars == <<state, consecutiveFails, consecutiveSuccs, cooldown,
                 halfOpenInFlight, probes, stale>>
recordVars  == <<attempts, recordAge, cleanupCount>>
requestVars == <<pc, todo, attempted, target, tried>>
vars        == <<circuitVars, recordVars, requestVars>>

CircuitState == {"Closed", "Open", "HalfOpen"}

\* Where the goroutine of a request is.
Section == {"idle", "routing", "rerouting", "admitted", "sending", "failed",
            "recording", "reading", "deleting", "done", "abandoned"}

Ended == {"done", "abandoned"}

\* The request is inside the handler: its record may still be needed.
Live(r) == pc[r] \notin Ended \cup {"idle"}

-----------------------------------------------------------------------------

Init ==
    /\ state = [k \in Key |-> "Closed"]
    /\ consecutiveFails = [k \in Key |-> 0]
    /\ consecutiveSuccs = [k \in Key |-> 0]
    /\ cooldown = [k \in Key |-> 0]
    /\ halfOpenInFlight = [k \in Key |-> 0]
    /\ attempts = [r \in Request |-> {}]
    /\ recordAge = [r \in Request |-> 0]
    /\ cleanupCount = 0
    /\ pc = [r \in Request |-> "idle"]
    /\ todo = [r \in Request |-> <<>>]
    /\ attempted = [r \in Request |-> {}]
    /\ target = [r \in Request |-> NoTarget]
    /\ probes = [k \in Key |-> {}]
    /\ stale = [k \in Key |-> 0]
    /\ tried = [r \in Request |-> {}]

Goto(r, section) == pc' = [pc EXCEPT ![r] = section]

-----------------------------------------------------------------------------
(* The attempt records, under attemptMu.                                   *)

\* Every CleanupInterval-th call drops the records older than StaleAge,
\* whoever they belong to.
LazyCleanup ==
    LET due == (cleanupCount + 1) % CleanupInterval = 0
        drop == {r \in Request : due /\ recordAge[r] > StaleAge}
    IN /\ cleanupCount' = (cleanupCount + 1) % CleanupInterval
       /\ attempts' = [r \in Request |-> IF r \in drop THEN {} ELSE attempts[r]]
       /\ recordAge' = [r \in Request |-> IF r \in drop THEN 0 ELSE recordAge[r]]

\* What a bug would do: only the latest key is kept.
RecordAttemptLast(r, k) ==
    /\ attempts' = [attempts EXCEPT ![r] = {k}]
    /\ UNCHANGED <<recordAge, cleanupCount>>

\* A record keeps the age of its first key; a new one starts at 0, which is
\* the age of a missing record.
RecordAttempt(r, k) ==
    /\ attempts' = [attempts EXCEPT ![r] = @ \cup {k}]
    /\ UNCHANGED <<recordAge, cleanupCount>>

DeleteAttempt(r) ==
    /\ attempts' = [attempts EXCEPT ![r] = {}]
    /\ recordAge' = [recordAge EXCEPT ![r] = 0]
    /\ UNCHANGED cleanupCount

-----------------------------------------------------------------------------
(* Picking a target: the loops of Route and OnError around tryCandidate.   *)

Route(r) ==
    /\ pc[r] = "idle"
    /\ LazyCleanup
    /\ \E list \in CandidateLists : todo' = [todo EXCEPT ![r] = list]
    /\ Goto(r, "routing")
    /\ UNCHANGED <<circuitVars, attempted, target, tried>>

\* The next candidate is not among those OnError skips; attempted[r] is empty
\* during Route.
Trying(r) ==
    /\ pc[r] \in {"routing", "rerouting"}
    /\ todo[r] # <<>>
    /\ Head(todo[r]) \notin attempted[r]

Admit(r) ==
    /\ target' = [target EXCEPT ![r] = Head(todo[r])]
    /\ tried' = [tried EXCEPT ![r] = @ \cup {Head(todo[r])}]
    /\ todo' = [todo EXCEPT ![r] = <<>>]
    /\ attempted' = [attempted EXCEPT ![r] = {}]
    /\ Goto(r, "admitted")

Refuse(r) ==
    /\ todo' = [todo EXCEPT ![r] = Tail(@)]
    /\ UNCHANGED <<pc, attempted, target, tried>>

SkipAttempted(r) ==
    /\ pc[r] = "rerouting"
    /\ todo[r] # <<>>
    /\ Head(todo[r]) \in attempted[r]
    /\ Refuse(r)
    /\ UNCHANGED <<circuitVars, recordVars>>

TryClosed(r) ==
    /\ Trying(r)
    /\ state[Head(todo[r])] = "Closed"
    /\ Admit(r)
    /\ UNCHANGED <<circuitVars, recordVars>>

TryCooling(r) ==
    /\ Trying(r)
    /\ state[Head(todo[r])] = "Open"
    /\ cooldown[Head(todo[r])] > 0
    /\ Refuse(r)
    /\ UNCHANGED <<circuitVars, recordVars>>

\* recoveryTimeout has elapsed: the circuit becomes half-open and, falling
\* through, admits the request as its first probe.
TryRecovered(r) ==
    LET k == Head(todo[r]) IN
    /\ Trying(r)
    /\ state[k] = "Open"
    /\ cooldown[k] = 0
    /\ state' = [state EXCEPT ![k] = "HalfOpen"]
    /\ consecutiveSuccs' = [consecutiveSuccs EXCEPT ![k] = 0]
    /\ halfOpenInFlight' = [halfOpenInFlight EXCEPT ![k] = 1]
    /\ probes' = [probes EXCEPT ![k] = {r}]
    /\ stale' = [stale EXCEPT ![k] = 0]
    /\ Admit(r)
    /\ UNCHANGED <<consecutiveFails, cooldown, recordVars>>

TryHalfOpen(r) ==
    LET k == Head(todo[r]) IN
    /\ Trying(r)
    /\ state[k] = "HalfOpen"
    /\ IF halfOpenInFlight[k] < HalfOpenMax
         THEN /\ halfOpenInFlight' = [halfOpenInFlight EXCEPT ![k] = @ + 1]
              /\ probes' = [probes EXCEPT ![k] = @ \cup {r}]
              /\ Admit(r)
         ELSE /\ Refuse(r)
              /\ UNCHANGED <<halfOpenInFlight, probes>>
    /\ UNCHANGED <<state, consecutiveFails, consecutiveSuccs, cooldown, stale,
                   recordVars>>

RecordAdmitted(r) ==
    /\ pc[r] = "admitted"
    /\ RecordAttempt(r, target[r])
    /\ Goto(r, "sending")
    /\ UNCHANGED <<circuitVars, todo, attempted, target, tried>>

\* What a bug would do: OnError returns without deleteAttempt.
ExhaustedKeepsRecord(r) ==
    /\ pc[r] \in {"routing", "rerouting"}
    /\ todo[r] = <<>>
    /\ Goto(r, "done")
    /\ attempted' = [attempted EXCEPT ![r] = {}]
    /\ UNCHANGED <<circuitVars, recordVars, todo, target, tried>>

\* errAllCircuitsBroken: OnError deletes the record before it returns, Route
\* has none to delete.
Exhausted(r) ==
    /\ pc[r] \in {"routing", "rerouting"}
    /\ todo[r] = <<>>
    /\ Goto(r, IF pc[r] = "routing" THEN "done" ELSE "deleting")
    /\ attempted' = [attempted EXCEPT ![r] = {}]
    /\ UNCHANGED <<circuitVars, recordVars, todo, target, tried>>

-----------------------------------------------------------------------------
(* Reports of the handler on the target a request was sent to.             *)

\* What a bug would do: the slot is not given back.
GiveSlotBackNever(r, k) ==
    /\ probes' = [probes EXCEPT ![k] = @ \ {r}]
    /\ stale' = [stale EXCEPT ![k] = IF r \in probes[k] THEN @ ELSE @ + 1]
    /\ UNCHANGED halfOpenInFlight

\* What a report does to halfOpenInFlight while the circuit is half-open.
GiveSlotBack(r, k) ==
    /\ halfOpenInFlight' = [halfOpenInFlight EXCEPT ![k] = @ - 1]
    /\ probes' = [probes EXCEPT ![k] = @ \ {r}]
    /\ stale' = [stale EXCEPT ![k] = IF r \in probes[k] THEN @ ELSE @ + 1]

\* What a bug would do: the next half-open period inherits the count.
ClearSlotsNot(k) ==
    /\ probes' = [probes EXCEPT ![k] = {}]
    /\ stale' = [stale EXCEPT ![k] = 0]
    /\ UNCHANGED halfOpenInFlight

\* The half-open period of k ends.
ClearSlots(k) ==
    /\ halfOpenInFlight' = [halfOpenInFlight EXCEPT ![k] = 0]
    /\ probes' = [probes EXCEPT ![k] = {}]
    /\ stale' = [stale EXCEPT ![k] = 0]

\* OnError is called: its lazyCleanup.
ReportError(r) ==
    /\ pc[r] = "sending"
    /\ LazyCleanup
    /\ Goto(r, "failed")
    /\ UNCHANGED <<circuitVars, todo, attempted, target, tried>>

\* The failure is one shouldTrip does not count (a 4xx).
CountHarmless(r) ==
    LET k == target[r] IN
    /\ pc[r] = "failed"
    /\ IF state[k] = "HalfOpen"
         THEN GiveSlotBack(r, k)
         ELSE UNCHANGED <<halfOpenInFlight, probes, stale>>
    /\ Goto(r, "recording")
    /\ UNCHANGED <<state, consecutiveFails, consecutiveSuccs, cooldown,
                   recordVars, todo, attempted, target, tried>>

\* What a bug would do: a late failure opens an open circuit anew.
OpensAgain(k) ==
    state[k] = "HalfOpen" \/ consecutiveFails[k] + 1 >= FailureThreshold

\* A failure of circuit k opens it.
Opens(k) ==
    \/ state[k] = "HalfOpen"
    \/ state[k] = "Closed" /\ consecutiveFails[k] + 1 >= FailureThreshold

\* The failure is one shouldTrip counts.
CountFailure(r) ==
    LET k == target[r] IN
    /\ pc[r] = "failed"
    /\ consecutiveFails' = [consecutiveFails EXCEPT ![k] = @ + 1]
    /\ consecutiveSuccs' = [consecutiveSuccs EXCEPT ![k] = 0]
    /\ IF Opens(k)
         THEN /\ state' = [state EXCEPT ![k] = "Open"]
              /\ cooldown' = [cooldown EXCEPT ![k] = RecoveryTimeout]
         ELSE UNCHANGED <<state, cooldown>>
    /\ IF state[k] = "HalfOpen"
         THEN ClearSlots(k)
         ELSE UNCHANGED <<halfOpenInFlight, probes, stale>>
    /\ Goto(r, "recording")
    /\ UNCHANGED <<recordVars, todo, attempted, target, tried>>

RecordFailed(r) ==
    /\ pc[r] = "recording"
    /\ RecordAttempt(r, target[r])
    /\ Goto(r, "reading")
    /\ UNCHANGED <<circuitVars, todo, attempted, target, tried>>

\* What a bug would do: the failed targets are not skipped.
ReadAttemptedNone(r) ==
    /\ pc[r] = "reading"
    /\ attempted' = [attempted EXCEPT ![r] = {}]
    /\ \E list \in CandidateLists : todo' = [todo EXCEPT ![r] = list]
    /\ Goto(r, "rerouting")
    /\ UNCHANGED <<circuitVars, recordVars, target, tried>>

ReadAttempted(r) ==
    /\ pc[r] = "reading"
    /\ attempted' = [attempted EXCEPT ![r] = attempts[r]]
    /\ \E list \in CandidateLists : todo' = [todo EXCEPT ![r] = list]
    /\ Goto(r, "rerouting")
    /\ UNCHANGED <<circuitVars, recordVars, target, tried>>

\* What a bug would do: one success too many is asked for.
ClosesLate(k) ==
    state[k] = "HalfOpen" /\ consecutiveSuccs[k] + 1 > SuccessThreshold

\* A success of circuit k closes it.
Closes(k) ==
    state[k] = "HalfOpen" /\ consecutiveSuccs[k] + 1 >= SuccessThreshold

\* OnSuccess, its section under the circuit's mutex.
ReportSuccess(r) ==
    LET k == target[r] IN
    /\ pc[r] = "sending"
    /\ consecutiveFails' = [consecutiveFails EXCEPT ![k] = 0]
    /\ CASE Closes(k) ->
              /\ state' = [state EXCEPT ![k] = "Closed"]
              /\ consecutiveSuccs' = [consecutiveSuccs EXCEPT ![k] = 0]
              /\ ClearSlots(k)
         [] state[k] = "HalfOpen" /\ ~Closes(k) ->
              /\ consecutiveSuccs' = [consecutiveSuccs EXCEPT ![k] = @ + 1]
              /\ GiveSlotBack(r, k)
              /\ UNCHANGED state
         [] OTHER ->
              UNCHANGED <<state, consecutiveSuccs, halfOpenInFlight, probes, stale>>
    /\ Goto(r, "deleting")
    /\ UNCHANGED <<cooldown, recordVars, todo, attempted, target, tried>>

DeleteRecord(r) ==
    /\ pc[r] = "deleting"
    /\ DeleteAttempt(r)
    /\ Goto(r, "done")
    /\ UNCHANGED <<circuitVars, todo, attempted, target, tried>>

-----------------------------------------------------------------------------
(* The handler's early returns and the clock.                              *)

\* The client cancels, or the attempt controller refuses the attempt: the
\* handler returns and reports nothing to the router.
Abandon(r) ==
    /\ ClientsMayCancel
    /\ pc[r] = "sending"
    /\ Goto(r, "abandoned")
    /\ UNCHANGED <<circuitVars, recordVars, todo, attempted, target, tried>>

\* One unit of time.  Unless LongRequests, requests end within StaleAge.
Tick ==
    /\ \A r \in Request : LongRequests \/ ~Live(r) \/ recordAge[r] < StaleAge
    /\ cooldown' = [k \in Key |-> IF cooldown[k] > 0 THEN cooldown[k] - 1 ELSE 0]
    /\ recordAge' = [r \in Request |->
                       IF attempts[r] # {} /\ recordAge[r] <= StaleAge
                         THEN recordAge[r] + 1 ELSE recordAge[r]]
    /\ <<cooldown, recordAge>>' # <<cooldown, recordAge>>
    /\ UNCHANGED <<state, consecutiveFails, consecutiveSuccs, halfOpenInFlight,
                   probes, stale, attempts, cleanupCount, requestVars>>

\* Every request has returned to its client.
Finished ==
    /\ \A r \in Request : pc[r] \in Ended
    /\ UNCHANGED vars

-----------------------------------------------------------------------------

\* What the goroutine of r does inside the router.
RouterStep(r) ==
    \/ SkipAttempted(r) \/ TryClosed(r) \/ TryCooling(r) \/ TryRecovered(r)
    \/ TryHalfOpen(r) \/ RecordAdmitted(r) \/ Exhausted(r)
    \/ CountHarmless(r) \/ CountFailure(r) \/ RecordFailed(r)
    \/ ReadAttempted(r) \/ DeleteRecord(r)

\* What the handler does with r between calls of the router.
HandlerStep(r) == ReportError(r) \/ ReportSuccess(r) \/ Abandon(r)

Next ==
    \/ \E r \in Request : Route(r) \/ RouterStep(r) \/ HandlerStep(r)
    \/ Tick
    \/ Finished

Spec == Init /\ [][Next]_vars

\* Goroutines that can run do, and no upstream keeps a request forever: it
\* answers, fails, or the client leaves.
Fairness == \A r \in Request : WF_vars(RouterStep(r)) /\ WF_vars(HandlerStep(r))

FairSpec == Spec /\ Fairness

-----------------------------------------------------------------------------
(* Properties                                                              *)

\* Types, and the bounds the counters keep: consecutiveSuccs never reaches
\* the threshold that closes the circuit and resets it.
TypeOK ==
    /\ state \in [Key -> CircuitState]
    /\ consecutiveFails \in [Key -> Nat]
    /\ consecutiveSuccs \in [Key -> 0 .. SuccessThreshold - 1]
    /\ cooldown \in [Key -> 0 .. RecoveryTimeout]
    /\ halfOpenInFlight \in [Key -> Int]
    /\ attempts \in [Request -> SUBSET Key]
    /\ recordAge \in [Request -> 0 .. StaleAge + 1]
    /\ cleanupCount \in 0 .. CleanupInterval - 1
    /\ pc \in [Request -> Section]
    /\ todo \in [Request -> Seq(Key)]
    /\ attempted \in [Request -> SUBSET Key]
    /\ target \in [Request -> Key \cup {NoTarget}]
    /\ probes \in [Key -> SUBSET Request]
    /\ stale \in [Key -> Nat]
    /\ tried \in [Request -> SUBSET Key]

\* halfOpenInFlight is the number of probes of the current half-open period
\* that have not reported, less the reports that were not theirs to make
\* (requests admitted before the circuit tripped); outside a half-open period
\* it is zero, whatever order the reports of overlapping requests come in.
SlotAccounting ==
    \A k \in Key :
        /\ halfOpenInFlight[k] = Cardinality(probes[k]) - stale[k]
        /\ halfOpenInFlight[k] <= HalfOpenMax
        /\ state[k] # "HalfOpen" => probes[k] = {} /\ stale[k] = 0

\* A half-open circuit none of whose probes is still under way admits the
\* next request: no slot stays taken by a request that has ended.
SlotsComeBack ==
    \A k \in Key :
        state[k] = "HalfOpen" /\ (\A r \in probes[k] : ~Live(r))
            => halfOpenInFlight[k] < HalfOpenMax

\* At most HalfOpenMax requests probe a half-open circuit at the same time.
HalfOpenLimit ==
    \A k \in Key : Cardinality({r \in probes[k] : Live(r)}) <= HalfOpenMax

\* A request never goes twice to the same circuit key: the attempt record
\* survives the cleanups other requests run until the request has ended.
NoRepeatedTarget ==
    [][\A r \in Request :
          pc[r] = "rerouting" /\ pc'[r] = "admitted" => target'[r] \notin tried[r]]_vars

\* A request that ended with a report leaves no attempt record behind, however
\* it ended; only requests given up without a report wait for lazyCleanup.
NoRecordLeak ==
    \A r \in Request :
        attempts[r] # {} => Live(r) \/ pc[r] = "abandoned"

\* Each request falls back a bounded number of times and returns to its client.
EveryRequestEnds ==
    \A r \in Request : pc[r] = "routing" ~> pc[r] \in Ended

\* Each circuit keeps the contract; the counters count only in the phase they
\* are for, so reports that come late are steps the contract does not see.
Contract == INSTANCE CircuitContract WITH
    phase      <- state,
    evidence   <- [k \in Key |-> IF state[k] = "Closed" THEN consecutiveFails[k] ELSE 0],
    confidence <- [k \in Key |-> IF state[k] = "HalfOpen" THEN consecutiveSuccs[k] ELSE 0],
    wait       <- [k \in Key |-> IF state[k] = "Open" THEN cooldown[k] ELSE 0]

\* The router, with all its requests, implements the contract of every circuit.
KeepsContract == Contract!Spec
-----------------------------------------------------------------------------
(* The inductive strengthening of the invariants above.                    *)

\* A request that was admitted has a target.
TargetKnown ==
    \A r \in Request : pc[r] \notin {"idle", "routing", "done"} => target[r] \in Key

TypeInv == TypeOK /\ TargetKnown

\* A probe is a request sent to that key which has not reported on it.
ProbesOutstanding ==
    \A k \in Key : \A r \in probes[k] :
        target[r] = k /\ pc[r] \in {"admitted", "sending", "failed", "abandoned"}

SlotInv == ProbesOutstanding /\ SlotAccounting

\* A request without a target to report on has no record.
RecordInv ==
    \A r \in Request :
        /\ pc[r] \in {"idle", "routing", "done"} => attempts[r] = {}
        /\ attempts[r] = {} => recordAge[r] = 0

\* While requests are short, the record covers what the request has tried.
TriedInv ==
    \A r \in Request :
        /\ Live(r) => recordAge[r] <= StaleAge
        /\ pc[r] \in {"idle", "routing"} => tried[r] = {}
        /\ pc[r] = "admitted" => tried[r] \subseteq attempts[r] \cup {target[r]}
        /\ pc[r] \in {"sending", "failed", "recording", "reading", "rerouting"}
              => tried[r] \subseteq attempts[r]
        /\ pc[r] = "rerouting" => tried[r] \subseteq attempted[r]

\* A closed circuit is below the threshold that opens it.
ClosedBelowThreshold ==
    \A k \in Key : state[k] = "Closed" => consecutiveFails[k] < FailureThreshold

\* Without LongRequests and without cancellations all of it holds.
BreakerInv ==
    /\ TypeInv
    /\ SlotInv
    /\ RecordInv
    /\ ~LongRequests => TriedInv
    /\ ClosedBelowThreshold
=============================================================================
