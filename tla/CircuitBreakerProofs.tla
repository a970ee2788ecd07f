----------------------- MODULE CircuitBreakerProofs -----------------------
(***************************************************************************)
(* Theorems about CircuitBreaker, for every number of requests, keys and   *)
(* candidate lists and every setting of the thresholds.                    *)
(***************************************************************************)
EXTENDS CircuitBreaker, FiniteSetTheorems, TLAPS

\* A function updated at one point keeps its range.
LEMMA FunUpdate ==
    ASSUME NEW S, NEW T, NEW f \in [S -> T], NEW x, NEW v \in T
    PROVE  [f EXCEPT ![x] = v] \in [S -> T]
OBVIOUS

\* The counter of lazyCleanup stays below the interval.
LEMMA ModuloRange ==
    ASSUME NEW c \in Int
    PROVE  (c + 1) % CleanupInterval \in 0 .. CleanupInterval - 1
BY TimeAssumption

-----------------------------------------------------------------------------
(* Type correctness.                                                       *)

\* LazyCleanup leaves records and counter in their types.
LEMMA CleanupType ==
    ASSUME TypeOK, LazyCleanup
    PROVE  /\ attempts' \in [Request -> SUBSET Key]
           /\ recordAge' \in [Request -> 0 .. StaleAge + 1]
           /\ cleanupCount' \in 0 .. CleanupInterval - 1
<1>1. cleanupCount' \in 0 .. CleanupInterval - 1
  BY ModuloRange DEF LazyCleanup, TypeOK
<1>2. QED BY <1>1, TimeAssumption DEF LazyCleanup, TypeOK

\* The next candidate is a key, and the remaining candidates are a list of keys.
LEMMA HeadTail ==
    ASSUME NEW list \in Seq(Key), list # <<>>
    PROVE  Head(list) \in Key /\ Tail(list) \in Seq(Key)
OBVIOUS

\* What every admission and every refusal of a candidate does to the request.
LEMMA AdmitType ==
    ASSUME TypeInv, NEW r \in Request, Trying(r), Admit(r)
    PROVE  /\ pc' \in [Request -> Section]
           /\ todo' \in [Request -> Seq(Key)]
           /\ attempted' \in [Request -> SUBSET Key]
           /\ target' \in [Request -> Key \cup {NoTarget}]
           /\ tried' \in [Request -> SUBSET Key]
           /\ TargetKnown'
           /\ Head(todo[r]) \in Key
<1>1. Head(todo[r]) \in Key
  BY HeadTail DEF Trying, TypeInv, TypeOK
<1>2. QED
  BY <1>1 DEF TypeInv, TypeOK, TargetKnown, Admit, Goto, Section

\* Moving on to the next candidate keeps the types.
LEMMA RefuseType ==
    ASSUME TypeInv, NEW r \in Request, Trying(r), Refuse(r)
    PROVE  /\ UNCHANGED <<pc, attempted, target, tried>>
           /\ todo' \in [Request -> Seq(Key)]
           /\ TargetKnown'
BY HeadTail DEF Trying, TypeInv, TypeOK, TargetKnown, Refuse

\* The half-open bookkeeping of one circuit.
SlotTypes ==
    /\ halfOpenInFlight \in [Key -> Int]
    /\ probes \in [Key -> SUBSET Request]
    /\ stale \in [Key -> Nat]

\* Giving a slot back, at most once, leaves a number of slots.
LEMMA SlotBackType ==
    ASSUME SlotTypes, NEW r \in Request, NEW k \in Key, GiveSlotBack(r, k)
    PROVE  SlotTypes'
<1>1. halfOpenInFlight' \in [Key -> Int]
  BY DEF SlotTypes, GiveSlotBack
<1>2. probes' \in [Key -> SUBSET Request]
  BY DEF SlotTypes, GiveSlotBack
<1>3. stale' \in [Key -> Nat]
  BY DEF SlotTypes, GiveSlotBack
<1>4. QED BY <1>1, <1>2, <1>3 DEF SlotTypes

\* Clearing the slots of a circuit leaves a number of slots.
LEMMA ClearType ==
    ASSUME SlotTypes, NEW k \in Key, ClearSlots(k)
    PROVE  SlotTypes'
BY DEF SlotTypes, ClearSlots

\* The router starts well typed.
LEMMA TypeInit == Init => TypeInv
BY TimeAssumption, ThresholdAssumption
   DEF Init, TypeInv, TypeOK, TargetKnown, CircuitState, Section

\* Every section of the router keeps the types.
LEMMA TypeNext == TypeInv /\ [Next]_vars => TypeInv'
<1> SUFFICES ASSUME TypeInv, [Next]_vars PROVE TypeInv'
  OBVIOUS
<1> USE DEF TypeInv, TypeOK, TargetKnown, Goto, Section, circuitVars, recordVars, requestVars
<1>1. ASSUME NEW r \in Request, Route(r) PROVE TypeInv'
  BY <1>1, CleanupType, ListsAssumption DEF Route
<1>2. ASSUME NEW r \in Request, SkipAttempted(r) PROVE TypeInv'
  BY <1>2 DEF SkipAttempted, Refuse
<1>3. ASSUME NEW r \in Request, TryClosed(r) PROVE TypeInv'
  BY <1>3, AdmitType DEF TryClosed
<1>4. ASSUME NEW r \in Request, TryCooling(r) PROVE TypeInv'
  BY <1>4, RefuseType DEF TryCooling
<1>5. ASSUME NEW r \in Request, TryRecovered(r) PROVE TypeInv'
  <2>1. /\ consecutiveSuccs \in [Key -> 0 .. SuccessThreshold - 1]
        /\ SlotTypes
        /\ state \in [Key -> CircuitState]
    BY DEF SlotTypes
  <2>2. Trying(r) /\ Admit(r)
    BY <1>5 DEF TryRecovered
  <2> HIDE DEF TypeInv
  <2>3. state' \in [Key -> CircuitState]
    BY <1>5, <2>1 DEF TryRecovered, CircuitState
  <2>4. consecutiveSuccs' \in [Key -> 0 .. SuccessThreshold - 1]
    <3>1. consecutiveSuccs' = [consecutiveSuccs EXCEPT ![Head(todo[r])] = 0]
      BY <1>5 DEF TryRecovered
    <3>2. 0 \in 0 .. SuccessThreshold - 1
      BY ThresholdAssumption
    <3>3. QED BY <2>1, <3>1, <3>2, FunUpdate
  <2>5. SlotTypes'
    <3>1. /\ halfOpenInFlight' = [halfOpenInFlight EXCEPT ![Head(todo[r])] = 1]
          /\ probes' = [probes EXCEPT ![Head(todo[r])] = {r}]
          /\ stale' = [stale EXCEPT ![Head(todo[r])] = 0]
      BY <1>5 DEF TryRecovered
    <3>2. 1 \in Int /\ {r} \in SUBSET Request /\ 0 \in Nat
      OBVIOUS
    <3>3. QED BY <2>1, <3>1, <3>2, FunUpdate DEF SlotTypes
  <2>6. QED
    BY <1>5, <2>2, <2>3, <2>4, <2>5, AdmitType DEF TryRecovered, SlotTypes, TypeInv
<1>6. ASSUME NEW r \in Request, TryHalfOpen(r) PROVE TypeInv'
  <2>1. SlotTypes /\ Trying(r)
    BY <1>6 DEF SlotTypes, TryHalfOpen
  <2>2. UNCHANGED <<state, consecutiveFails, consecutiveSuccs, cooldown, recordVars>>
    BY <1>6 DEF TryHalfOpen
  <2> HIDE DEF TypeInv
  <2>3. SlotTypes'
    BY <1>6, <2>1 DEF TryHalfOpen, SlotTypes
  <2>4. CASE Admit(r)
    BY <2>1, <2>2, <2>3, <2>4, AdmitType DEF SlotTypes, TypeInv
  <2>5. CASE Refuse(r)
    BY <2>1, <2>2, <2>3, <2>5, RefuseType DEF SlotTypes, TypeInv
  <2>6. QED BY <1>6, <2>4, <2>5 DEF TryHalfOpen
<1>7. ASSUME NEW r \in Request, RecordAdmitted(r) PROVE TypeInv'
  BY <1>7 DEF RecordAdmitted, RecordAttempt
<1>8. ASSUME NEW r \in Request, Exhausted(r) PROVE TypeInv'
  BY <1>8 DEF Exhausted
<1>9. ASSUME NEW r \in Request, CountHarmless(r) PROVE TypeInv'
  <2>1. target[r] \in Key
    BY <1>9 DEF CountHarmless
  <2>2. TargetKnown'
    BY <1>9, <2>1 DEF CountHarmless
  <2>3. CASE state[target[r]] = "HalfOpen"
    BY <1>9, <2>1, <2>2, <2>3, SlotBackType DEF CountHarmless, SlotTypes
  <2>4. CASE state[target[r]] # "HalfOpen"
    BY <1>9, <2>1, <2>2, <2>4 DEF CountHarmless
  <2>5. QED BY <2>3, <2>4
<1>10. ASSUME NEW r \in Request, CountFailure(r) PROVE TypeInv'
  <2>1. target[r] \in Key
    BY <1>10 DEF CountFailure
  <2>2. TargetKnown'
    BY <1>10, <2>1 DEF CountFailure
  <2>3. /\ state \in [Key -> CircuitState]
        /\ cooldown \in [Key -> 0 .. RecoveryTimeout]
        /\ consecutiveFails \in [Key -> Nat]
        /\ consecutiveSuccs \in [Key -> 0 .. SuccessThreshold - 1]
        /\ SlotTypes
    BY DEF SlotTypes
  <2> HIDE DEF TypeInv
  <2>4. SlotTypes'
    BY <1>10, <2>1, <2>3, ClearType DEF CountFailure, SlotTypes
  <2>5. state' \in [Key -> CircuitState]
    BY <1>10, <2>3 DEF CountFailure, CircuitState
  <2>6. cooldown' \in [Key -> 0 .. RecoveryTimeout]
    BY <1>10, <2>3, TimeAssumption DEF CountFailure
  <2>7. consecutiveFails' \in [Key -> Nat]
    <3>1. consecutiveFails' = [consecutiveFails EXCEPT ![target[r]] = @ + 1]
      BY <1>10 DEF CountFailure
    <3>2. QED BY <2>1, <2>3, <3>1
  <2>8. consecutiveSuccs' \in [Key -> 0 .. SuccessThreshold - 1]
    <3>1. consecutiveSuccs' = [consecutiveSuccs EXCEPT ![target[r]] = 0]
      BY <1>10 DEF CountFailure
    <3>2. 0 \in 0 .. SuccessThreshold - 1
      BY ThresholdAssumption
    <3>3. QED BY <2>3, <3>1, <3>2, FunUpdate
  <2>9. QED
    BY <1>10, <2>2, <2>4, <2>5, <2>6, <2>7, <2>8
       DEF CountFailure, SlotTypes, TypeInv
<1>11. ASSUME NEW r \in Request, RecordFailed(r) PROVE TypeInv'
  BY <1>11 DEF RecordFailed, RecordAttempt
<1>12. ASSUME NEW r \in Request, ReadAttempted(r) PROVE TypeInv'
  BY <1>12, ListsAssumption DEF ReadAttempted
<1>13. ASSUME NEW r \in Request, DeleteRecord(r) PROVE TypeInv'
  BY <1>13, TimeAssumption DEF DeleteRecord, DeleteAttempt
<1>14. ASSUME NEW r \in Request, ReportError(r) PROVE TypeInv'
  BY <1>14, CleanupType DEF ReportError
<1>15. ASSUME NEW r \in Request, ReportSuccess(r) PROVE TypeInv'
  <2>1. target[r] \in Key
    BY <1>15 DEF ReportSuccess
  <2>2. TargetKnown'
    BY <1>15, <2>1 DEF ReportSuccess
  <2>3. /\ state \in [Key -> CircuitState]
        /\ consecutiveFails \in [Key -> Nat]
        /\ consecutiveSuccs \in [Key -> 0 .. SuccessThreshold - 1]
        /\ SlotTypes
    BY DEF SlotTypes
  <2> HIDE DEF TypeInv
  <2>4. SlotTypes'
    BY <1>15, <2>1, <2>3, ClearType, SlotBackType DEF ReportSuccess, SlotTypes
  <2>5. state' \in [Key -> CircuitState]
    BY <1>15, <2>3 DEF ReportSuccess, CircuitState
  <2>6. consecutiveSuccs' \in [Key -> 0 .. SuccessThreshold - 1]
    <3>1. CASE Closes(target[r])
      BY <1>15, <2>3, <3>1, ThresholdAssumption DEF ReportSuccess
    <3>2. CASE state[target[r]] = "HalfOpen" /\ ~Closes(target[r])
      BY <1>15, <2>1, <2>3, <3>2, ThresholdAssumption
         DEF ReportSuccess, Closes, GiveSlotBack
    <3>3. CASE state[target[r]] # "HalfOpen"
      BY <1>15, <2>3, <3>3 DEF ReportSuccess, Closes
    <3>4. QED BY <3>1, <3>2, <3>3
  <2>7. consecutiveFails' \in [Key -> Nat]
    BY <1>15, <2>3 DEF ReportSuccess
  <2>8. QED
    BY <1>15, <2>2, <2>4, <2>5, <2>6, <2>7 DEF ReportSuccess, SlotTypes, TypeInv
<1>16. ASSUME NEW r \in Request, Abandon(r) PROVE TypeInv'
  BY <1>16 DEF Abandon
<1>17. CASE Tick
  <2>1. cooldown' \in [Key -> 0 .. RecoveryTimeout]
    BY <1>17, TimeAssumption DEF Tick
  <2>2. recordAge' \in [Request -> 0 .. StaleAge + 1]
    BY <1>17, TimeAssumption DEF Tick
  <2>3. QED BY <1>17, <2>1, <2>2 DEF Tick
<1>18. CASE UNCHANGED vars
  BY <1>18 DEF vars
<1>19. QED
  BY <1>1, <1>2, <1>3, <1>4, <1>5, <1>6, <1>7, <1>8, <1>9, <1>10, <1>11,
     <1>12, <1>13, <1>14, <1>15, <1>16, <1>17, <1>18
     DEF Next, RouterStep, HandlerStep, Finished

\* Type correctness of the router's state, for every instance.
THEOREM TypeCorrect == Spec => []TypeOK
<1>1. Spec => []TypeInv
  BY TypeInit, TypeNext, PTL DEF Spec
<1>2. TypeInv => TypeOK
  BY DEF TypeInv
<1>3. QED BY <1>1, <1>2, PTL

-----------------------------------------------------------------------------
(* The half-open slots.                                                    *)

\* The sections in which a request may be an outstanding probe.
Outstanding == {"admitted", "sending", "failed", "abandoned"}

\* The probes of a circuit are finitely many, so they can be counted.
LEMMA ProbesFinite ==
    ASSUME TypeInv, NEW k \in Key
    PROVE  IsFiniteSet(probes[k])
BY RequestAssumption, FS_Subset DEF TypeInv, TypeOK

\* A report of r on k takes r off the probes of k and keeps the balance.
LEMMA GiveSlotBackBalance ==
    ASSUME TypeInv, SlotAccounting, NEW r \in Request, NEW k \in Key,
           GiveSlotBack(r, k), state[k] = "HalfOpen", UNCHANGED state
    PROVE  SlotAccounting'
<1> SUFFICES ASSUME NEW j \in Key
             PROVE  /\ halfOpenInFlight'[j] = Cardinality(probes'[j]) - stale'[j]
                    /\ halfOpenInFlight'[j] <= HalfOpenMax
                    /\ state'[j] # "HalfOpen" => probes'[j] = {} /\ stale'[j] = 0
  BY DEF SlotAccounting
<1>1. CASE j # k
  BY <1>1 DEF SlotAccounting, GiveSlotBack, TypeInv, TypeOK
<1>2. CASE j = k
  <2>1. /\ halfOpenInFlight[k] \in Int
        /\ stale[k] \in Nat
        /\ IsFiniteSet(probes[k])
        /\ halfOpenInFlight[k] = Cardinality(probes[k]) - stale[k]
        /\ halfOpenInFlight[k] <= HalfOpenMax
    BY ProbesFinite DEF TypeInv, TypeOK, SlotAccounting
  <2>2. Cardinality(probes[k]) \in Nat
    BY <2>1, FS_CardinalityType
  <2>3. /\ halfOpenInFlight'[k] = halfOpenInFlight[k] - 1
        /\ probes'[k] = probes[k] \ {r}
        /\ stale'[k] = IF r \in probes[k] THEN stale[k] ELSE stale[k] + 1
    BY DEF GiveSlotBack, TypeInv, TypeOK
  <2>4. CASE r \in probes[k]
    <3>1. Cardinality(probes'[k]) = Cardinality(probes[k]) - 1
      BY <2>1, <2>3, <2>4, FS_RemoveElement
    <3>2. QED BY <1>2, <2>1, <2>2, <2>3, <2>4, <3>1, ThresholdAssumption
  <2>5. CASE r \notin probes[k]
    <3>1. probes'[k] = probes[k] /\ stale'[k] = stale[k] + 1
      BY <2>3, <2>5
    <3>2. Cardinality(probes'[k]) = Cardinality(probes[k])
      BY <3>1
    <3>3. QED BY <1>2, <2>1, <2>2, <2>3, <3>1, <3>2, ThresholdAssumption
  <2>6. QED BY <2>4, <2>5
<1>3. QED BY <1>1, <1>2

\* The end of a half-open period leaves nothing behind.
LEMMA ClearSlotsBalance ==
    ASSUME TypeInv, SlotAccounting, NEW k \in Key, ClearSlots(k),
           \A j \in Key : j # k => state'[j] = state[j]
    PROVE  SlotAccounting'
<1>1. Cardinality({}) = 0
  BY FS_EmptySet
<1>2. QED
  BY <1>1, ThresholdAssumption DEF SlotAccounting, ClearSlots, TypeInv, TypeOK

\* A step that leaves the slots and the phases alone.
LEMMA SlotsUnchanged ==
    ASSUME SlotAccounting, UNCHANGED <<state, halfOpenInFlight, probes, stale>>
    PROVE  SlotAccounting'
BY DEF SlotAccounting

\* The probes of every key stay outstanding when r moves on and either r is no
\* probe or it remains one.
LEMMA OutstandingKept ==
    ASSUME TypeInv, ProbesOutstanding, NEW r \in Request, NEW s,
           Goto(r, s), UNCHANGED <<probes, target>>,
           pc[r] \in Outstanding => s \in Outstanding
    PROVE  ProbesOutstanding'
BY DEF ProbesOutstanding, Goto, Outstanding, TypeInv, TypeOK

\* Once r has reported on its target it is a probe of no key.
LEMMA OutstandingReported ==
    ASSUME TypeInv, ProbesOutstanding, NEW r \in Request, NEW s,
           Goto(r, s), UNCHANGED target,
           \A j \in Key : probes'[j] \subseteq probes[j],
           target[r] \in Key, r \notin probes'[target[r]]
    PROVE  ProbesOutstanding'
BY DEF ProbesOutstanding, Goto, TypeInv, TypeOK

\* The account of slots balances when no request has been admitted.
LEMMA SlotInit == Init => SlotInv
<1>1. Cardinality({}) = 0
  BY FS_EmptySet
<1>2. QED
  BY <1>1, ThresholdAssumption DEF Init, SlotInv, ProbesOutstanding, SlotAccounting

\* The first probe of a half-open period balances the account.
LEMMA SlotRecovered ==
    ASSUME TypeInv, SlotInv, NEW r \in Request, TryRecovered(r)
    PROVE  SlotInv'
<1>1. PICK k \in Key : k = Head(todo[r])
  BY HeadTail DEF TryRecovered, Trying, TypeInv, TypeOK
<1>2. /\ state' = [state EXCEPT ![k] = "HalfOpen"]
      /\ halfOpenInFlight' = [halfOpenInFlight EXCEPT ![k] = 1]
      /\ probes' = [probes EXCEPT ![k] = {r}]
      /\ stale' = [stale EXCEPT ![k] = 0]
      /\ target' = [target EXCEPT ![r] = k]
      /\ pc' = [pc EXCEPT ![r] = "admitted"]
      /\ pc[r] \in {"routing", "rerouting"}
  BY <1>1 DEF TryRecovered, Trying, Admit, Goto
<1>3. ProbesOutstanding'
  BY <1>2 DEF SlotInv, ProbesOutstanding, TypeInv, TypeOK
<1>4. Cardinality({r}) = 1
  BY FS_Singleton
<1>5. SlotAccounting'
  BY <1>2, <1>4, ThresholdAssumption DEF SlotInv, SlotAccounting, TypeInv, TypeOK
<1>6. QED BY <1>3, <1>5 DEF SlotInv

\* A further probe balances the account.
LEMMA SlotHalfOpen ==
    ASSUME TypeInv, SlotInv, NEW r \in Request, TryHalfOpen(r)
    PROVE  SlotInv'
<1>1. PICK k \in Key : k = Head(todo[r])
  BY HeadTail DEF TryHalfOpen, Trying, TypeInv, TypeOK
<1>2. CASE halfOpenInFlight[k] < HalfOpenMax
  <2>1. /\ halfOpenInFlight' = [halfOpenInFlight EXCEPT ![k] = @ + 1]
        /\ probes' = [probes EXCEPT ![k] = @ \cup {r}]
        /\ UNCHANGED <<state, stale>>
        /\ state[k] = "HalfOpen"
        /\ target' = [target EXCEPT ![r] = k]
        /\ pc' = [pc EXCEPT ![r] = "admitted"]
        /\ pc[r] \in {"routing", "rerouting"}
    BY <1>1, <1>2 DEF TryHalfOpen, Trying, Admit, Goto
  <2>2. ProbesOutstanding'
    BY <2>1 DEF SlotInv, ProbesOutstanding, TypeInv, TypeOK
  <2>3. r \notin probes[k]
    BY <2>1 DEF SlotInv, ProbesOutstanding
  <2>4. Cardinality(probes[k] \cup {r}) = Cardinality(probes[k]) + 1
    BY <2>3, ProbesFinite, FS_AddElement
  <2>5. Cardinality(probes[k]) \in Nat
    BY ProbesFinite, FS_CardinalityType
  <2>6. /\ halfOpenInFlight[k] \in Int /\ stale[k] \in Nat
        /\ halfOpenInFlight[k] = Cardinality(probes[k]) - stale[k]
    BY DEF SlotInv, SlotAccounting, TypeInv, TypeOK
  <2>7. /\ halfOpenInFlight'[k] = halfOpenInFlight[k] + 1
        /\ probes'[k] = probes[k] \cup {r}
        /\ stale'[k] = stale[k]
        /\ state'[k] = "HalfOpen"
    BY <2>1 DEF TypeInv, TypeOK
  <2>8. /\ halfOpenInFlight'[k] = Cardinality(probes'[k]) - stale'[k]
        /\ halfOpenInFlight'[k] <= HalfOpenMax
    BY <1>2, <2>4, <2>5, <2>6, <2>7, ThresholdAssumption
  <2>9. \A j \in Key : j # k =>
            /\ halfOpenInFlight'[j] = halfOpenInFlight[j]
            /\ probes'[j] = probes[j]
            /\ stale'[j] = stale[j]
            /\ state'[j] = state[j]
    BY <2>1 DEF TypeInv, TypeOK
  <2>10. SlotAccounting'
    BY <2>7, <2>8, <2>9 DEF SlotInv, SlotAccounting
  <2>11. QED BY <2>2, <2>10 DEF SlotInv
<1>3. CASE ~(halfOpenInFlight[k] < HalfOpenMax)
  <2>1. UNCHANGED <<state, halfOpenInFlight, probes, stale, pc, target>>
    BY <1>1, <1>3 DEF TryHalfOpen, Refuse
  <2>2. QED BY <2>1, SlotsUnchanged DEF SlotInv, ProbesOutstanding
<1>4. QED BY <1>2, <1>3

\* A harmless error gives one slot back and ends one probe, or is stale.
LEMMA SlotHarmless ==
    ASSUME TypeInv, SlotInv, NEW r \in Request, CountHarmless(r)
    PROVE  SlotInv'
<1>1. PICK k \in Key : k = target[r]
  BY DEF CountHarmless, TypeInv, TargetKnown
<1>2. Goto(r, "recording") /\ UNCHANGED <<state, target>>
  BY DEF CountHarmless
<1>3. CASE state[k] = "HalfOpen"
  <2>1. GiveSlotBack(r, k)
    BY <1>1, <1>3 DEF CountHarmless
  <2>2. SlotAccounting'
    BY <1>2, <1>3, <2>1, GiveSlotBackBalance DEF SlotInv
  <2>3. /\ \A j \in Key : probes'[j] \subseteq probes[j]
        /\ r \notin probes'[k]
    BY <2>1 DEF GiveSlotBack, TypeInv, TypeOK
  <2>4. ProbesOutstanding'
    BY <1>1, <1>2, <2>3, OutstandingReported DEF SlotInv
  <2>5. QED BY <2>2, <2>4 DEF SlotInv
<1>4. CASE state[k] # "HalfOpen"
  <2>1. UNCHANGED <<halfOpenInFlight, probes, stale>>
    BY <1>1, <1>4 DEF CountHarmless
  <2>2. probes[k] = {}
    BY <1>4 DEF SlotInv, SlotAccounting
  <2>3. ProbesOutstanding'
    BY <1>1, <1>2, <2>1, <2>2, OutstandingReported DEF SlotInv
  <2>4. QED BY <1>2, <2>1, <2>3, SlotsUnchanged DEF SlotInv
<1>5. QED BY <1>3, <1>4

\* A failure gives one slot back, or opens the circuit and clears the account.
LEMMA SlotFailure ==
    ASSUME TypeInv, SlotInv, NEW r \in Request, CountFailure(r)
    PROVE  SlotInv'
<1>1. PICK k \in Key : k = target[r]
  BY DEF CountFailure, TypeInv, TargetKnown
<1>2. Goto(r, "recording") /\ UNCHANGED target
  BY DEF CountFailure
<1>3. state' = IF Opens(k) THEN [state EXCEPT ![k] = "Open"] ELSE state
  BY <1>1 DEF CountFailure
<1>4. CASE state[k] = "HalfOpen"
  <2>1. ClearSlots(k)
    BY <1>1, <1>4 DEF CountFailure
  <2>2. SlotAccounting'
    BY <1>3, <2>1, ClearSlotsBalance DEF SlotInv, TypeInv, TypeOK
  <2>3. \A j \in Key : probes'[j] \subseteq probes[j] /\ r \notin probes'[k]
    BY <2>1 DEF ClearSlots, TypeInv, TypeOK
  <2>4. QED
    BY <1>1, <1>2, <2>2, <2>3, OutstandingReported DEF SlotInv
<1>5. CASE state[k] # "HalfOpen"
  <2>1. UNCHANGED <<halfOpenInFlight, probes, stale>>
    BY <1>1, <1>5 DEF CountFailure
  <2>2. probes[k] = {} /\ stale[k] = 0
    BY <1>5 DEF SlotInv, SlotAccounting
  <2>3. SlotAccounting'
    BY <1>3, <2>1, <2>2 DEF SlotInv, SlotAccounting, TypeInv, TypeOK
  <2>4. QED
    BY <1>1, <1>2, <2>1, <2>2, <2>3, OutstandingReported DEF SlotInv
<1>6. QED BY <1>4, <1>5

\* A success gives one slot back, or closes the circuit and clears the account.
LEMMA SlotSuccess ==
    ASSUME TypeInv, SlotInv, NEW r \in Request, ReportSuccess(r)
    PROVE  SlotInv'
<1>1. PICK k \in Key : k = target[r]
  BY DEF ReportSuccess, TypeInv, TargetKnown
<1>2. Goto(r, "deleting") /\ UNCHANGED target
  BY DEF ReportSuccess
<1>3. CASE Closes(k)
  <2>1. ClearSlots(k) /\ state' = [state EXCEPT ![k] = "Closed"]
    BY <1>1, <1>3 DEF ReportSuccess
  <2>2. SlotAccounting'
    BY <2>1, ClearSlotsBalance DEF SlotInv, TypeInv, TypeOK
  <2>3. \A j \in Key : probes'[j] \subseteq probes[j] /\ r \notin probes'[k]
    BY <2>1 DEF ClearSlots, TypeInv, TypeOK
  <2>4. QED
    BY <1>1, <1>2, <2>2, <2>3, OutstandingReported DEF SlotInv
<1>4. CASE state[k] = "HalfOpen" /\ ~Closes(k)
  <2>1. GiveSlotBack(r, k) /\ UNCHANGED state
    BY <1>1, <1>4 DEF ReportSuccess
  <2>2. SlotAccounting'
    BY <1>4, <2>1, GiveSlotBackBalance DEF SlotInv
  <2>3. /\ \A j \in Key : probes'[j] \subseteq probes[j]
        /\ r \notin probes'[k]
    BY <2>1 DEF GiveSlotBack, TypeInv, TypeOK
  <2>4. QED
    BY <1>1, <1>2, <2>2, <2>3, OutstandingReported DEF SlotInv
<1>5. CASE state[k] # "HalfOpen"
  <2>1. UNCHANGED <<state, halfOpenInFlight, probes, stale>>
    BY <1>1, <1>5 DEF ReportSuccess, Closes
  <2>2. probes[k] = {}
    BY <1>5 DEF SlotInv, SlotAccounting
  <2>3. QED
    BY <1>1, <1>2, <2>1, <2>2, SlotsUnchanged, OutstandingReported DEF SlotInv
<1>6. QED BY <1>3, <1>4, <1>5

\* Every section of the router keeps the account of slots.
LEMMA SlotNext == TypeInv /\ SlotInv /\ [Next]_vars => SlotInv'
<1> SUFFICES ASSUME TypeInv, SlotInv, [Next]_vars PROVE SlotInv'
  OBVIOUS
<1> USE DEF Outstanding, circuitVars
<1>1. ASSUME NEW r \in Request, Route(r) PROVE SlotInv'
  BY <1>1, SlotsUnchanged, OutstandingKept DEF Route, SlotInv
<1>2. ASSUME NEW r \in Request, SkipAttempted(r) \/ TryCooling(r) PROVE SlotInv'
  BY <1>2, SlotsUnchanged DEF SkipAttempted, TryCooling, Refuse, SlotInv, ProbesOutstanding
<1>3. ASSUME NEW r \in Request, TryClosed(r) PROVE SlotInv'
  <2>1. /\ pc[r] \in {"routing", "rerouting"}
        /\ pc' = [pc EXCEPT ![r] = "admitted"]
        /\ \A q \in Request : q # r => target'[q] = target[q]
        /\ UNCHANGED <<state, halfOpenInFlight, probes, stale>>
    BY <1>3 DEF TryClosed, Trying, Admit, Goto, TypeInv, TypeOK
  <2>2. ProbesOutstanding'
    BY <2>1 DEF ProbesOutstanding, SlotInv, TypeInv, TypeOK
  <2>3. QED BY <2>1, <2>2, SlotsUnchanged DEF SlotInv
<1>4. ASSUME NEW r \in Request, RecordAdmitted(r) PROVE SlotInv'
  BY <1>4, SlotsUnchanged, OutstandingKept DEF RecordAdmitted, SlotInv
<1>5. ASSUME NEW r \in Request, Exhausted(r) PROVE SlotInv'
  BY <1>5, SlotsUnchanged, OutstandingKept DEF Exhausted, SlotInv
<1>6. ASSUME NEW r \in Request, RecordFailed(r) PROVE SlotInv'
  BY <1>6, SlotsUnchanged, OutstandingKept DEF RecordFailed, SlotInv
<1>7. ASSUME NEW r \in Request, ReadAttempted(r) PROVE SlotInv'
  BY <1>7, SlotsUnchanged, OutstandingKept DEF ReadAttempted, SlotInv
<1>8. ASSUME NEW r \in Request, DeleteRecord(r) PROVE SlotInv'
  BY <1>8, SlotsUnchanged, OutstandingKept DEF DeleteRecord, SlotInv
<1>9. ASSUME NEW r \in Request, ReportError(r) PROVE SlotInv'
  BY <1>9, SlotsUnchanged, OutstandingKept DEF ReportError, SlotInv
<1>10. ASSUME NEW r \in Request, Abandon(r) PROVE SlotInv'
  BY <1>10, SlotsUnchanged, OutstandingKept DEF Abandon, SlotInv
<1>11. CASE Tick
  BY <1>11, SlotsUnchanged DEF Tick, requestVars, SlotInv, ProbesOutstanding
<1>12. CASE UNCHANGED vars
  BY <1>12, SlotsUnchanged DEF vars, requestVars, SlotInv, ProbesOutstanding
<1>13. QED
  BY <1>1, <1>2, <1>3, <1>4, <1>5, <1>6, <1>7, <1>8, <1>9, <1>10, <1>11, <1>12,
     SlotRecovered, SlotHalfOpen, SlotHarmless, SlotFailure, SlotSuccess
     DEF Next, RouterStep, HandlerStep, Finished

\* halfOpenInFlight counts the outstanding probes, less the reports of others.
THEOREM SlotsCounted == Spec => []SlotAccounting
<1>1. Spec => []TypeInv
  BY TypeInit, TypeNext, PTL DEF Spec
<1>2. Spec => []SlotInv
  BY <1>1, SlotInit, SlotNext, PTL DEF Spec
<1>3. SlotInv => SlotAccounting
  BY DEF SlotInv
<1>4. QED BY <1>2, <1>3, PTL

-----------------------------------------------------------------------------
(* No request gives up: every slot comes back.                             *)

NobodyAbandons == \A r \in Request : pc[r] # "abandoned"

\* Without cancellations no request is ever abandoned.
LEMMA AbandonsNext ==
    TypeInv /\ ~ClientsMayCancel /\ NobodyAbandons /\ [Next]_vars => NobodyAbandons'
<1> SUFFICES ASSUME TypeInv, ~ClientsMayCancel, NobodyAbandons, [Next]_vars
             PROVE  NobodyAbandons'
  OBVIOUS
<1>1. ASSUME NEW r \in Request, NEW s, Goto(r, s), s # "abandoned"
      PROVE  NobodyAbandons'
  BY <1>1 DEF Goto, NobodyAbandons, TypeInv, TypeOK
<1>2. ASSUME UNCHANGED pc PROVE NobodyAbandons'
  BY <1>2 DEF NobodyAbandons
<1>3. ASSUME NEW r \in Request, Route(r) \/ RouterStep(r) \/ HandlerStep(r)
      PROVE  UNCHANGED pc \/ \E s : s # "abandoned" /\ Goto(r, s)
  <2> USE DEF Goto
  <2>1. CASE Route(r) \/ ReportError(r) \/ ReportSuccess(r)
    BY <2>1 DEF Route, ReportError, ReportSuccess
  <2>2. CASE Abandon(r)
    BY <2>2 DEF Abandon
  <2>3. CASE SkipAttempted(r) \/ TryCooling(r)
    BY <2>3 DEF SkipAttempted, TryCooling, Refuse
  <2>4. CASE TryClosed(r) \/ TryRecovered(r)
    BY <2>4 DEF TryClosed, TryRecovered, Admit
  <2>5. CASE TryHalfOpen(r)
    BY <2>5 DEF TryHalfOpen, Admit, Refuse
  <2>6. CASE Exhausted(r)
    BY <2>6 DEF Exhausted
  <2>7. CASE RecordAdmitted(r) \/ RecordFailed(r) \/ ReadAttempted(r) \/ DeleteRecord(r)
    BY <2>7 DEF RecordAdmitted, RecordFailed, ReadAttempted, DeleteRecord
  <2>8. CASE CountHarmless(r) \/ CountFailure(r)
    BY <2>8 DEF CountHarmless, CountFailure
  <2>9. QED
    BY <1>3, <2>1, <2>2, <2>3, <2>4, <2>5, <2>6, <2>7, <2>8 DEF RouterStep, HandlerStep
<1>4. CASE Tick \/ UNCHANGED vars
  BY <1>4, <1>2 DEF Tick, vars, requestVars
<1>5. QED BY <1>1, <1>2, <1>3, <1>4 DEF Next, Finished

\* Unless a request is given up without a report, a half-open circuit with no
\* probe under way admits the next request, whatever was reported late.
THEOREM SlotsReturn == ~ClientsMayCancel /\ Spec => []SlotsComeBack
<1> SUFFICES ASSUME ~ClientsMayCancel
             PROVE  Spec => []SlotsComeBack
  OBVIOUS
<1>1. Init => NobodyAbandons
  BY DEF Init, NobodyAbandons
<1>2. Spec => []TypeInv
  BY TypeInit, TypeNext, PTL DEF Spec
<1>3. Spec => []SlotInv
  BY <1>2, SlotInit, SlotNext, PTL DEF Spec
<1>4. TypeInv /\ NobodyAbandons /\ [Next]_vars => NobodyAbandons'
  BY AbandonsNext
<1>5. TypeInv /\ SlotInv /\ NobodyAbandons => SlotsComeBack
  <2> SUFFICES ASSUME TypeInv, SlotInv, NobodyAbandons, NEW k \in Key,
                      state[k] = "HalfOpen", \A r \in probes[k] : ~Live(r)
               PROVE  halfOpenInFlight[k] < HalfOpenMax
    BY DEF SlotsComeBack
  <2>1. \A r \in probes[k] : Live(r)
    BY DEF SlotInv, ProbesOutstanding, NobodyAbandons, Live, Ended, TypeInv, TypeOK
  <2>2. probes[k] = {}
    BY <2>1
  <2>3. Cardinality({}) = 0
    BY FS_EmptySet
  <2>4. halfOpenInFlight[k] = 0 - stale[k] /\ stale[k] \in Nat
    BY <2>2, <2>3 DEF SlotInv, SlotAccounting, TypeInv, TypeOK
  <2>5. QED BY <2>4, ThresholdAssumption
<1>6. QED BY <1>1, <1>2, <1>3, <1>4, <1>5, PTL DEF Spec

\* The limit on concurrent probes is exceeded by late reports only, and by no
\* more than there were of them.
THEOREM LimitUpToStale ==
    Spec => [](\A k \in Key : Cardinality(probes[k]) <= HalfOpenMax + stale[k])
<1>1. Spec => []TypeInv
  BY TypeInit, TypeNext, PTL DEF Spec
<1>2. TypeInv /\ SlotAccounting
        => \A k \in Key : Cardinality(probes[k]) <= HalfOpenMax + stale[k]
  <2> SUFFICES ASSUME TypeInv, SlotAccounting, NEW k \in Key
               PROVE  Cardinality(probes[k]) <= HalfOpenMax + stale[k]
    OBVIOUS
  <2>1. Cardinality(probes[k]) \in Nat /\ stale[k] \in Nat
    BY ProbesFinite, FS_CardinalityType DEF TypeInv, TypeOK
  <2>2. QED BY <2>1, ThresholdAssumption DEF SlotAccounting
<1>3. QED BY <1>1, <1>2, SlotsCounted, PTL

-----------------------------------------------------------------------------
(* The attempt records.                                                    *)

\* No request has a record before it is routed.
LEMMA RecordInit == Init => RecordInv
BY DEF Init, RecordInv

\* LazyCleanup only removes records.
LEMMA RecordCleanup ==
    ASSUME TypeInv, RecordInv, LazyCleanup, NEW r \in Request
    PROVE  /\ attempts'[r] \in {attempts[r], {}}
           /\ attempts'[r] = {} => recordAge'[r] = 0
BY DEF LazyCleanup, RecordInv, TypeInv, TypeOK

\* Every section keeps a record only for a request still in the handler.
LEMMA RecordNext == TypeInv /\ RecordInv /\ [Next]_vars => RecordInv'
<1> SUFFICES ASSUME TypeInv, RecordInv, [Next]_vars PROVE RecordInv'
  OBVIOUS
<1> USE DEF recordVars, Goto
<1>1. ASSUME NEW r \in Request, Route(r) \/ ReportError(r) PROVE RecordInv'
  <2>1. LazyCleanup /\ \E s : s \notin {"idle", "done"} /\ Goto(r, s)
                    /\ (s = "routing" => pc[r] = "idle")
    BY <1>1 DEF Route, ReportError
  <2>2. \A q \in Request : pc'[q] \in {"idle", "routing", "done"}
                             => pc[q] \in {"idle", "routing", "done"}
    BY <2>1 DEF TypeInv, TypeOK
  <2>3. QED BY <2>1, <2>2, RecordCleanup DEF RecordInv
<1>2. ASSUME NEW r \in Request, SkipAttempted(r) \/ TryCooling(r) PROVE RecordInv'
  BY <1>2 DEF SkipAttempted, TryCooling, Refuse, RecordInv
<1>3. ASSUME NEW r \in Request, TryClosed(r) \/ TryRecovered(r) PROVE RecordInv'
  BY <1>3 DEF TryClosed, TryRecovered, Admit, RecordInv, TypeInv, TypeOK
<1>4. ASSUME NEW r \in Request, TryHalfOpen(r) PROVE RecordInv'
  BY <1>4 DEF TryHalfOpen, Admit, Refuse, RecordInv, TypeInv, TypeOK
<1>5. ASSUME NEW r \in Request, RecordAdmitted(r) \/ RecordFailed(r) PROVE RecordInv'
  <2>1. PICK s, k : /\ s \notin {"idle", "routing", "done"}
                    /\ pc' = [pc EXCEPT ![r] = s]
                    /\ attempts' = [attempts EXCEPT ![r] = @ \cup {k}]
                    /\ UNCHANGED recordAge
    BY <1>5 DEF RecordAdmitted, RecordFailed, RecordAttempt
  <2>2. attempts'[r] # {}
    BY <2>1 DEF TypeInv, TypeOK
  <2>3. QED BY <2>1, <2>2 DEF RecordInv, TypeInv, TypeOK
<1>6. ASSUME NEW r \in Request, Exhausted(r) PROVE RecordInv'
  BY <1>6 DEF Exhausted, RecordInv, TypeInv, TypeOK
<1>7. ASSUME NEW r \in Request, CountHarmless(r) \/ CountFailure(r) PROVE RecordInv'
  BY <1>7 DEF CountHarmless, CountFailure, RecordInv, TypeInv, TypeOK
<1>8. ASSUME NEW r \in Request, ReadAttempted(r) PROVE RecordInv'
  BY <1>8 DEF ReadAttempted, RecordInv, TypeInv, TypeOK
<1>9. ASSUME NEW r \in Request, DeleteRecord(r) PROVE RecordInv'
  BY <1>9 DEF DeleteRecord, DeleteAttempt, RecordInv, TypeInv, TypeOK
<1>10. ASSUME NEW r \in Request, ReportSuccess(r) PROVE RecordInv'
  BY <1>10 DEF ReportSuccess, RecordInv, TypeInv, TypeOK
<1>11. ASSUME NEW r \in Request, Abandon(r) PROVE RecordInv'
  BY <1>11 DEF Abandon, RecordInv, TypeInv, TypeOK
<1>12. CASE Tick
  BY <1>12 DEF Tick, requestVars, RecordInv, TypeInv, TypeOK
<1>13. CASE UNCHANGED vars
  BY <1>13 DEF vars, requestVars, RecordInv
<1>14. QED
  BY <1>1, <1>2, <1>3, <1>4, <1>5, <1>6, <1>7, <1>8, <1>9, <1>10, <1>11, <1>12, <1>13
     DEF Next, RouterStep, HandlerStep, Finished

\* A request that ended with a report leaves no attempt record behind.
THEOREM RecordsReleased == Spec => []NoRecordLeak
<1>1. Spec => []TypeInv
  BY TypeInit, TypeNext, PTL DEF Spec
<1>2. Spec => []RecordInv
  BY <1>1, RecordInit, RecordNext, PTL DEF Spec
<1>3. TypeInv /\ RecordInv => NoRecordLeak
  BY DEF RecordInv, NoRecordLeak, Live, Ended, TypeInv, TypeOK
<1>4. QED BY <1>1, <1>2, <1>3, PTL

-----------------------------------------------------------------------------
(* Short requests never go back to a target.                               *)

\* What TriedInv says of one request.
TriedAt(q) ==
    /\ Live(q) => recordAge[q] <= StaleAge
    /\ pc[q] \in {"idle", "routing"} => tried[q] = {}
    /\ pc[q] = "admitted" => tried[q] \subseteq attempts[q] \cup {target[q]}
    /\ pc[q] \in {"sending", "failed", "recording", "reading", "rerouting"}
          => tried[q] \subseteq attempts[q]
    /\ pc[q] = "rerouting" => tried[q] \subseteq attempted[q]

\* A request whose own variables a step leaves alone keeps TriedAt.
LEMMA TriedFrame ==
    ASSUME NEW q \in Request, TriedAt(q),
           pc'[q] = pc[q], tried'[q] = tried[q],
           (attempts'[q] = attempts[q] /\ recordAge'[q] = recordAge[q]) \/ ~Live(q),
           target'[q] = target[q], attempted'[q] = attempted[q]
    PROVE  TriedAt(q)'
BY DEF TriedAt, Live, Ended

\* The cleanup spares every live request while requests are short.
LEMMA CleanupSpares ==
    ASSUME TypeInv, TriedInv, LazyCleanup, NEW q \in Request, Live(q)
    PROVE  attempts'[q] = attempts[q] /\ recordAge'[q] = recordAge[q]
BY TimeAssumption DEF TriedInv, LazyCleanup, TypeInv, TypeOK

\* No key has been tried before the first request is routed.
LEMMA TriedInit == Init => TriedInv
BY TimeAssumption DEF Init, TriedInv

\* Every section keeps the tried keys in the record, or in the copy the call works on.
LEMMA TriedNext ==
    ~LongRequests /\ TypeInv /\ RecordInv /\ TriedInv /\ [Next]_vars => TriedInv'
<1> SUFFICES ASSUME ~LongRequests, TypeInv, RecordInv, TriedInv, [Next]_vars,
                    NEW q \in Request
             PROVE  TriedAt(q)'
  BY DEF TriedInv, TriedAt
<1>0. TriedAt(q)
  BY DEF TriedInv, TriedAt
<1> USE DEF recordVars, Goto
<1>1. ASSUME NEW r \in Request, Route(r) PROVE TriedAt(q)'
  <2>1. CASE q = r
    <3>1. tried[q] = {} /\ tried'[q] = {} /\ recordAge[q] = 0 /\ pc'[q] = "routing"
      BY <1>1, <2>1 DEF Route, TriedInv, RecordInv, TypeInv, TypeOK
    <3>2. recordAge'[q] = 0
      BY <1>1, <3>1 DEF Route, LazyCleanup
    <3>3. QED BY <3>1, <3>2, TimeAssumption DEF TriedAt
  <2>2. CASE q # r
    BY <1>0, <1>1, <2>2, CleanupSpares, TriedFrame DEF Route, TypeInv, TypeOK
  <2>3. QED BY <2>1, <2>2
<1>2. ASSUME NEW r \in Request, ReportError(r) PROVE TriedAt(q)'
  <2>1. CASE q = r
    <3>1. /\ pc[q] = "sending" /\ pc'[q] = "failed"
          /\ tried'[q] = tried[q]
          /\ attempts'[q] = attempts[q] /\ recordAge'[q] = recordAge[q]
      BY <1>2, <2>1, CleanupSpares DEF ReportError, Live, Ended, TypeInv, TypeOK
    <3>2. QED BY <1>0, <3>1 DEF TriedAt, Live, Ended
  <2>2. CASE q # r
    BY <1>0, <1>2, <2>2, CleanupSpares, TriedFrame DEF ReportError, TypeInv, TypeOK
  <2>3. QED BY <2>1, <2>2
<1>3. ASSUME NEW r \in Request, SkipAttempted(r) \/ TryCooling(r) PROVE TriedAt(q)'
  BY <1>0, <1>3, TriedFrame DEF SkipAttempted, TryCooling, Refuse
<1>4. ASSUME NEW r \in Request, Trying(r), Admit(r), UNCHANGED recordVars
      PROVE  TriedAt(q)'
  <2>1. CASE q = r
    <3>1. /\ pc[q] \in {"routing", "rerouting"} /\ pc'[q] = "admitted"
          /\ tried'[q] = tried[q] \cup {target'[q]}
          /\ attempts'[q] = attempts[q] /\ recordAge'[q] = recordAge[q]
      BY <1>4, <2>1 DEF Trying, Admit, TypeInv, TypeOK
    <3>2. QED BY <1>0, <3>1 DEF TriedAt, Live, Ended
  <2>2. CASE q # r
    BY <1>0, <1>4, <2>2, TriedFrame DEF Admit, TypeInv, TypeOK
  <2>3. QED BY <2>1, <2>2
<1>5. ASSUME NEW r \in Request, TryClosed(r) \/ TryRecovered(r) PROVE TriedAt(q)'
  BY <1>4, <1>5 DEF TryClosed, TryRecovered
<1>6. ASSUME NEW r \in Request, TryHalfOpen(r) PROVE TriedAt(q)'
  <2>1. CASE Admit(r)
    BY <1>4, <1>6, <2>1 DEF TryHalfOpen
  <2>2. CASE Refuse(r)
    BY <1>0, <1>6, <2>2, TriedFrame DEF TryHalfOpen, Refuse
  <2>3. QED BY <1>6, <2>1, <2>2 DEF TryHalfOpen
<1>7. ASSUME NEW r \in Request, RecordAdmitted(r) \/ RecordFailed(r) PROVE TriedAt(q)'
  <2>1. CASE q = r
    <3>1. /\ pc[q] \in {"admitted", "recording"} /\ pc'[q] \in {"sending", "reading"}
          /\ tried'[q] = tried[q]
          /\ attempts'[q] = attempts[q] \cup {target[q]}
          /\ recordAge'[q] = recordAge[q]
      BY <1>7, <2>1 DEF RecordAdmitted, RecordFailed, RecordAttempt, TypeInv, TypeOK
    <3>2. QED BY <1>0, <3>1 DEF TriedAt, Live, Ended
  <2>2. CASE q # r
    BY <1>0, <1>7, <2>2, TriedFrame
       DEF RecordAdmitted, RecordFailed, RecordAttempt, TypeInv, TypeOK
  <2>3. QED BY <2>1, <2>2
<1>8. ASSUME NEW r \in Request, NEW s, pc' = [pc EXCEPT ![r] = s],
             s \in {"done", "deleting", "abandoned", "recording"},
             s = "recording" => pc[r] = "failed",
             Live(r), UNCHANGED <<recordVars, target, tried>>,
             \A p \in Request : p # r => attempted'[p] = attempted[p]
      PROVE  TriedAt(q)'
  <2>1. CASE q = r
    <3>1. /\ pc'[q] = s /\ tried'[q] = tried[q]
          /\ attempts'[q] = attempts[q] /\ recordAge'[q] = recordAge[q]
      BY <1>8, <2>1 DEF TypeInv, TypeOK
    <3>2. QED BY <1>0, <1>8, <2>1, <3>1 DEF TriedAt, Live, Ended
  <2>2. CASE q # r
    BY <1>0, <1>8, <2>2, TriedFrame DEF TypeInv, TypeOK
  <2>3. QED BY <2>1, <2>2
<1>9. ASSUME NEW r \in Request, Exhausted(r) PROVE TriedAt(q)'
  <2>1. /\ Live(r) /\ UNCHANGED <<recordVars, target, tried>>
        /\ \A p \in Request : p # r => attempted'[p] = attempted[p]
    BY <1>9 DEF Exhausted, Live, Ended, TypeInv, TypeOK
  <2>2. CASE pc[r] = "routing"
    BY <1>8, <1>9, <2>1, <2>2 DEF Exhausted
  <2>3. CASE pc[r] # "routing"
    BY <1>8, <1>9, <2>1, <2>3 DEF Exhausted
  <2>4. QED BY <2>2, <2>3
<1>10. ASSUME NEW r \in Request, CountHarmless(r) \/ CountFailure(r) PROVE TriedAt(q)'
  BY <1>8, <1>10 DEF CountHarmless, CountFailure, Live, Ended
<1>11. ASSUME NEW r \in Request, ReportSuccess(r) \/ Abandon(r) PROVE TriedAt(q)'
  BY <1>8, <1>11 DEF ReportSuccess, Abandon, Live, Ended
<1>12. ASSUME NEW r \in Request, ReadAttempted(r) PROVE TriedAt(q)'
  <2>1. CASE q = r
    <3>1. /\ pc[q] = "reading" /\ pc'[q] = "rerouting"
          /\ tried'[q] = tried[q] /\ attempted'[q] = attempts[q]
          /\ attempts'[q] = attempts[q] /\ recordAge'[q] = recordAge[q]
      BY <1>12, <2>1 DEF ReadAttempted, TypeInv, TypeOK
    <3>2. QED BY <1>0, <3>1 DEF TriedAt, Live, Ended
  <2>2. CASE q # r
    BY <1>0, <1>12, <2>2, TriedFrame DEF ReadAttempted, TypeInv, TypeOK
  <2>3. QED BY <2>1, <2>2
<1>13. ASSUME NEW r \in Request, DeleteRecord(r) PROVE TriedAt(q)'
  <2>1. CASE q = r
    <3>1. pc'[q] = "done"
      BY <1>13, <2>1 DEF DeleteRecord, TypeInv, TypeOK
    <3>2. QED BY <3>1 DEF TriedAt, Live, Ended
  <2>2. CASE q # r
    BY <1>0, <1>13, <2>2, TriedFrame DEF DeleteRecord, DeleteAttempt, TypeInv, TypeOK
  <2>3. QED BY <2>1, <2>2
<1>14. CASE Tick
  <2>1. /\ pc'[q] = pc[q] /\ tried'[q] = tried[q] /\ target'[q] = target[q]
        /\ attempted'[q] = attempted[q] /\ attempts'[q] = attempts[q]
        /\ Live(q) => recordAge[q] < StaleAge
        /\ recordAge'[q] \in {recordAge[q], recordAge[q] + 1}
    BY <1>14 DEF Tick, requestVars
  <2>2. Live(q) => recordAge'[q] <= StaleAge
    BY <2>1, TimeAssumption DEF TypeInv, TypeOK
  <2>3. QED BY <1>0, <2>1, <2>2 DEF TriedAt, Live, Ended
<1>15. CASE UNCHANGED vars
  BY <1>0, <1>15, TriedFrame DEF vars, requestVars
<1>16. QED
  BY <1>1, <1>2, <1>3, <1>5, <1>6, <1>7, <1>9, <1>10, <1>11, <1>12, <1>13, <1>14, <1>15
     DEF Next, RouterStep, HandlerStep, Finished

\* A request is admitted only to a key it has not tried.
LEMMA AdmitsFresh ==
    ASSUME TypeInv, TriedInv, [Next]_vars, NEW r \in Request,
           pc[r] = "rerouting", pc'[r] = "admitted"
    PROVE  target'[r] \notin tried[r]
<1> USE DEF Goto
<1>1. ASSUME NEW q \in Request, NEW s, Goto(q, s), s # "admitted" \/ pc[q] # "rerouting"
      PROVE  FALSE
  BY <1>1 DEF TypeInv, TypeOK
<1>2. ~UNCHANGED pc
  OBVIOUS
<1>3. ASSUME NEW q \in Request, Trying(q), Admit(q)
      PROVE  target'[r] \notin tried[r]
  <2>1. q = r
    BY <1>3 DEF Admit, TypeInv, TypeOK
  <2>2. target'[r] = Head(todo[r]) /\ Head(todo[r]) \notin attempted[r]
    BY <1>3, <2>1 DEF Admit, Trying, TypeInv, TypeOK
  <2>3. tried[r] \subseteq attempted[r]
    BY DEF TriedInv
  <2>4. QED BY <2>2, <2>3
<1>4. ASSUME NEW q \in Request, Route(q) \/ HandlerStep(q) PROVE FALSE
  BY <1>1, <1>4 DEF Route, HandlerStep, ReportError, ReportSuccess, Abandon
<1>5. ASSUME NEW q \in Request, RouterStep(q) PROVE target'[r] \notin tried[r]
  <2>1. CASE SkipAttempted(q) \/ TryCooling(q)
    BY <1>2, <2>1 DEF SkipAttempted, TryCooling, Refuse
  <2>2. CASE TryClosed(q) \/ TryRecovered(q)
    BY <1>3, <2>2 DEF TryClosed, TryRecovered
  <2>3. CASE TryHalfOpen(q)
    BY <1>2, <1>3, <2>3 DEF TryHalfOpen, Refuse
  <2>4. CASE RecordAdmitted(q) \/ Exhausted(q) \/ RecordFailed(q) \/ ReadAttempted(q)
    BY <1>1, <2>4 DEF RecordAdmitted, Exhausted, RecordFailed, ReadAttempted
  <2>5. CASE CountHarmless(q) \/ CountFailure(q) \/ DeleteRecord(q)
    BY <1>1, <2>5 DEF CountHarmless, CountFailure, DeleteRecord
  <2>6. QED BY <1>5, <2>1, <2>2, <2>3, <2>4, <2>5 DEF RouterStep
<1>6. CASE Tick \/ UNCHANGED vars
  BY <1>2, <1>6 DEF Tick, vars, requestVars
<1>7. QED BY <1>4, <1>5, <1>6 DEF Next, Finished

\* While no request outlives the five minutes of lazyCleanup, none of them is
\* sent twice to the same circuit key.
THEOREM NeverRepeats == ~LongRequests /\ Spec => NoRepeatedTarget
<1> SUFFICES ASSUME ~LongRequests
             PROVE  Spec => NoRepeatedTarget
  OBVIOUS
<1>1. Spec => []TypeInv
  BY TypeInit, TypeNext, PTL DEF Spec
<1>2. Spec => []RecordInv
  BY <1>1, RecordInit, RecordNext, PTL DEF Spec
<1>3. TypeInv /\ RecordInv /\ TriedInv /\ [Next]_vars => TriedInv'
  BY TriedNext
<1>4. Spec => []TriedInv
  BY <1>1, <1>2, <1>3, TriedInit, PTL DEF Spec
<1>5. TypeInv /\ TriedInv /\ [Next]_vars
        => [\A r \in Request :
              pc[r] = "rerouting" /\ pc'[r] = "admitted" => target'[r] \notin tried[r]]_vars
  BY AdmitsFresh
<1>6. QED BY <1>1, <1>4, <1>5, PTL DEF Spec, NoRepeatedTarget

-----------------------------------------------------------------------------
(* The contract of the circuits.                                           *)

\* A closed circuit starts with no failures.
LEMMA ClosedInit == Init => ClosedBelowThreshold
BY ThresholdAssumption DEF Init, ClosedBelowThreshold

\* A closed circuit stays below the threshold of failures.
LEMMA ClosedNext ==
    TypeInv /\ ClosedBelowThreshold /\ [Next]_vars => ClosedBelowThreshold'
<1> SUFFICES ASSUME TypeInv, ClosedBelowThreshold, [Next]_vars
             PROVE  ClosedBelowThreshold'
  OBVIOUS
<1> USE DEF circuitVars
<1>1. ASSUME UNCHANGED <<state, consecutiveFails>> PROVE ClosedBelowThreshold'
  BY <1>1 DEF ClosedBelowThreshold
<1>2. ASSUME NEW r \in Request, TryRecovered(r) PROVE ClosedBelowThreshold'
  BY <1>2 DEF TryRecovered, ClosedBelowThreshold, TypeInv, TypeOK
<1>3. ASSUME NEW r \in Request, CountFailure(r) PROVE ClosedBelowThreshold'
  <2>1. PICK k \in Key : k = target[r]
    BY <1>3 DEF CountFailure, TypeInv, TargetKnown
  <2>2. /\ consecutiveFails' = [consecutiveFails EXCEPT ![k] = @ + 1]
        /\ state' = IF Opens(k) THEN [state EXCEPT ![k] = "Open"] ELSE state
    BY <1>3, <2>1 DEF CountFailure
  <2>3. state'[k] = "Closed" => consecutiveFails[k] + 1 < FailureThreshold
    BY <2>2, ThresholdAssumption DEF Opens, TypeInv, TypeOK, CircuitState
  <2>4. QED BY <2>2, <2>3 DEF ClosedBelowThreshold, TypeInv, TypeOK
<1>4. ASSUME NEW r \in Request, ReportSuccess(r) PROVE ClosedBelowThreshold'
  <2>1. PICK k \in Key : k = target[r]
    BY <1>4 DEF ReportSuccess, TypeInv, TargetKnown
  <2>2. /\ consecutiveFails' = [consecutiveFails EXCEPT ![k] = 0]
        /\ \A j \in Key : j # k => state'[j] = state[j]
    BY <1>4, <2>1 DEF ReportSuccess, TypeInv, TypeOK
  <2>3. QED BY <2>2, ThresholdAssumption DEF ClosedBelowThreshold, TypeInv, TypeOK
<1>5. ASSUME NEW r \in Request, Route(r) \/ RouterStep(r) \/ HandlerStep(r)
      PROVE  ClosedBelowThreshold'
  BY <1>1, <1>2, <1>3, <1>4, <1>5
     DEF RouterStep, HandlerStep, Route, SkipAttempted, TryClosed, TryCooling,
         TryHalfOpen, RecordAdmitted, Exhausted, CountHarmless, RecordFailed,
         ReadAttempted, DeleteRecord, ReportError, Abandon
<1>6. CASE Tick \/ UNCHANGED vars
  BY <1>1, <1>6 DEF Tick, vars
<1>7. QED BY <1>5, <1>6 DEF Next, Finished

\* The router starts where the contract does.
LEMMA ContractInit == Init => Contract!Init
BY DEF Init, Contract!Init

\* Each step of the router is a step of the contract of one circuit, the
\* passing of time, or invisible to the contract.
LEMMA ContractNext ==
    TypeInv /\ ClosedBelowThreshold /\ [Next]_vars
        => [Contract!Next]_(Contract!contractVars)
<1> SUFFICES ASSUME TypeInv, ClosedBelowThreshold, [Next]_vars
             PROVE  Contract!Next \/ UNCHANGED Contract!contractVars
  OBVIOUS
<1> USE DEF circuitVars
<1>1. ASSUME UNCHANGED <<state, consecutiveFails, consecutiveSuccs, cooldown>>
      PROVE  UNCHANGED Contract!contractVars
  BY <1>1 DEF Contract!contractVars
<1>2. ASSUME NEW r \in Request, TryRecovered(r) PROVE Contract!Next
  <2>1. PICK k \in Key : k = Head(todo[r])
    BY <1>2, HeadTail DEF TryRecovered, Trying, TypeInv, TypeOK
  <2>2. /\ state[k] = "Open" /\ cooldown[k] = 0
        /\ state' = [state EXCEPT ![k] = "HalfOpen"]
        /\ consecutiveSuccs' = [consecutiveSuccs EXCEPT ![k] = 0]
        /\ UNCHANGED <<consecutiveFails, cooldown>>
    BY <1>2, <2>1 DEF TryRecovered
  <2>3. Contract!Recovered(k)
    BY <2>2 DEF Contract!Recovered, TypeInv, TypeOK
  <2>4. QED BY <2>3 DEF Contract!Next
<1>3. ASSUME NEW r \in Request, CountFailure(r)
      PROVE  Contract!Next \/ UNCHANGED Contract!contractVars
  <2>1. PICK k \in Key : k = target[r]
    BY <1>3 DEF CountFailure, TypeInv, TargetKnown
  <2>2. /\ consecutiveFails' = [consecutiveFails EXCEPT ![k] = @ + 1]
        /\ consecutiveSuccs' = [consecutiveSuccs EXCEPT ![k] = 0]
        /\ IF Opens(k)
             THEN /\ state' = [state EXCEPT ![k] = "Open"]
                  /\ cooldown' = [cooldown EXCEPT ![k] = RecoveryTimeout]
             ELSE UNCHANGED <<state, cooldown>>
    BY <1>3, <2>1 DEF CountFailure
  <2>3. CASE Opens(k)
    <3>1. Contract!Opens(k)
      BY <2>2, <2>3 DEF Contract!Opens, TypeInv, TypeOK
    <3>2. CASE state[k] = "HalfOpen"
      BY <3>1, <3>2 DEF Contract!Relapse, Contract!Next
    <3>3. CASE state[k] = "Closed" /\ consecutiveFails[k] + 1 >= FailureThreshold
      <4>1. ~(consecutiveFails[k] + 1 < FailureThreshold)
        BY <3>3, ThresholdAssumption DEF TypeInv, TypeOK
      <4>2. Contract!Failure(k)
        BY <3>1, <3>3, <4>1 DEF Contract!Failure
      <4>3. QED BY <4>2 DEF Contract!Next
    <3>4. QED BY <2>3, <3>2, <3>3 DEF Opens
  <2>4. CASE ~Opens(k) /\ state[k] = "Closed"
    <3>1. consecutiveFails[k] + 1 < FailureThreshold
      BY <2>4, ThresholdAssumption DEF Opens, TypeInv, TypeOK
    <3>2. Contract!Failure(k)
      BY <2>2, <2>4, <3>1 DEF Contract!Failure, TypeInv, TypeOK
    <3>3. QED BY <3>2 DEF Contract!Next
  <2>5. CASE state[k] = "Open"
    BY <2>2, <2>5 DEF Opens, Contract!contractVars, TypeInv, TypeOK
  <2>6. QED BY <2>3, <2>4, <2>5 DEF Opens, TypeInv, TypeOK, CircuitState
<1>4. ASSUME NEW r \in Request, ReportSuccess(r)
      PROVE  Contract!Next \/ UNCHANGED Contract!contractVars
  <2>1. PICK k \in Key : k = target[r]
    BY <1>4 DEF ReportSuccess, TypeInv, TargetKnown
  <2>2. consecutiveFails' = [consecutiveFails EXCEPT ![k] = 0] /\ UNCHANGED cooldown
    BY <1>4, <2>1 DEF ReportSuccess
  <2>3. CASE Closes(k)
    <3>1. /\ state[k] = "HalfOpen" /\ state' = [state EXCEPT ![k] = "Closed"]
          /\ consecutiveSuccs' = [consecutiveSuccs EXCEPT ![k] = 0]
          /\ ~(consecutiveSuccs[k] + 1 < SuccessThreshold)
      BY <1>4, <2>1, <2>3, ThresholdAssumption DEF ReportSuccess, Closes, TypeInv, TypeOK
    <3>2. Contract!Success(k)
      BY <2>2, <3>1 DEF Contract!Success, TypeInv, TypeOK
    <3>3. QED BY <3>2 DEF Contract!Next
  <2>4. CASE state[k] = "HalfOpen" /\ ~Closes(k)
    <3>1. /\ consecutiveSuccs' = [consecutiveSuccs EXCEPT ![k] = @ + 1]
          /\ UNCHANGED state
          /\ consecutiveSuccs[k] + 1 < SuccessThreshold
      BY <1>4, <2>1, <2>4, ThresholdAssumption DEF ReportSuccess, Closes, TypeInv, TypeOK
    <3>2. Contract!Success(k)
      BY <2>2, <2>4, <3>1 DEF Contract!Success, TypeInv, TypeOK
    <3>3. QED BY <3>2 DEF Contract!Next
  <2>5. CASE state[k] = "Closed"
    <3>1. UNCHANGED <<state, consecutiveSuccs>>
      BY <1>4, <2>1, <2>5 DEF ReportSuccess, Closes
    <3>2. Contract!Success(k)
      BY <2>2, <2>5, <3>1 DEF Contract!Success, TypeInv, TypeOK
    <3>3. QED BY <3>2 DEF Contract!Next
  <2>6. CASE state[k] = "Open"
    <3>1. UNCHANGED <<state, consecutiveSuccs>>
      BY <1>4, <2>1, <2>6 DEF ReportSuccess, Closes
    <3>2. QED BY <2>2, <2>6, <3>1 DEF Contract!contractVars, TypeInv, TypeOK
  <2>7. QED BY <2>3, <2>4, <2>5, <2>6 DEF TypeInv, TypeOK, CircuitState
<1>5. CASE Tick
  <2>1. Contract!Elapse
    BY <1>5 DEF Tick, Contract!Elapse, TypeInv, TypeOK
  <2>2. QED BY <2>1 DEF Contract!Next
<1>6. CASE UNCHANGED vars
  BY <1>1, <1>6 DEF vars
<1>7. ASSUME NEW r \in Request, Route(r) \/ RouterStep(r) \/ HandlerStep(r)
      PROVE  Contract!Next \/ UNCHANGED Contract!contractVars
  BY <1>1, <1>2, <1>3, <1>4, <1>7
     DEF RouterStep, HandlerStep, Route, SkipAttempted, TryClosed, TryCooling,
         TryHalfOpen, RecordAdmitted, Exhausted, CountHarmless, RecordFailed,
         ReadAttempted, DeleteRecord, ReportError, Abandon
<1>8. QED BY <1>5, <1>6, <1>7 DEF Next, Finished

\* The router implements the contract of every circuit, with any number of
\* requests whose reports come in any order.
THEOREM ImplementsContract == Spec => KeepsContract
<1>1. Spec => []TypeInv
  BY TypeInit, TypeNext, PTL DEF Spec
<1>2. Spec => []ClosedBelowThreshold
  BY <1>1, ClosedInit, ClosedNext, PTL DEF Spec
<1>3. QED
  BY <1>1, <1>2, ContractInit, ContractNext, PTL
     DEF Spec, KeepsContract, Contract!Spec
=============================================================================
